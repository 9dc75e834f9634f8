-------------------------- MODULE LoweringProofs ----------------------------
(***************************************************************************)
(* Proofs about Lowering, for every well-formed function body that passed  *)
(* semantic analysis (Analyzed): lowering never reports an error, each     *)
(* block gets exactly one terminator in time, value ids are defined once   *)
(* and used in the block that defines them, and a name means the slot of   *)
(* the declaration that it meant to semantic analysis.                     *)
(*                                                                         *)
(* The invariant LInv ties the stacks of lowering to Walk, which replays   *)
(* the scopes and loops of semantic analysis over the same statements.     *)
(* KInv, at the end, is about the code that lowering builds after a        *)
(* statement that always returns.                                          *)
(***************************************************************************)
EXTENDS Lowering, SequenceLemmas

(* The scopes of semantic analysis after each statement, and how many      *)
(* loops are around the bodies of the open statements.                     *)
Scope == UNION {[D -> Nat] : D \in SUBSET (Name \cup {Param})}

WalkState == [depths : Seq(Nat), scopes : Seq(Scope)]

EmptyScope == << >>

WalkStart == [depths |-> << >>, scopes |-> <<With(<< >>, Param, 0)>>]

Loops(bd, j) == IF bd[j].kind = "while" THEN 1 ELSE 0

WithLast(s, e) == [s EXCEPT ![Len(s)] = e]

(* How many loops are around the statements in the body of the k-th open   *)
(* statement, and around those of the function for 0.                      *)
Depth(w, k) == IF k = 0 THEN 0 ELSE w.depths[k]

Walked(bd, i, w) ==
  IF bd[i].kind \in Openers
  THEN [depths |-> Append(w.depths, Depth(w, Len(w.depths)) + Loops(bd, i)),
        scopes |-> Append(w.scopes, EmptyScope)]
  ELSE IF bd[i].kind = "close"
  THEN [depths |-> Front(w.depths), scopes |-> Front(w.scopes)]
  ELSE IF bd[i].kind = "else"
  THEN [w EXCEPT !.scopes = WithLast(w.scopes, EmptyScope)]
  ELSE IF bd[i].kind = "declare"
  THEN [w EXCEPT !.scopes = WithLast(w.scopes, With(Last(w.scopes), bd[i].name, i))]
  ELSE w

Walk(bd) ==
  LET walk[i \in 0 .. Len(bd)] == IF i = 0 THEN WalkStart ELSE Walked(bd, i, walk[i - 1])
  IN  walk

-----------------------------------------------------------------------------
(* The shapes of statements.                                               *)
LEMMA StmtFacts ==
  ASSUME NEW s, s \in Stmt
  PROVE  /\ s.kind \in {"declare", "assign", "print", "return", "break", "continue", "else",
                        "close", "block", "if", "while"}
         /\ s.kind \in {"declare", "assign", "print", "if", "while"} => s.expr \in Expr
         /\ s.kind = "return" => s.expr \in Expr \cup {NoExpr}
         /\ s.kind \in {"declare", "assign"} => s.name \in Name
         /\ s.hasElse \in BOOLEAN
         /\ s.hasElse => s.kind = "if"
<1>1. CASE s \in {VarDeclStmt(x, e) : x \in Name, e \in Expr}
  <2>1. PICK x \in Name, e \in Expr : s = VarDeclStmt(x, e)
    BY <1>1
  <2>2. s = [kind |-> "declare", name |-> x, expr |-> e, hasElse |-> FALSE]
    BY <2>1 DEF VarDeclStmt, Plain
  <2> QED
    BY <2>2
<1>2. CASE s \in {AssignStmt(x, e) : x \in Name, e \in Expr}
  <2>1. PICK x \in Name, e \in Expr : s = AssignStmt(x, e)
    BY <1>2
  <2>2. s = [kind |-> "assign", name |-> x, expr |-> e, hasElse |-> FALSE]
    BY <2>1 DEF AssignStmt, Plain
  <2> QED
    BY <2>2
<1>3. CASE s \in {PrintStmt(e) : e \in Expr}
  <2>1. PICK e \in Expr : s = PrintStmt(e)
    BY <1>3
  <2>2. s = [kind |-> "print", name |-> "", expr |-> e, hasElse |-> FALSE]
    BY <2>1 DEF PrintStmt, Plain
  <2> QED
    BY <2>2
<1>4. CASE s \in {ReturnStmt(e) : e \in Expr \cup {NoExpr}}
  <2>1. PICK e \in Expr \cup {NoExpr} : s = ReturnStmt(e)
    BY <1>4
  <2>2. s = [kind |-> "return", name |-> "", expr |-> e, hasElse |-> FALSE]
    BY <2>1 DEF ReturnStmt, Plain
  <2> QED
    BY <2>2
<1>5. CASE s \in {WhileStmt(e) : e \in Expr}
  <2>1. PICK e \in Expr : s = WhileStmt(e)
    BY <1>5
  <2>2. s = [kind |-> "while", name |-> "", expr |-> e, hasElse |-> FALSE]
    BY <2>1 DEF WhileStmt, Plain
  <2> QED
    BY <2>2
<1>6. CASE s \in {IfStmt(e, hasElse) : e \in Expr, hasElse \in BOOLEAN}
  <2>1. PICK e \in Expr, hasElse \in BOOLEAN : s = IfStmt(e, hasElse)
    BY <1>6
  <2>2. s = [kind |-> "if", name |-> "", expr |-> e, hasElse |-> hasElse]
    BY <2>1 DEF IfStmt
  <2> QED
    BY <2>2
<1>7. CASE s \in {BreakStmt, ContinueStmt, BlockStmt, ElseMark, CloseMark}
  <2>1. PICK kind \in {"break", "continue", "block", "else", "close"} : s = Plain(kind, "", NoExpr)
    BY <1>7 DEF BreakStmt, ContinueStmt, BlockStmt, ElseMark, CloseMark
  <2>2. s = [kind |-> kind, name |-> "", expr |-> NoExpr, hasElse |-> FALSE]
    BY <2>1 DEF Plain
  <2> QED
    BY <2>2
<1> QED
  BY <1>1, <1>2, <1>3, <1>4, <1>5, <1>6, <1>7 DEF Stmt

(* The stack of open statements, by its recursion.                         *)
LEMMA OpenFacts ==
  ASSUME NEW bd, bd \in Seq(Stmt)
  PROVE  /\ Open(bd)[0] = << >>
         /\ \A i \in 1 .. Len(bd) :
              Open(bd)[i] = IF bd[i].kind \in Openers THEN Append(Open(bd)[i - 1], i)
                            ELSE IF bd[i].kind = "close" THEN Front(Open(bd)[i - 1])
                            ELSE Open(bd)[i - 1]
         /\ \A i \in 0 .. Len(bd) : Open(bd)[i] \in Seq(1 .. Len(bd))
<1> DEFINE n == Len(bd)
<1> DEFINE S == Seq(1 .. n)
<1> DEFINE step(i, x) == IF bd[i].kind \in Openers THEN Append(x, i)
                         ELSE IF bd[i].kind = "close" THEN Front(x) ELSE x
<1> DEFINE G == [i \in 1 .. n |-> [x \in S |-> step(i, x)]]
<1> DEFINE open == CHOOSE f : f = [i \in 0 .. n |-> IF i = 0 THEN << >> ELSE step(i, f[i - 1])]
<1>1. n \in Nat
  BY LengthFacts
<1>2. \A i \in 1 .. n : \A x \in S : G[i][x] = step(i, x) /\ step(i, x) \in S
  <2> SUFFICES ASSUME NEW i \in 1 .. n, NEW x \in S
               PROVE  step(i, x) \in S
    OBVIOUS
  <2>1. Front(x) \in S
    BY FrontInSeq, Zenon
  <2>2. Append(x, i) \in S
    OBVIOUS
  <2> QED
    BY <2>1, <2>2, Zenon
<1> HIDE DEF G
<1>3. PICK f : IteratesUpTo(f, n, S, << >>, G)
  <2>1. StepsUpTo(n, G, S) /\ << >> \in S
    BY <1>2, EmptySeq DEF StepsUpTo
  <2> HIDE DEF n, S
  <2> QED
    BY <1>1, <2>1, BoundedRecursion
<1>4. f = [i \in 0 .. n |-> IF i = 0 THEN << >> ELSE step(i, f[i - 1])]
  <2>1. \A i \in 1 .. n : i - 1 \in 0 .. n
    BY <1>1
  <2> HIDE DEF step, S
  <2>2. ASSUME NEW i \in 1 .. n
        PROVE  G[i][f[i - 1]] = step(i, f[i - 1])
    BY <1>2, <1>3, <2>1 DEF IteratesUpTo
  <2>3. \A i \in 0 .. n : (IF i = 0 THEN << >> ELSE G[i][f[i - 1]])
                            = IF i = 0 THEN << >> ELSE step(i, f[i - 1])
    BY <1>1, <2>2
  <2>4. f = [i \in 0 .. n |-> IF i = 0 THEN << >> ELSE G[i][f[i - 1]]]
    BY <1>3 DEF IteratesUpTo
  <2> QED
    BY <2>3, <2>4
<1>5. open = [i \in 0 .. n |-> IF i = 0 THEN << >> ELSE step(i, open[i - 1])]
  BY <1>4
<1>6. Open(bd) = open
  BY DEF Open
<1> HIDE DEF open, step
<1>7. open[0] = << >> /\ \A i \in 1 .. n : open[i] = step(i, open[i - 1])
  BY <1>1, <1>5
<1> DEFINE P == {i \in Nat : i <= n => open[i] \in S}
<1>8. 0 \in P
  BY <1>7, EmptySeq
<1>9. ASSUME NEW i \in Nat, i \in P
      PROVE  i + 1 \in P
  <2> SUFFICES ASSUME i + 1 <= n
               PROVE  open[i + 1] \in S
    OBVIOUS
  <2>1. i + 1 \in 1 .. n /\ (i + 1) - 1 = i /\ open[i] \in S
    BY <1>1, <1>9
  <2> QED
    BY <1>2, <1>7, <2>1
<1>10. Nat \subseteq P
  <2> HIDE DEF P
  <2> QED
    BY <1>8, <1>9, Induction
<1> QED
  BY <1>6, <1>7, <1>10 DEF step

(* Replacing the last element of a sequence.                               *)
LEMMA WithLastFacts ==
  ASSUME NEW S, NEW s \in Seq(S), NEW e \in S
  PROVE  /\ WithLast(s, e) \in Seq(S)
         /\ Len(WithLast(s, e)) = Len(s)
         /\ \A k \in 1 .. Len(s) - 1 : WithLast(s, e)[k] = s[k]
         /\ s # << >> => WithLast(s, e)[Len(s)] = e
<1>1. Len(s) \in Nat /\ DOMAIN s = 1 .. Len(s)
  BY LengthFacts
<1>2. s \in [1 .. Len(s) -> S]
  BY <1>1
<1> DEFINE t == WithLast(s, e)
<1>3. t \in [1 .. Len(s) -> S]
  BY <1>1, <1>2 DEF WithLast
<1>4. t \in Seq(S) /\ Len(t) = Len(s)
  <2> HIDE DEF t
  <2>1. t \in Seq(S)
    BY <1>1, <1>3, SeqDef
  <2>2. DOMAIN t = 1 .. Len(s) /\ DOMAIN t = 1 .. Len(t) /\ Len(t) \in Nat
    BY <1>3, <2>1, LenProperties
  <2> QED
    BY <1>1, <2>1, <2>2
<1>5. \A k \in 1 .. Len(s) : t[k] = IF k = Len(s) THEN e ELSE s[k]
  BY <1>1, <1>2 DEF WithLast
<1> HIDE DEF t
<1>6. s # << >> => Len(s) \in 1 .. Len(s)
  BY LengthFacts
<1>7. ASSUME NEW k \in 1 .. Len(s) - 1
      PROVE  t[k] = s[k]
  <2>0. \A n \in Nat : \A j \in 1 .. n - 1 : j \in 1 .. n /\ j # n
    OBVIOUS
  <2>1. k \in 1 .. Len(s) /\ k # Len(s)
    BY <1>1, <2>0
  <2> QED
    BY <1>5, <2>1
<1>8. s # << >> => t[Len(s)] = e
  BY <1>5, <1>6
<1> QED
  BY <1>4, <1>7, <1>8 DEF t

(* Scopes stay scopes when a name is declared.                             *)
LEMMA ScopeFacts ==
  ASSUME NEW scope \in Scope, NEW x \in Name \cup {Param}, NEW v \in Nat
  PROVE  With(scope, x, v) \in Scope
<1>1. PICK D \in SUBSET (Name \cup {Param}) : scope \in [D -> Nat]
  BY DEF Scope
<1>2. With(scope, x, v) \in [D \cup {x} -> Nat]
  BY <1>1 DEF With
<1> QED
  BY <1>1, <1>2 DEF Scope

(* The scopes that a walk starts with.                                     *)
LEMMA NewScopes ==
  EmptyScope \in Scope /\ DOMAIN EmptyScope = {} /\ With(<< >>, Param, 0) \in Scope
<1>1. EmptyScope \in [{} -> Nat]
  BY DEF EmptyScope
<1>2. With(<< >>, Param, 0) \in [{Param} -> Nat]
  BY <1>1 DEF With
<1> QED
  BY <1>1, <1>2 DEF Scope

(* The walk, by its recursion.                                             *)
LEMMA WalkFacts ==
  ASSUME NEW bd, bd \in Seq(Stmt)
  PROVE  /\ Walk(bd)[0] = WalkStart
         /\ \A i \in 1 .. Len(bd) : Walk(bd)[i] = Walked(bd, i, Walk(bd)[i - 1])
         /\ \A i \in 0 .. Len(bd) : Walk(bd)[i] \in WalkState
<1> DEFINE n == Len(bd)
<1> DEFINE G == [i \in 1 .. n |-> [x \in WalkState |-> Walked(bd, i, x)]]
<1> DEFINE walk == CHOOSE f : f = [i \in 0 .. n |-> IF i = 0 THEN WalkStart
                                                    ELSE Walked(bd, i, f[i - 1])]
<1>1. n \in Nat /\ WalkStart \in WalkState
  BY LengthFacts, NewScopes DEF WalkState, WalkStart
<1>2. \A i \in 1 .. n : \A x \in WalkState :
         G[i][x] = Walked(bd, i, x) /\ Walked(bd, i, x) \in WalkState
  <2> SUFFICES ASSUME NEW i \in 1 .. n, NEW x \in WalkState
               PROVE  Walked(bd, i, x) \in WalkState
    OBVIOUS
  <2>1. x.depths \in Seq(Nat) /\ x.scopes \in Seq(Scope)
        /\ x = [depths |-> x.depths, scopes |-> x.scopes]
    BY DEF WalkState
  <2>2. CASE bd[i].kind \in Openers
    <3>1. Depth(x, Len(x.depths)) + Loops(bd, i) \in Nat
      BY <2>1, LengthFacts DEF Depth, Loops
    <3> QED
      BY <2>1, <2>2, <3>1, NewScopes DEF Walked, WalkState
  <2>3. CASE bd[i].kind = "close"
    BY <2>1, <2>3, FrontInSeq DEF Walked, WalkState, Openers
  <2>4. CASE bd[i].kind = "else"
    <3>1. WithLast(x.scopes, EmptyScope) \in Seq(Scope)
      BY <2>1, NewScopes, WithLastFacts
    <3> QED
      BY <2>1, <2>4, <3>1 DEF Walked, WalkState, Openers
  <2>5. CASE bd[i].kind = "declare"
    <3> DEFINE new == WithLast(x.scopes, With(Last(x.scopes), bd[i].name, i))
    <3>1. new \in Seq(Scope)
      <4>1. CASE x.scopes = << >>
        <5>1. new = << >>
          <6>1. DOMAIN x.scopes = {}
            BY <4>1
          <6> QED
            BY <6>1 DEF WithLast
        <5> QED
          BY <5>1, EmptySeq
      <4>2. CASE x.scopes # << >>
        <5>1. Last(x.scopes) \in Scope
          BY <2>1, <4>2, FrontElements
        <5>2. bd[i].name \in Name
          BY <2>5, StmtFacts
        <5>3. With(Last(x.scopes), bd[i].name, i) \in Scope
          BY <1>1, <5>1, <5>2, ScopeFacts
        <5> QED
          BY <2>1, <5>3, WithLastFacts
      <4> QED
        BY <4>1, <4>2
    <3> HIDE DEF new
    <3> QED
      BY <2>1, <2>5, <3>1 DEF Walked, WalkState, Openers, new
  <2>6. CASE bd[i].kind \notin Openers \cup {"close", "else", "declare"}
    BY <2>6 DEF Walked
  <2> QED
    BY <2>2, <2>3, <2>4, <2>5, <2>6
<1> HIDE DEF G
<1>3. PICK f : IteratesUpTo(f, n, WalkState, WalkStart, G)
  <2>1. StepsUpTo(n, G, WalkState)
    BY <1>2 DEF StepsUpTo
  <2> HIDE DEF n
  <2> QED
    BY <1>1, <2>1, BoundedRecursion
<1>4. f = [i \in 0 .. n |-> IF i = 0 THEN WalkStart ELSE Walked(bd, i, f[i - 1])]
  <2>1. \A i \in 1 .. n : i - 1 \in 0 .. n
    BY <1>1
  <2>2. ASSUME NEW i \in 1 .. n
        PROVE  G[i][f[i - 1]] = Walked(bd, i, f[i - 1])
    BY <1>2, <1>3, <2>1 DEF IteratesUpTo
  <2>3. \A i \in 0 .. n : (IF i = 0 THEN WalkStart ELSE G[i][f[i - 1]])
                            = IF i = 0 THEN WalkStart ELSE Walked(bd, i, f[i - 1])
    BY <1>1, <2>2
  <2>4. f = [i \in 0 .. n |-> IF i = 0 THEN WalkStart ELSE G[i][f[i - 1]]]
    BY <1>3 DEF IteratesUpTo
  <2> QED
    BY <2>3, <2>4
<1>5. walk = [i \in 0 .. n |-> IF i = 0 THEN WalkStart ELSE Walked(bd, i, walk[i - 1])]
  BY <1>4
<1>6. Walk(bd) = walk
  BY DEF Walk
<1> HIDE DEF walk
<1>7. walk[0] = WalkStart /\ \A i \in 1 .. n : walk[i] = Walked(bd, i, walk[i - 1])
  BY <1>1, <1>5
<1> DEFINE P == {i \in Nat : i <= n => walk[i] \in WalkState}
<1>8. 0 \in P
  BY <1>1, <1>7
<1>9. ASSUME NEW i \in Nat, i \in P
      PROVE  i + 1 \in P
  <2> SUFFICES ASSUME i + 1 <= n
               PROVE  walk[i + 1] \in WalkState
    OBVIOUS
  <2>1. i + 1 \in 1 .. n /\ (i + 1) - 1 = i /\ walk[i] \in WalkState
    BY <1>1, <1>9
  <2> QED
    BY <1>2, <1>7, <2>1
<1>10. Nat \subseteq P
  <2> HIDE DEF P
  <2> QED
    BY <1>8, <1>9, Induction
<1> QED
  BY <1>6, <1>7, <1>10

(* How the stacks of a walk fit together: each open statement, from the    *)
(* outermost on, starts later than the one around it and has a scope of    *)
(* its own.                                                                *)
Nested(bd, i) ==
  LET open == Open(bd)[i]
      w == Walk(bd)[i]
  IN  /\ Len(w.depths) = Len(open)
      /\ Len(w.scopes) = Len(open) + 1
      /\ \A k \in 1 .. Len(open) :
           /\ open[k] \in 1 .. i
           /\ bd[open[k]].kind \in Openers
           /\ Depth(w, k) = Depth(w, k - 1) + Loops(bd, open[k])
      /\ \A j, k \in 1 .. Len(open) : j < k => open[j] < open[k]

(* The else of the if at j is among the first i statements.                *)
Passed(bd, j, i) == \E k \in 1 .. i : bd[k].kind = "else" /\ OpenerOf(bd, k) = j

(* What the parser guarantees, in terms of the open statements.            *)
LEMMA WellFormedFacts ==
  ASSUME NEW bd, bd \in Seq(Stmt), WellFormed(bd)
  PROVE  /\ Open(bd)[Len(bd)] = << >>
         /\ \A i \in 1 .. Len(bd) :
              bd[i].kind \in {"else", "close"} =>
                /\ Open(bd)[i - 1] # << >>
                /\ OpenerOf(bd, i) = Last(Open(bd)[i - 1])
                /\ OpenerOf(bd, i) \in 1 .. Len(bd)
         /\ \A i \in 1 .. Len(bd) : bd[i].kind = "else" => bd[OpenerOf(bd, i)].hasElse
         /\ \A i, k \in 1 .. Len(bd) :
              bd[i].kind = "else" /\ bd[k].kind = "else" /\ OpenerOf(bd, i) = OpenerOf(bd, k)
                => i = k
         /\ \A j \in 1 .. Len(bd) :
              bd[j].hasElse => \E i \in 1 .. Len(bd) : bd[i].kind = "else" /\ OpenerOf(bd, i) = j
<1> DEFINE n == Len(bd)
<1> DEFINE P(i) == OpenerOf(bd, i)
<1> DEFINE Elses(j) == {k \in DOMAIN bd : bd[k].kind = "else" /\ P(k) = j}
<1>1. n \in Nat /\ DOMAIN bd = 1 .. n
  BY LengthFacts
<1>2. P(n + 1) = 0
  BY DEF WellFormed, OpenerOf
<1>3. ASSUME NEW i \in 1 .. n
      PROVE  /\ bd[i].kind \in {"else", "close"} => P(i) # 0
             /\ bd[i].kind = "else" => bd[P(i)].hasElse
             /\ Cardinality(Elses(i)) = IF bd[i].hasElse THEN 1 ELSE 0
  <2>1. i \in DOMAIN bd
    BY <1>1
  <2> QED
    BY <2>1, Zenon DEF WellFormed, OpenerOf
<1>4. \A i \in 1 .. n + 1 :
         P(i) = IF Open(bd)[i - 1] = << >> THEN 0 ELSE Last(Open(bd)[i - 1])
  BY DEF Parents, OpenerOf
<1>5. \A i \in 1 .. n + 1 : Open(bd)[i - 1] \in Seq(1 .. n)
  <2>1. \A i \in 1 .. n + 1 : i - 1 \in 0 .. n
    BY <1>1
  <2> QED
    BY <2>1, OpenFacts
<1>6. \A i \in 1 .. n + 1 : Open(bd)[i - 1] # << >> => Last(Open(bd)[i - 1]) \in 1 .. n
  BY <1>5, FrontElements
<1>7. 1 .. n \subseteq 1 .. n + 1 /\ n + 1 \in 1 .. n + 1 /\ (n + 1) - 1 = n /\ 0 \notin 1 .. n
  BY <1>1
<1> HIDE DEF P, n
<1>8. Open(bd)[n] = << >>
  <2>1. Open(bd)[(n + 1) - 1] = << >>
    BY <1>2, <1>4, <1>6, <1>7
  <2> QED
    BY <1>7, <2>1
<1>9. ASSUME NEW i \in 1 .. n, bd[i].kind \in {"else", "close"}
      PROVE  /\ Open(bd)[i - 1] # << >>
             /\ P(i) = Last(Open(bd)[i - 1])
             /\ P(i) \in 1 .. n
  <2>1. P(i) # 0 /\ i \in 1 .. n + 1
    BY <1>3, <1>7, <1>9
  <2> QED
    BY <1>4, <1>6, <2>1
<1>10. \A i \in 1 .. n : bd[i].kind = "else" => bd[P(i)].hasElse
  BY <1>3
<1>11. ASSUME NEW i \in 1 .. n, NEW k \in 1 .. n, bd[i].kind = "else", bd[k].kind = "else",
              P(i) = P(k)
       PROVE  i = k
  <2> DEFINE j == P(i)
  <2>1. j \in 1 .. n /\ bd[j].hasElse
    BY <1>9, <1>10, <1>11
  <2>2. Cardinality(Elses(j)) = 1 /\ i \in Elses(j) /\ k \in Elses(j)
    BY <1>1, <1>3, <1>11, <2>1
  <2>3. IsFiniteSet(Elses(j))
    <3>1. IsFiniteSet(1 .. n)
      BY <1>1, FS_Interval
    <3>2. Elses(j) \subseteq 1 .. n
      BY <1>1
    <3> HIDE DEF Elses
    <3> QED
      BY <3>1, <3>2, FS_Subset
  <2>4. PICK x : Elses(j) = {x}
    <3> HIDE DEF Elses
    <3> QED
      BY <2>2, <2>3, FS_Singleton
  <2> HIDE DEF Elses
  <2> QED
    BY <2>2, <2>4
<1>12. ASSUME NEW j \in 1 .. n, bd[j].hasElse
       PROVE  \E i \in 1 .. n : bd[i].kind = "else" /\ P(i) = j
  <2>1. Cardinality(Elses(j)) = 1
    BY <1>3, <1>12
  <2>2. Elses(j) # {}
    <3>1. Cardinality({}) = 0
      BY FS_EmptySet
    <3> HIDE DEF Elses
    <3> QED
      BY <2>1, <3>1
  <2> QED
    BY <1>1, <2>2
<1> QED
  BY <1>8, <1>9, <1>10, <1>11, <1>12, Zenon DEF P, n

(* A walk stays nested.                                                    *)
LEMMA NestedStep ==
  ASSUME NEW bd, bd \in Seq(Stmt), WellFormed(bd), NEW i \in 1 .. Len(bd), Nested(bd, i - 1)
  PROVE  Nested(bd, i)
<1> DEFINE open == Open(bd)[i - 1]
<1> DEFINE w == Walk(bd)[i - 1]
<1> DEFINE n == Len(open)
<1>1. i \in Nat \ {0} /\ Len(bd) \in Nat /\ i - 1 \in 0 .. Len(bd) /\ bd[i] \in Stmt
  BY LengthFacts
<1>2. /\ open \in Seq(1 .. Len(bd)) /\ w.depths \in Seq(Nat) /\ w.scopes \in Seq(Scope)
      /\ w = [depths |-> w.depths, scopes |-> w.scopes]
      /\ n \in Nat
  <2>1. w \in WalkState /\ open \in Seq(1 .. Len(bd))
    BY <1>1, OpenFacts, WalkFacts
  <2> HIDE DEF w, open
  <2> QED
    BY <2>1, LengthFacts DEF WalkState
<1>3. /\ Len(w.depths) = n
      /\ Len(w.scopes) = n + 1
      /\ \A k \in 1 .. n :
           /\ open[k] \in 1 .. i - 1
           /\ bd[open[k]].kind \in Openers
           /\ Depth(w, k) = Depth(w, k - 1) + Loops(bd, open[k])
      /\ \A j, k \in 1 .. n : j < k => open[j] < open[k]
  BY DEF Nested
<1>4. /\ Open(bd)[i] = IF bd[i].kind \in Openers THEN Append(open, i)
                       ELSE IF bd[i].kind = "close" THEN Front(open) ELSE open
      /\ Walk(bd)[i] = Walked(bd, i, w)
  BY OpenFacts, WalkFacts
<1>5. 1 .. i - 1 \subseteq 1 .. i
  BY <1>1
<1> HIDE DEF open, w, n
<1>6. CASE bd[i].kind \in Openers
  <2> DEFINE open1 == Append(open, i)
  <2> DEFINE depth == Depth(w, n) + Loops(bd, i)
  <2> DEFINE w1 == [depths |-> Append(w.depths, depth), scopes |-> Append(w.scopes, EmptyScope)]
  <2>1. Open(bd)[i] = open1 /\ Walk(bd)[i] = w1
    BY <1>3, <1>4, <1>6 DEF Walked
  <2>2. depth \in Nat
    BY <1>2, <1>3, LengthFacts DEF Depth, Loops
  <2>3. /\ Len(open1) = n + 1
        /\ \A k \in 1 .. n : open1[k] = open[k]
        /\ open1[n + 1] = i
    BY <1>2 DEF n
  <2> HIDE DEF depth
  <2>4. /\ Len(w1.depths) = n + 1 /\ Len(w1.scopes) = n + 1 + 1
        /\ \A k \in 1 .. n : w1.depths[k] = w.depths[k]
        /\ w1.depths[n + 1] = depth
    BY <1>2, <1>3, <2>2, NewScopes
  <2>5. (\A k \in 0 .. n : Depth(w1, k) = Depth(w, k)) /\ Depth(w1, n + 1) = depth
    BY <1>2, <2>4 DEF Depth
  <2> HIDE DEF w1, open1
  <2>6. ASSUME NEW k \in 1 .. n + 1
        PROVE  /\ open1[k] \in 1 .. i
               /\ bd[open1[k]].kind \in Openers
               /\ Depth(w1, k) = Depth(w1, k - 1) + Loops(bd, open1[k])
    <3>1. CASE k = n + 1
      <4>3. n \in Nat
        BY <1>2
      <4>1. (n + 1) - 1 = n /\ k - 1 = n /\ n \in 0 .. n
        BY <3>1, <4>3
      <4>2. i \in 1 .. i
        BY <1>1
      <4> QED
        BY <1>6, <2>3, <2>5, <3>1, <4>1, <4>2 DEF depth
    <3>2. CASE k # n + 1
      <4>1. k \in 1 .. n /\ k \in 0 .. n /\ k - 1 \in 0 .. n
        BY <1>2, <3>2
      <4> QED
        BY <1>3, <1>5, <2>3, <2>5, <4>1
    <3> QED
      BY <3>1, <3>2
  <2>7. ASSUME NEW j \in 1 .. n + 1, NEW k \in 1 .. n + 1, j < k
        PROVE  open1[j] < open1[k]
    <3>1. j \in 1 .. n
      BY <1>2, <2>7
    <3>2. CASE k = n + 1
      BY <1>1, <1>3, <2>3, <3>1, <3>2
    <3>3. CASE k # n + 1
      <4>1. k \in 1 .. n
        BY <1>2, <3>3
      <4> QED
        BY <1>3, <2>3, <2>7, <3>1, <4>1
    <3> QED
      BY <3>2, <3>3
  <2> QED
    BY <2>1, <2>3, <2>4, <2>6, <2>7 DEF Nested
<1>7. CASE bd[i].kind = "close"
  <2> DEFINE w1 == [depths |-> Front(w.depths), scopes |-> Front(w.scopes)]
  <2>1. Open(bd)[i] = Front(open) /\ Walk(bd)[i] = w1
    BY <1>4, <1>7 DEF Walked, Openers
  <2>2. open # << >>
    BY <1>7, WellFormedFacts DEF open
  <2>3. n # 0 /\ n - 1 \in Nat
    BY <1>2, <2>2 DEF n
  <2>4. w.depths # << >> /\ w.scopes # << >>
    BY <1>2, <1>3, <2>3
  <2>5. Len(Front(open)) = n - 1 /\ \A k \in 1 .. n - 1 : Front(open)[k] = open[k]
    BY <1>2, <2>2, FrontFacts DEF n
  <2>6. Len(Front(w.depths)) = n - 1 /\ \A k \in 1 .. n - 1 : Front(w.depths)[k] = w.depths[k]
    BY <1>2, <1>3, <2>4, FrontFacts
  <2>7. Len(Front(w.scopes)) = n
    BY <1>2, <1>3, <2>4, FrontFacts
  <2>8. \A k \in 0 .. n - 1 : Depth(w1, k) = Depth(w, k)
    BY <2>3, <2>6 DEF Depth
  <2>9. Len(w1.depths) = n - 1 /\ Len(w1.scopes) = n - 1 + 1
    BY <2>3, <2>6, <2>7
  <2> HIDE DEF w1
  <2>10. \A k \in 1 .. n - 1 : k \in 1 .. n /\ k \in 0 .. n - 1 /\ k - 1 \in 0 .. n - 1
    BY <1>2, <2>3
  <2>11. ASSUME NEW k \in 1 .. n - 1
         PROVE  /\ Front(open)[k] \in 1 .. i
                /\ bd[Front(open)[k]].kind \in Openers
                /\ Depth(w1, k) = Depth(w1, k - 1) + Loops(bd, Front(open)[k])
    BY <1>3, <1>5, <2>5, <2>8, <2>10
  <2>12. \A j, k \in 1 .. n - 1 : j < k => Front(open)[j] < Front(open)[k]
    BY <1>3, <2>5, <2>10
  <2> QED
    BY <2>1, <2>5, <2>9, <2>11, <2>12 DEF Nested
<1>8. CASE bd[i].kind \notin Openers \cup {"close"}
  <2> DEFINE w1 == Walk(bd)[i]
  <2>1. Open(bd)[i] = open
    BY <1>4, <1>8
  <2>2. w1.depths = w.depths /\ Len(w1.scopes) = n + 1
    <3>1. CASE bd[i].kind = "else"
      <4>1. w1 = [w EXCEPT !.scopes = WithLast(w.scopes, EmptyScope)]
        BY <1>4, <3>1 DEF Walked, Openers
      <4>2. Len(WithLast(w.scopes, EmptyScope)) = n + 1
        BY <1>2, <1>3, NewScopes, WithLastFacts
      <4> QED
        BY <1>2, <4>1, <4>2
    <3>2. CASE bd[i].kind = "declare"
      <4> DEFINE new == With(Last(w.scopes), bd[i].name, i)
      <4>1. w1 = [w EXCEPT !.scopes = WithLast(w.scopes, new)]
        BY <1>4, <3>2 DEF Walked, Openers
      <4>2. Len(WithLast(w.scopes, new)) = n + 1
        <5>1. w.scopes # << >>
          BY <1>2, <1>3
        <5>2. Last(w.scopes) \in Scope
          BY <1>2, <5>1, FrontElements
        <5>3. bd[i].name \in Name
          BY <1>1, <3>2, StmtFacts
        <5>4. new \in Scope
          BY <1>1, <5>2, <5>3, ScopeFacts
        <5> HIDE DEF new
        <5> QED
          BY <1>2, <1>3, <5>4, WithLastFacts
      <4> HIDE DEF new
      <4> QED
        BY <1>2, <4>1, <4>2
    <3>3. CASE bd[i].kind \notin {"else", "declare"}
      BY <1>3, <1>4, <1>8, <3>3 DEF Walked
    <3> QED
      BY <3>1, <3>2, <3>3
  <2>3. \A k : Depth(w1, k) = Depth(w, k)
    BY <2>2 DEF Depth
  <2> HIDE DEF w1
  <2>4. \A k \in 1 .. n : /\ open[k] \in 1 .. i
                          /\ bd[open[k]].kind \in Openers
                          /\ Depth(w1, k) = Depth(w1, k - 1) + Loops(bd, open[k])
    BY <1>3, <1>5, <2>3
  <2> QED
    BY <1>3, <2>1, <2>2, <2>4 DEF Nested, n, w1
<1> QED
  BY <1>6, <1>7, <1>8

(* Every walk is nested.                                                   *)
LEMMA AllNested ==
  ASSUME NEW bd, bd \in Seq(Stmt), WellFormed(bd)
  PROVE  \A i \in 0 .. Len(bd) : Nested(bd, i)
<1> DEFINE P == {i \in Nat : i <= Len(bd) => Nested(bd, i)}
<1>1. Len(bd) \in Nat
  BY LengthFacts
<1>2. 0 \in P
  <2>1. Open(bd)[0] = << >> /\ Walk(bd)[0] = WalkStart
    BY OpenFacts, WalkFacts
  <2>2. Nested(bd, 0)
    BY <2>1 DEF Nested, WalkStart
  <2> QED
    BY <2>2
<1>3. ASSUME NEW i \in Nat, i \in P
      PROVE  i + 1 \in P
  <2> SUFFICES ASSUME i + 1 <= Len(bd)
               PROVE  Nested(bd, i + 1)
    OBVIOUS
  <2>1. i + 1 \in 1 .. Len(bd) /\ (i + 1) - 1 = i /\ Nested(bd, i)
    BY <1>1, <1>3
  <2> QED
    BY <2>1, NestedStep
<1>4. Nat \subseteq P
  <2> HIDE DEF P
  <2> QED
    BY <1>2, <1>3, Induction
<1> QED
  BY <1>1, <1>4

(* The innermost open statement when an else or a close comes: it starts   *)
(* earlier.                                                                *)
LEMMA OpenerFacts ==
  ASSUME NEW bd, bd \in Seq(Stmt), WellFormed(bd), NEW i \in 1 .. Len(bd),
         bd[i].kind \in {"else", "close"}
  PROVE  /\ Len(Open(bd)[i - 1]) \in Nat \ {0}
         /\ OpenerOf(bd, i) = Open(bd)[i - 1][Len(Open(bd)[i - 1])]
         /\ OpenerOf(bd, i) \in 1 .. i - 1
<1> DEFINE open == Open(bd)[i - 1]
<1>1. i - 1 \in 0 .. Len(bd)
  BY LengthFacts
<1>2. open \in Seq(1 .. Len(bd)) /\ open # << >> /\ OpenerOf(bd, i) = Last(open)
  BY <1>1, OpenFacts, WellFormedFacts
<1>3. \A k \in 1 .. Len(open) : open[k] \in 1 .. i - 1
  BY <1>1, AllNested DEF Nested
<1> HIDE DEF open
<1>4. Len(open) \in Nat \ {0} /\ Last(open) = open[Len(open)]
  BY <1>2, LengthFacts DEF Last
<1>5. Len(open) \in 1 .. Len(open)
  BY <1>4
<1> QED
  BY <1>2, <1>3, <1>4, <1>5 DEF open

(* A statement that has been closed is never open again.                   *)
LEMMA ClosedForGood ==
  ASSUME NEW bd, bd \in Seq(Stmt), WellFormed(bd), NEW i \in 1 .. Len(bd),
         bd[i].kind = "close", NEW k \in i .. Len(bd)
  PROVE  \A m \in 1 .. Len(Open(bd)[k]) : Open(bd)[k][m] # OpenerOf(bd, i)
<1> DEFINE j == OpenerOf(bd, i)
<1> DEFINE Without(l) == \A m \in 1 .. Len(Open(bd)[l]) : Open(bd)[l][m] # j
<1> DEFINE P == {d \in Nat : i + d <= Len(bd) => Without(i + d)}
<1>1. Len(bd) \in Nat /\ i \in Nat \ {0} /\ i - 1 \in 0 .. Len(bd)
  BY LengthFacts
<1>2. /\ Len(Open(bd)[i - 1]) \in Nat \ {0}
      /\ j = Open(bd)[i - 1][Len(Open(bd)[i - 1])]
      /\ j \in 1 .. i - 1
  BY OpenerFacts
<1>3. \A l \in 0 .. Len(bd) : Open(bd)[l] \in Seq(1 .. Len(bd))
  BY OpenFacts
<1> HIDE DEF j
<1>4. 0 \in P
  <2> DEFINE open == Open(bd)[i - 1]
  <2> DEFINE n == Len(open)
  <2>1. Open(bd)[i] = Front(open)
    BY OpenFacts DEF Openers
  <2>2. \A m, l \in 1 .. n : m < l => open[m] < open[l]
    BY <1>1, AllNested DEF Nested
  <2>3. open \in Seq(1 .. Len(bd)) /\ open # << >>
    BY <1>1, <1>2, <1>3
  <2>4. Len(Front(open)) = n - 1 /\ \A m \in 1 .. n - 1 : Front(open)[m] = open[m]
    BY <2>3, FrontFacts
  <2> HIDE DEF open
  <2>5. ASSUME NEW m \in 1 .. n - 1
        PROVE  Front(open)[m] # j
    <3>1. m \in 1 .. n /\ n \in 1 .. n /\ m < n
      BY <1>2 DEF open
    <3>2. open[m] < open[n] /\ open[m] \in Nat /\ open[n] \in Nat
      BY <2>2, <2>3, <3>1
    <3>3. j = open[n]
      BY <1>2 DEF open
    <3> QED
      BY <2>4, <3>2, <3>3
  <2>6. Without(i)
    BY <2>1, <2>4, <2>5
  <2>7. i + 0 = i
    BY <1>1
  <2> QED
    BY <2>6, <2>7
<1>5. ASSUME NEW d \in Nat, d \in P
      PROVE  d + 1 \in P
  <2> SUFFICES ASSUME i + (d + 1) <= Len(bd)
               PROVE  Without(i + (d + 1))
    OBVIOUS
  <2> DEFINE l == i + d
  <2> DEFINE open == Open(bd)[l]
  <2>1. l \in 0 .. Len(bd) /\ l + 1 \in 1 .. Len(bd) /\ i + (d + 1) = l + 1 /\ (l + 1) - 1 = l
        /\ j # l + 1 /\ Without(l)
    BY <1>1, <1>2, <1>5
  <2> HIDE DEF l
  <2>2. open \in Seq(1 .. Len(bd)) /\ \A m \in 1 .. Len(open) : open[m] # j
    BY <1>3, <2>1
  <2>3. Open(bd)[l + 1] = IF bd[l + 1].kind \in Openers THEN Append(open, l + 1)
                          ELSE IF bd[l + 1].kind = "close" THEN Front(open) ELSE open
    BY <2>1, OpenFacts
  <2> HIDE DEF open
  <2>4. CASE bd[l + 1].kind \in Openers
    <3>1. Open(bd)[l + 1] = Append(open, l + 1)
      BY <2>3, <2>4
    <3>2. /\ Len(Append(open, l + 1)) = Len(open) + 1 /\ Len(open) \in Nat
          /\ \A m \in 1 .. Len(open) : Append(open, l + 1)[m] = open[m]
          /\ Append(open, l + 1)[Len(open) + 1] = l + 1
      BY <2>1, <2>2, AppendFacts
    <3>3. \A n \in Nat : \A m \in 1 .. n + 1 : m \in 1 .. n \/ m = n + 1
      OBVIOUS
    <3>4. \A m \in 1 .. Len(open) + 1 : Append(open, l + 1)[m] # j
      BY <2>1, <2>2, <3>2, <3>3
    <3> QED
      BY <2>1, <3>1, <3>2, <3>4
  <2>5. CASE bd[l + 1].kind = "close"
    <3>1. open # << >>
      BY <2>1, <2>5, WellFormedFacts DEF open
    <3>2. Open(bd)[l + 1] = Front(open)
      BY <2>3, <2>5 DEF Openers
    <3>3. /\ Len(Front(open)) = Len(open) - 1 /\ Len(open) \in Nat \ {0}
          /\ \A m \in 1 .. Len(open) - 1 : Front(open)[m] = open[m]
      BY <2>2, <3>1, FrontFacts
    <3>4. \A n \in Nat : \A m \in 1 .. n - 1 : m \in 1 .. n
      OBVIOUS
    <3> QED
      BY <2>1, <2>2, <3>2, <3>3, <3>4
  <2>6. CASE bd[l + 1].kind \notin Openers \cup {"close"}
    BY <2>1, <2>2, <2>3, <2>6
  <2> QED
    BY <2>4, <2>5, <2>6
<1>6. Nat \subseteq P
  <2> HIDE DEF P
  <2> QED
    BY <1>4, <1>5, Induction
<1>7. k - i \in Nat /\ i + (k - i) = k
  BY <1>1
<1>8. k - i \in P /\ k <= Len(bd)
  <2> HIDE DEF P
  <2> QED
    BY <1>1, <1>6, <1>7
<1> HIDE DEF Without
<1>9. Without(k)
  BY <1>7, <1>8
<1> QED
  BY <1>9 DEF j, Without

(* When the else of an if has been passed: not before the if, and once.    *)
LEMMA PassedFacts ==
  ASSUME NEW bd, bd \in Seq(Stmt), WellFormed(bd), NEW i \in 1 .. Len(bd)
  PROVE  /\ \A j : Passed(bd, j, i) <=>
                     Passed(bd, j, i - 1) \/ (bd[i].kind = "else" /\ OpenerOf(bd, i) = j)
         /\ ~ Passed(bd, i, i)
         /\ bd[i].kind = "else" => ~ Passed(bd, OpenerOf(bd, i), i - 1)
         /\ bd[i].kind = "close" /\ bd[OpenerOf(bd, i)].hasElse =>
              Passed(bd, OpenerOf(bd, i), i - 1)
<1>1. Len(bd) \in Nat /\ i \in Nat \ {0}
  BY LengthFacts
<1>2. \A k : k \in 1 .. i <=> k \in 1 .. i - 1 \/ k = i
  BY <1>1
<1>3. \A k \in 1 .. i : k \in 1 .. Len(bd) /\ i \notin 1 .. k - 1 /\ k \notin i .. i - 1
  BY <1>1
<1>4. ~ Passed(bd, i, i)
  BY <1>3, OpenerFacts DEF Passed
<1>5. ASSUME bd[i].kind = "else"
      PROVE  ~ Passed(bd, OpenerOf(bd, i), i - 1)
  <2>1. \A k \in 1 .. i - 1 : k \in 1 .. Len(bd) /\ k # i
    BY <1>1
  <2> QED
    BY <1>5, <2>1, WellFormedFacts DEF Passed
<1>6. ASSUME bd[i].kind = "close", bd[OpenerOf(bd, i)].hasElse
      PROVE  Passed(bd, OpenerOf(bd, i), i - 1)
  <2> DEFINE j == OpenerOf(bd, i)
  <2>1. j \in 1 .. Len(bd)
    BY <1>6, WellFormedFacts
  <2>2. PICK k \in 1 .. Len(bd) : bd[k].kind = "else" /\ OpenerOf(bd, k) = j
    BY <1>6, <2>1, WellFormedFacts
  <2>3. CASE k < i
    <3>1. k \in 1 .. i - 1
      BY <1>1, <2>3
    <3> QED
      BY <2>2, <3>1 DEF Passed
  <2>4. CASE k = i
    BY <1>6, <2>2, <2>4
  <2>5. CASE k > i
    <3>1. k - 1 \in i .. Len(bd)
      BY <1>1, <2>5
    <3>2. /\ Len(Open(bd)[k - 1]) \in Nat \ {0}
          /\ j = Open(bd)[k - 1][Len(Open(bd)[k - 1])]
      BY <2>2, OpenerFacts
    <3>3. Len(Open(bd)[k - 1]) \in 1 .. Len(Open(bd)[k - 1])
      BY <3>2
    <3> QED
      BY <1>6, <3>1, <3>2, <3>3, ClosedForGood
  <2> QED
    BY <1>1, <2>3, <2>4, <2>5
<1> QED
  BY <1>2, <1>4, <1>5, <1>6 DEF Passed

(* Some instruction of a code defines v.                                   *)
Makes(code, v) == \E j \in 1 .. Len(code) : code[j].def = v

(* The instructions of a code define numbers below n, use what earlier     *)
(* ones define, and load and store local slots below m.                    *)
CodeFine(code, n, m) ==
  /\ code \in Seq(Instruction)
  /\ \A j \in 1 .. Len(code) :
       /\ code[j].def \in {None} \cup 0 .. n - 1
       /\ code[j].slot \in {None} \cup 0 .. m - 1
       /\ \A v \in code[j].uses : \E k \in 1 .. j - 1 : code[k].def = v

(* No number is defined twice.                                             *)
DefinesOnce(code) ==
  \A j, k \in 1 .. Len(code) : code[j].def = code[k].def /\ code[j].def # None => j = k

(* A code that is to follow when the numbers below first are defined: it   *)
(* defines the next ones, up to n, once each.                              *)
Fresh(code, first, n, m) ==
  /\ first \in Nat /\ n \in Nat /\ m \in Nat /\ first <= n
  /\ CodeFine(code, n, m)
  /\ DefinesOnce(code)
  /\ \A j \in 1 .. Len(code) : code[j].def \in {None} \cup first .. n - 1
  /\ \A v \in first .. n - 1 : Makes(code, v)

(* A terminator of a block with this code in a function of so many blocks. *)
TermFine(term, code, count) ==
  /\ term \in Terminator
  /\ term.kind = "return" => IF returnType = "void" THEN term.value = None
                             ELSE Makes(code, term.value) /\ term.value # None
  /\ term.kind = "cond" => Makes(code, term.value) /\ term.value # None
  /\ term.kind \notin {"return", "cond"} => term.value = None
  /\ Targets(term) \subseteq 0 .. count - 1

(* What is true of the blocks at any time: a block's id is its place, its  *)
(* code and its terminator are fine, and the numbers below n are defined   *)
(* once each.                                                              *)
BlocksFine(bs, n, m) ==
  /\ bs \in Seq(Block)
  /\ n \in Nat /\ m \in Nat
  /\ \A i \in 1 .. Len(bs) :
       /\ bs[i].id = i - 1
       /\ CodeFine(bs[i].code, n, m)
       /\ DefinesOnce(bs[i].code)
       /\ TermFine(bs[i].term, bs[i].code, Len(bs))
  /\ \A i, k \in 1 .. Len(bs) : \A v :
       Makes(bs[i].code, v) /\ Makes(bs[k].code, v) /\ v # None => i = k
  /\ \A v \in 0 .. n - 1 : \E i \in 1 .. Len(bs) : Makes(bs[i].code, v)

(* The blocks that have no terminator yet.                                 *)
Unfinished(bs) == {id \in 0 .. Len(bs) - 1 : bs[id + 1].term.kind = "missing"}

(* The ids of k blocks that are created after n.                           *)
NewIds(n, k) == n .. n + k - 1

-----------------------------------------------------------------------------
(* One code after another.                                                 *)
LEMMA ConcatCode ==
  ASSUME NEW c \in Seq(Instruction), NEW d \in Seq(Instruction)
  PROVE  /\ c \o d \in Seq(Instruction)
         /\ Len(c \o d) = Len(c) + Len(d) /\ Len(c) \in Nat /\ Len(d) \in Nat
         /\ \A j \in 1 .. Len(c) : (c \o d)[j] = c[j]
         /\ \A j \in 1 .. Len(d) : (c \o d)[Len(c) + j] = d[j]
         /\ \A j \in 1 .. Len(c) + Len(d) :
              j \in 1 .. Len(c) \/ (j - Len(c) \in 1 .. Len(d) /\ j = Len(c) + (j - Len(c)))
         /\ \A v : Makes(c \o d, v) <=> Makes(c, v) \/ Makes(d, v)
<1>1. Len(c) \in Nat /\ Len(d) \in Nat
  BY LengthFacts
<1>2. /\ c \o d \in Seq(Instruction)
      /\ Len(c \o d) = Len(c) + Len(d)
      /\ \A j \in 1 .. Len(c) + Len(d) :
           (c \o d)[j] = IF j <= Len(c) THEN c[j] ELSE d[j - Len(c)]
  BY ConcatProperties
<1> DEFINE e == c \o d
<1> HIDE DEF e
<1>3. \A j \in 1 .. Len(c) : j \in 1 .. Len(c) + Len(d) /\ e[j] = c[j]
  BY <1>1, <1>2 DEF e
<1>4. ASSUME NEW j \in 1 .. Len(d)
      PROVE  Len(c) + j \in 1 .. Len(c) + Len(d) /\ e[Len(c) + j] = d[j]
  <2>1. /\ Len(c) + j \in 1 .. Len(c) + Len(d) /\ ~ (Len(c) + j <= Len(c))
        /\ (Len(c) + j) - Len(c) = j
    BY <1>1
  <2> QED
    BY <1>2, <2>1 DEF e
<1>5. \A j \in 1 .. Len(c) + Len(d) :
        j \in 1 .. Len(c) \/ (j - Len(c) \in 1 .. Len(d) /\ j = Len(c) + (j - Len(c)))
  BY <1>1
<1>6. \A v : Makes(e, v) <=> Makes(c, v) \/ Makes(d, v)
  <2> SUFFICES ASSUME NEW v
               PROVE  Makes(e, v) <=> Makes(c, v) \/ Makes(d, v)
    OBVIOUS
  <2>1. ASSUME Makes(e, v)
        PROVE  Makes(c, v) \/ Makes(d, v)
    <3>1. PICK j \in 1 .. Len(c) + Len(d) : e[j].def = v
      BY <1>2, <2>1 DEF Makes, e
    <3> QED
      BY <1>3, <1>4, <1>5, <3>1 DEF Makes
  <2>2. ASSUME Makes(c, v) \/ Makes(d, v)
        PROVE  Makes(e, v)
    <3>1. Len(e) = Len(c) + Len(d)
      BY <1>2 DEF e
    <3> QED
      BY <1>3, <1>4, <2>2, <3>1 DEF Makes
  <2> QED
    BY <2>1, <2>2
<1> QED
  BY <1>1, <1>2, <1>3, <1>4, <1>5, <1>6 DEF e

(* Code with fresh code after it.                                          *)
LEMMA FollowedByFresh ==
  ASSUME NEW c, NEW d, NEW first, NEW n, NEW m,
         CodeFine(c, first, m), DefinesOnce(c), Fresh(d, first, n, m)
  PROVE  /\ CodeFine(c \o d, n, m)
         /\ DefinesOnce(c \o d)
         /\ \A v : Makes(c \o d, v) <=> Makes(c, v) \/ Makes(d, v)
         /\ \A v : Makes(c, v) /\ Makes(d, v) => v = None
<1> DEFINE e == c \o d
<1>1. /\ c \in Seq(Instruction) /\ d \in Seq(Instruction)
      /\ first \in Nat /\ n \in Nat /\ m \in Nat /\ first <= n
      /\ DefinesOnce(d)
  BY DEF CodeFine, Fresh
<1>2. /\ e \in Seq(Instruction)
      /\ Len(e) = Len(c) + Len(d) /\ Len(c) \in Nat /\ Len(d) \in Nat
      /\ \A j \in 1 .. Len(c) : e[j] = c[j]
      /\ \A j \in 1 .. Len(d) : e[Len(c) + j] = d[j]
      /\ \A j \in 1 .. Len(c) + Len(d) :
           j \in 1 .. Len(c) \/ (j - Len(c) \in 1 .. Len(d) /\ j = Len(c) + (j - Len(c)))
      /\ \A v : Makes(e, v) <=> Makes(c, v) \/ Makes(d, v)
  BY <1>1, ConcatCode
<1> HIDE DEF e
<1>3. 0 .. first - 1 \subseteq 0 .. n - 1
  BY <1>1
<1>4. ASSUME NEW j \in 1 .. Len(e)
      PROVE  /\ e[j].def \in {None} \cup 0 .. n - 1
             /\ e[j].slot \in {None} \cup 0 .. m - 1
             /\ \A v \in e[j].uses : \E k \in 1 .. j - 1 : e[k].def = v
  <2>1. CASE j \in 1 .. Len(c)
    <3>1. e[j] = c[j] /\ \A k \in 1 .. j - 1 : e[k] = c[k]
      <4>1. 1 .. j - 1 \subseteq 1 .. Len(c)
        BY <2>1
      <4> QED
        BY <1>2, <2>1, <4>1
    <3>2. /\ c[j].def \in {None} \cup 0 .. first - 1
          /\ c[j].slot \in {None} \cup 0 .. m - 1
          /\ \A v \in c[j].uses : \E k \in 1 .. j - 1 : c[k].def = v
      BY <2>1 DEF CodeFine
    <3>3. \A v \in e[j].uses : \E k \in 1 .. j - 1 : e[k].def = v
      BY <3>1, <3>2
    <3> QED
      BY <1>3, <3>1, <3>2, <3>3
  <2>2. CASE j - Len(c) \in 1 .. Len(d) /\ j = Len(c) + (j - Len(c))
    <3> DEFINE l == j - Len(c)
    <3>1. l \in 1 .. Len(d) /\ j = Len(c) + l /\ e[j] = d[l]
      BY <1>2, <2>2
    <3> HIDE DEF l
    <3>2. ASSUME NEW k \in 1 .. l - 1
          PROVE  Len(c) + k \in 1 .. j - 1 /\ e[Len(c) + k] = d[k]
      <4>1. k \in 1 .. Len(d) /\ Len(c) + k \in 1 .. j - 1
        BY <1>2, <3>1
      <4> QED
        BY <1>2, <4>1
    <3>3. /\ d[l].def \in {None} \cup 0 .. n - 1
          /\ d[l].slot \in {None} \cup 0 .. m - 1
          /\ \A v \in d[l].uses : \E k \in 1 .. l - 1 : d[k].def = v
      BY <3>1 DEF Fresh, CodeFine
    <3>4. \A v \in e[j].uses : \E k \in 1 .. j - 1 : e[k].def = v
      BY <3>1, <3>2, <3>3
    <3> QED
      BY <3>1, <3>3, <3>4
  <2> QED
    BY <1>2, <2>1, <2>2
<1>5. ASSUME NEW v, Makes(c, v), Makes(d, v)
      PROVE  v = None
  <2>1. v \in {None} \cup 0 .. first - 1
    BY <1>5 DEF CodeFine, Makes
  <2>2. v \in {None} \cup first .. n - 1
    BY <1>5 DEF Fresh, Makes
  <2> QED
    BY <1>1, <2>1, <2>2 DEF None
<1>6. ASSUME NEW j \in 1 .. Len(e), NEW k \in 1 .. Len(e), e[j].def = e[k].def, e[j].def # None
      PROVE  j = k
  <2>1. \A i \in 1 .. Len(c) : Makes(c, e[i].def) /\ e[i] = c[i]
    BY <1>2 DEF Makes
  <2>2. \A i \in 1 .. Len(d) : Makes(d, e[Len(c) + i].def) /\ e[Len(c) + i] = d[i]
    BY <1>2 DEF Makes
  <2>3. CASE j \in 1 .. Len(c) /\ k \in 1 .. Len(c)
    BY <1>6, <2>1, <2>3 DEF DefinesOnce
  <2>4. CASE j \notin 1 .. Len(c) /\ k \notin 1 .. Len(c)
    <3>1. /\ j - Len(c) \in 1 .. Len(d) /\ j = Len(c) + (j - Len(c))
          /\ k - Len(c) \in 1 .. Len(d) /\ k = Len(c) + (k - Len(c))
      BY <1>2, <2>4
    <3>2. j - Len(c) = k - Len(c)
      BY <1>1, <1>6, <2>2, <3>1 DEF DefinesOnce
    <3> QED
      BY <3>1, <3>2
  <2>5. CASE j \in 1 .. Len(c) /\ k \notin 1 .. Len(c)
    <3>1. k - Len(c) \in 1 .. Len(d) /\ k = Len(c) + (k - Len(c))
      BY <1>2, <2>5
    <3>2. Makes(c, e[j].def) /\ Makes(d, e[k].def)
      BY <2>1, <2>2, <2>5, <3>1
    <3> QED
      BY <1>5, <1>6, <3>2
  <2>6. CASE j \notin 1 .. Len(c) /\ k \in 1 .. Len(c)
    <3>1. j - Len(c) \in 1 .. Len(d) /\ j = Len(c) + (j - Len(c))
      BY <1>2, <2>6
    <3>2. Makes(d, e[j].def) /\ Makes(c, e[k].def)
      BY <2>1, <2>2, <2>6, <3>1
    <3> QED
      BY <1>5, <1>6, <3>2
  <2> QED
    BY <2>3, <2>4, <2>5, <2>6
<1>7. CodeFine(e, n, m)
  BY <1>2, <1>4 DEF CodeFine
<1>8. DefinesOnce(e)
  BY <1>6 DEF DefinesOnce
<1> QED
  BY <1>2, <1>5, <1>7, <1>8 DEF e

(* Fine code stays fine when numbers are defined and locals declared.      *)
LEMMA CodeStaysFine ==
  ASSUME NEW c, NEW n \in Nat, NEW m \in Nat, NEW n1 \in Nat, NEW m1 \in Nat, n <= n1, m <= m1,
         CodeFine(c, n, m)
  PROVE  CodeFine(c, n1, m1)
<1>1. 0 .. n - 1 \subseteq 0 .. n1 - 1 /\ 0 .. m - 1 \subseteq 0 .. m1 - 1
  OBVIOUS
<1> QED
  BY <1>1 DEF CodeFine

(* A terminator stays fine when its block gets more code, and when there   *)
(* are more blocks.                                                        *)
LEMMA TermStaysFine ==
  ASSUME NEW term, NEW c, NEW c1, NEW count \in Nat, NEW count1 \in Nat, count <= count1,
         TermFine(term, c, count), \A v : Makes(c, v) => Makes(c1, v)
  PROVE  TermFine(term, c1, count1)
<1>1. 0 .. count - 1 \subseteq 0 .. count1 - 1
  OBVIOUS
<1>2. Targets(term) \subseteq 0 .. count1 - 1
  BY <1>1 DEF TermFine
<1> QED
  BY <1>2 DEF TermFine

(* A block with more code.                                                 *)
LEMMA ExtendedFacts ==
  ASSUME NEW bs \in Seq(Block), NEW id \in 0 .. Len(bs) - 1, NEW code \in Seq(Instruction)
  PROVE  /\ Extended(bs, id, code) \in Seq(Block)
         /\ Len(Extended(bs, id, code)) = Len(bs)
         /\ \A i \in 1 .. Len(bs) :
              /\ Extended(bs, id, code)[i].id = bs[i].id
              /\ Extended(bs, id, code)[i].term = bs[i].term
              /\ Extended(bs, id, code)[i].code = IF i = id + 1 THEN bs[i].code \o code
                                                  ELSE bs[i].code
<1>1. Len(bs) \in Nat /\ DOMAIN bs = 1 .. Len(bs) /\ \A i \in 1 .. Len(bs) : bs[i] \in Block
  BY LengthFacts
<1> DEFINE b == [bs[id + 1] EXCEPT !.code = @ \o code]
<1>2. id + 1 \in 1 .. Len(bs)
  BY <1>1
<1>3. bs[id + 1].code \o code \in Seq(Instruction)
  <2>1. bs[id + 1].code \in Seq(Instruction)
    BY <1>1, <1>2 DEF Block
  <2> QED
    BY <2>1, ConcatProperties
<1>4. b \in Block /\ b.id = bs[id + 1].id /\ b.term = bs[id + 1].term
      /\ b.code = bs[id + 1].code \o code
  BY <1>1, <1>2, <1>3 DEF Block
<1>5. Extended(bs, id, code) = [bs EXCEPT ![id + 1] = b]
  BY <1>1, <1>2 DEF Extended
<1> HIDE DEF b
<1> DEFINE t == [bs EXCEPT ![id + 1] = b]
<1>6. /\ t \in Seq(Block) /\ Len(t) = Len(bs)
      /\ \A i \in 1 .. Len(bs) : t[i] = IF i = id + 1 THEN b ELSE bs[i]
  BY <1>1, <1>2, <1>4
<1> HIDE DEF t
<1> QED
  BY <1>4, <1>5, <1>6 DEF t

(* A block with a terminator.                                              *)
LEMMA EndedFacts ==
  ASSUME NEW bs \in Seq(Block), NEW id \in 0 .. Len(bs) - 1, NEW term \in Terminator
  PROVE  /\ Ended(bs, id, term) \in Seq(Block)
         /\ Len(Ended(bs, id, term)) = Len(bs)
         /\ \A i \in 1 .. Len(bs) :
              /\ Ended(bs, id, term)[i].id = bs[i].id
              /\ Ended(bs, id, term)[i].code = bs[i].code
              /\ Ended(bs, id, term)[i].term = IF i = id + 1 THEN term ELSE bs[i].term
<1>1. Len(bs) \in Nat /\ DOMAIN bs = 1 .. Len(bs) /\ \A i \in 1 .. Len(bs) : bs[i] \in Block
  BY LengthFacts
<1> DEFINE b == [bs[id + 1] EXCEPT !.term = term]
<1>2. id + 1 \in 1 .. Len(bs)
  BY <1>1
<1>3. b \in Block /\ b.id = bs[id + 1].id /\ b.term = term /\ b.code = bs[id + 1].code
  BY <1>1, <1>2 DEF Block
<1>4. Ended(bs, id, term) = [bs EXCEPT ![id + 1] = b]
  BY <1>1, <1>2 DEF Ended
<1> HIDE DEF b
<1> DEFINE t == [bs EXCEPT ![id + 1] = b]
<1>5. /\ t \in Seq(Block) /\ Len(t) = Len(bs)
      /\ \A i \in 1 .. Len(bs) : t[i] = IF i = id + 1 THEN b ELSE bs[i]
  BY <1>1, <1>2, <1>3
<1> HIDE DEF t
<1> QED
  BY <1>3, <1>4, <1>5 DEF t

(* New blocks after those there are.                                       *)
LEMMA GrownFacts ==
  ASSUME NEW bs \in Seq(Block), NEW k \in Nat
  PROVE  /\ bs \o NewBlocks(Len(bs), k) \in Seq(Block)
         /\ Len(bs \o NewBlocks(Len(bs), k)) = Len(bs) + k
         /\ \A i \in 1 .. Len(bs) + k :
              (bs \o NewBlocks(Len(bs), k))[i] =
                IF i <= Len(bs) THEN bs[i]
                ELSE [id |-> i - 1, code |-> << >>, term |-> NoTerminator]
<1> DEFINE n == Len(bs)
<1> DEFINE new == NewBlocks(n, k)
<1> DEFINE t == bs \o new
<1>1. n \in Nat
  BY LengthFacts
<1>2. /\ \A i \in 1 .. k : new[i] = [id |-> n + i - 1, code |-> << >>, term |-> NoTerminator]
      /\ new \in [1 .. k -> Block]
      /\ DOMAIN new = 1 .. k
  <2>1. NoTerminator \in Terminator
    BY DEF NoTerminator, Terminator, None
  <2>2. << >> \in Seq(Instruction)
    BY EmptySeq
  <2>3. \A i \in 1 .. k : [id |-> n + i - 1, code |-> << >>, term |-> NoTerminator] \in Block
    BY <1>1, <2>1, <2>2 DEF Block
  <2> QED
    BY <2>3 DEF NewBlocks
<1>3. new \in Seq(Block) /\ Len(new) = k
  <2> HIDE DEF new
  <2>1. new \in Seq(Block)
    BY <1>2, SeqDef
  <2>2. DOMAIN new = 1 .. Len(new) /\ Len(new) \in Nat
    BY <2>1, LenProperties
  <2> QED
    BY <1>2, <2>1, <2>2
<1> HIDE DEF new
<1>4. /\ t \in Seq(Block)
      /\ Len(t) = n + k
      /\ \A i \in 1 .. n + k : t[i] = IF i <= n THEN bs[i] ELSE new[i - n]
  BY <1>3, ConcatProperties
<1>5. \A i \in 1 .. n + k : ~ (i <= n) => i - n \in 1 .. k /\ n + (i - n) - 1 = i - 1
  BY <1>1
<1> HIDE DEF t
<1>6. ASSUME NEW i \in 1 .. n + k
      PROVE  t[i] = IF i <= n THEN bs[i]
                    ELSE [id |-> i - 1, code |-> << >>, term |-> NoTerminator]
  BY <1>2, <1>4, <1>5
<1> HIDE DEF n
<1> QED
  BY <1>4, <1>6 DEF t, new, n

-----------------------------------------------------------------------------
(* Fine blocks stay fine when one gets fresh code.                         *)
LEMMA ExtendKeeps ==
  ASSUME NEW bs, NEW first, NEW n, NEW m, NEW code, NEW id \in 0 .. Len(bs) - 1,
         BlocksFine(bs, first, m), Fresh(code, first, n, m)
  PROVE  /\ BlocksFine(Extended(bs, id, code), n, m)
         /\ Len(Extended(bs, id, code)) = Len(bs)
         /\ Unfinished(Extended(bs, id, code)) = Unfinished(bs)
         /\ \A v : Makes(code, v) => Makes(Extended(bs, id, code)[id + 1].code, v)
<1> DEFINE t == Extended(bs, id, code)
<1>1. /\ bs \in Seq(Block) /\ code \in Seq(Instruction) /\ Len(bs) \in Nat
      /\ first \in Nat /\ n \in Nat /\ m \in Nat /\ first <= n
  BY LengthFacts DEF BlocksFine, Fresh, CodeFine
<1>2. /\ t \in Seq(Block)
      /\ Len(t) = Len(bs)
      /\ \A i \in 1 .. Len(bs) :
           /\ t[i].id = bs[i].id
           /\ t[i].term = bs[i].term
           /\ t[i].code = IF i = id + 1 THEN bs[i].code \o code ELSE bs[i].code
  BY <1>1, ExtendedFacts
<1> HIDE DEF t
<1>3. id + 1 \in 1 .. Len(bs)
  BY <1>1
<1>4. /\ CodeFine(t[id + 1].code, n, m)
      /\ DefinesOnce(t[id + 1].code)
      /\ \A v : Makes(t[id + 1].code, v) <=> Makes(bs[id + 1].code, v) \/ Makes(code, v)
  <2> DEFINE c == bs[id + 1].code
  <2>1. CodeFine(c, first, m) /\ DefinesOnce(c)
    BY <1>3 DEF BlocksFine
  <2>2. t[id + 1].code = c \o code
    BY <1>2, <1>3
  <2> HIDE DEF c
  <2>3. /\ CodeFine(c \o code, n, m)
        /\ DefinesOnce(c \o code)
        /\ \A v : Makes(c \o code, v) <=> Makes(c, v) \/ Makes(code, v)
    BY <2>1, FollowedByFresh
  <2> QED
    BY <2>2, <2>3 DEF c
<1>5. \A i \in 1 .. Len(bs) : \A v : Makes(bs[i].code, v) => Makes(t[i].code, v)
  BY <1>2, <1>4
<1>6. ASSUME NEW i \in 1 .. Len(bs)
      PROVE  /\ t[i].id = i - 1
             /\ CodeFine(t[i].code, n, m)
             /\ DefinesOnce(t[i].code)
             /\ TermFine(t[i].term, t[i].code, Len(bs))
  <2>1. /\ bs[i].id = i - 1 /\ CodeFine(bs[i].code, first, m) /\ DefinesOnce(bs[i].code)
        /\ TermFine(bs[i].term, bs[i].code, Len(bs))
    BY DEF BlocksFine
  <2>2. TermFine(t[i].term, t[i].code, Len(bs))
    <3>1. \A v : Makes(bs[i].code, v) => Makes(t[i].code, v)
      BY <1>5
    <3>2. TermFine(bs[i].term, t[i].code, Len(bs))
      BY <1>1, <2>1, <3>1, TermStaysFine
    <3> QED
      BY <1>2, <3>2
  <2>3. CASE i = id + 1
    BY <1>2, <1>4, <2>1, <2>2, <2>3
  <2>4. CASE i # id + 1
    <3>1. CodeFine(bs[i].code, n, m)
      BY <1>1, <2>1, CodeStaysFine
    <3> QED
      BY <1>2, <2>1, <2>2, <2>4, <3>1
  <2> QED
    BY <2>3, <2>4
<1>7. ASSUME NEW i \in 1 .. Len(bs), NEW k \in 1 .. Len(bs), NEW v,
             Makes(t[i].code, v), Makes(t[k].code, v), v # None
      PROVE  i = k
  <2>1. \A j \in 1 .. Len(bs) : Makes(bs[j].code, v) => v \in 0 .. first - 1
    BY <1>7 DEF BlocksFine, CodeFine, Makes
  <2>2. Makes(code, v) => v \in first .. n - 1
    BY <1>7 DEF Fresh, Makes
  <2>3. Makes(code, v) => \A j \in 1 .. Len(bs) : ~ Makes(bs[j].code, v)
    BY <1>1, <2>1, <2>2
  <2>4. \A j \in 1 .. Len(bs) :
          Makes(t[j].code, v) <=> Makes(bs[j].code, v) \/ (j = id + 1 /\ Makes(code, v))
    BY <1>2, <1>4
  <2>5. CASE Makes(code, v)
    BY <1>7, <2>3, <2>4, <2>5
  <2>6. CASE ~ Makes(code, v)
    BY <1>7, <2>4, <2>6 DEF BlocksFine
  <2> QED
    BY <2>5, <2>6
<1>8. ASSUME NEW v \in 0 .. n - 1
      PROVE  \E i \in 1 .. Len(bs) : Makes(t[i].code, v)
  <2>1. CASE v \in 0 .. first - 1
    BY <1>5, <2>1 DEF BlocksFine
  <2>2. CASE v \notin 0 .. first - 1
    <3>1. v \in first .. n - 1
      BY <1>1, <2>2
    <3> QED
      BY <1>3, <1>4, <3>1 DEF Fresh
  <2> QED
    BY <2>1, <2>2
<1>9. BlocksFine(t, n, m)
  BY <1>1, <1>2, <1>6, <1>7, <1>8 DEF BlocksFine
<1>10. Unfinished(t) = Unfinished(bs)
  <2>1. \A i \in 0 .. Len(bs) - 1 : i + 1 \in 1 .. Len(bs)
    BY <1>1
  <2> QED
    BY <1>2, <2>1 DEF Unfinished
<1> QED
  BY <1>2, <1>4, <1>9, <1>10 DEF t

(* They stay fine when one gets a terminator that suits it.                *)
LEMMA EndKeeps ==
  ASSUME NEW bs, NEW n, NEW m, NEW id \in 0 .. Len(bs) - 1, NEW term,
         BlocksFine(bs, n, m), TermFine(term, bs[id + 1].code, Len(bs)),
         term.kind # "missing"
  PROVE  /\ BlocksFine(Ended(bs, id, term), n, m)
         /\ Len(Ended(bs, id, term)) = Len(bs)
         /\ Unfinished(Ended(bs, id, term)) = Unfinished(bs) \ {id}
<1> DEFINE t == Ended(bs, id, term)
<1>1. bs \in Seq(Block) /\ term \in Terminator /\ Len(bs) \in Nat
  BY LengthFacts DEF BlocksFine, TermFine
<1>2. /\ t \in Seq(Block)
      /\ Len(t) = Len(bs)
      /\ \A i \in 1 .. Len(bs) :
           /\ t[i].id = bs[i].id
           /\ t[i].code = bs[i].code
           /\ t[i].term = IF i = id + 1 THEN term ELSE bs[i].term
  BY <1>1, EndedFacts
<1> HIDE DEF t
<1>3. BlocksFine(t, n, m)
  BY <1>2 DEF BlocksFine
<1>4. Unfinished(t) = Unfinished(bs) \ {id}
  <2>1. \A i \in 0 .. Len(bs) - 1 : i + 1 \in 1 .. Len(bs) /\ (i + 1 = id + 1 <=> i = id)
    BY <1>1
  <2> QED
    BY <1>2, <2>1 DEF Unfinished
<1> QED
  BY <1>2, <1>3, <1>4 DEF t

(* They stay fine when blocks are created.                                 *)
LEMMA GrowKeeps ==
  ASSUME NEW bs, NEW n, NEW m, NEW k \in Nat, BlocksFine(bs, n, m)
  PROVE  /\ BlocksFine(bs \o NewBlocks(Len(bs), k), n, m)
         /\ Len(bs \o NewBlocks(Len(bs), k)) = Len(bs) + k
         /\ Unfinished(bs \o NewBlocks(Len(bs), k)) = Unfinished(bs) \cup NewIds(Len(bs), k)
         /\ \A i \in 1 .. Len(bs) : (bs \o NewBlocks(Len(bs), k))[i] = bs[i]
<1> DEFINE c == Len(bs)
<1> DEFINE t == bs \o NewBlocks(c, k)
<1> DEFINE empty(i) == [id |-> i - 1, code |-> << >>, term |-> NoTerminator]
<1>1. bs \in Seq(Block) /\ c \in Nat
  BY LengthFacts DEF BlocksFine
<1>2. /\ t \in Seq(Block)
      /\ Len(t) = c + k
      /\ \A i \in 1 .. c + k : t[i] = IF i <= c THEN bs[i] ELSE empty(i)
  BY <1>1, GrownFacts
<1> HIDE DEF t
<1>3. (\A v : ~ Makes(<< >>, v)) /\ DefinesOnce(<< >>) /\ CodeFine(<< >>, n, m)
  BY EmptySeq DEF Makes, DefinesOnce, CodeFine
<1>4. TermFine(NoTerminator, << >>, c + k)
  BY <1>1 DEF TermFine, NoTerminator, Terminator, Targets, None
<1>5. \A i \in 1 .. c + k : i \in 1 .. c \/ ~ (i <= c)
  BY <1>1
<1>6. \A i \in 1 .. c : i \in 1 .. c + k /\ i <= c /\ t[i] = bs[i]
  BY <1>1, <1>2
<1>7. ASSUME NEW i \in 1 .. c + k, ~ (i <= c)
      PROVE  /\ t[i].id = i - 1 /\ t[i].code = << >> /\ t[i].term = NoTerminator
  BY <1>2, <1>7
<1>8. ASSUME NEW i \in 1 .. c + k
      PROVE  /\ t[i].id = i - 1
             /\ CodeFine(t[i].code, n, m)
             /\ DefinesOnce(t[i].code)
             /\ TermFine(t[i].term, t[i].code, c + k)
  <2>1. CASE i \in 1 .. c
    <3>1. TermFine(bs[i].term, bs[i].code, c + k)
      <4>1. TermFine(bs[i].term, bs[i].code, c)
        BY <2>1 DEF BlocksFine
      <4>2. c + k \in Nat /\ c <= c + k
        BY <1>1
      <4> QED
        BY <1>1, <4>1, <4>2, TermStaysFine
    <3> QED
      BY <1>6, <2>1, <3>1 DEF BlocksFine
  <2>2. CASE ~ (i <= c)
    BY <1>3, <1>4, <1>7, <2>2
  <2> QED
    BY <1>5, <2>1, <2>2
<1>9. ASSUME NEW i \in 1 .. c + k, NEW l \in 1 .. c + k, NEW v,
             Makes(t[i].code, v), Makes(t[l].code, v), v # None
      PROVE  i = l
  <2>1. i \in 1 .. c /\ l \in 1 .. c
    BY <1>3, <1>5, <1>7, <1>9
  <2> QED
    BY <1>6, <1>9, <2>1 DEF BlocksFine
<1>10. ASSUME NEW v \in 0 .. n - 1
       PROVE  \E i \in 1 .. c + k : Makes(t[i].code, v)
  BY <1>6 DEF BlocksFine
<1>11. BlocksFine(t, n, m)
  <2> HIDE DEF c
  <2>1. n \in Nat /\ m \in Nat
    BY DEF BlocksFine
  <2> QED
    BY <1>2, <1>8, <1>9, <1>10, <2>1 DEF BlocksFine
<1>12. Unfinished(t) = Unfinished(bs) \cup c .. c + k - 1
  <2>1. \A i \in 0 .. c + k - 1 : /\ i + 1 \in 1 .. c + k
                                  /\ i \in 0 .. c - 1 <=> i + 1 <= c
                                  /\ i \in c .. c + k - 1 <=> ~ (i + 1 <= c)
    BY <1>1
  <2>2. 0 .. c - 1 \subseteq 0 .. c + k - 1 /\ c .. c + k - 1 \subseteq 0 .. c + k - 1
    BY <1>1
  <2>3. \A i \in 0 .. c + k - 1 :
          t[i + 1].term.kind = "missing" <=> IF i + 1 <= c THEN bs[i + 1].term.kind = "missing" ELSE TRUE
    BY <1>2, <2>1 DEF NoTerminator
  <2> HIDE DEF c
  <2> QED
    BY <1>2, <2>1, <2>2, <2>3 DEF Unfinished, c
<1> QED
  BY <1>2, <1>6, <1>11, <1>12 DEF t, NewIds

(* The largest of some places is one of them.                              *)
LEMMA LargestIsOne ==
  ASSUME NEW n \in Nat, NEW S \in SUBSET (1 .. n), S # {}
  PROVE  Max(S) \in S
<1> DEFINE I == {n - d : d \in S}
<1>1. \E x \in I : \A y \in I : x <= y
  <2>1. \A d \in S : d \in 1 .. n /\ n - d \in Nat
    OBVIOUS
  <2>2. I \subseteq Nat /\ I # {}
    BY <2>1
  <2> HIDE DEF I
  <2> QED
    BY <2>2, Smallest
<1>2. PICK d \in S : \A c \in S : n - d <= n - c
  BY <1>1
<1>3. \A c \in S : d >= c
  <2>1. \A c \in S : c \in Int
    OBVIOUS
  <2> QED
    BY <1>2, <2>1
<1> QED
  BY <1>3 DEF Max

(* Scopes whose names mean slots below m.                                  *)
SlotsBelow(scopes, m) ==
  \A d \in 1 .. Len(scopes) : \A x \in DOMAIN scopes[d] : scopes[d][x] \in 0 .. m - 1

(* What a name means is what some scope says, and nothing just when no     *)
(* scope has the name.                                                     *)
LEMMA LookupFacts ==
  ASSUME NEW scopes \in Seq(Scope), NEW x
  PROVE  /\ LookupLocal(scopes, x) = None <=> \A d \in 1 .. Len(scopes) : x \notin DOMAIN scopes[d]
         /\ LookupLocal(scopes, x) # None =>
              \E d \in 1 .. Len(scopes) : x \in DOMAIN scopes[d] /\ LookupLocal(scopes, x) = scopes[d][x]
<1> DEFINE n == Len(scopes)
<1> DEFINE holders == {d \in DOMAIN scopes : x \in DOMAIN scopes[d]}
<1>1. n \in Nat /\ DOMAIN scopes = 1 .. n /\ \A d \in 1 .. n : scopes[d] \in Scope
  BY LengthFacts
<1>2. CASE holders = {}
  <2>1. LookupLocal(scopes, x) = None
    BY <1>2 DEF LookupLocal
  <2> QED
    BY <1>1, <1>2, <2>1
<1>3. CASE holders # {}
  <2> DEFINE d == Max(holders)
  <2>1. d \in holders
    <3>1. holders \in SUBSET (1 .. n)
      BY <1>1
    <3> HIDE DEF holders, n
    <3> QED
      BY <1>1, <1>3, <3>1, LargestIsOne
  <2>2. LookupLocal(scopes, x) = scopes[d][x]
    BY <1>3 DEF LookupLocal
  <2> HIDE DEF d
  <2>3. d \in 1 .. n /\ x \in DOMAIN scopes[d]
    BY <1>1, <2>1
  <2>4. scopes[d][x] \in Nat
    BY <1>1, <2>3 DEF Scope
  <2>5. LookupLocal(scopes, x) # None
    BY <2>2, <2>4 DEF None
  <2> QED
    BY <2>2, <2>3, <2>5
<1> QED
  BY <1>2, <1>3

(* Two stacks of scopes that hold the same names, each in the same place,  *)
(* agree on the scope that says what a name means.                         *)
LEMMA SameLookup ==
  ASSUME NEW s \in Seq(Scope), NEW t \in Seq(Scope), Len(s) = Len(t),
         \A d \in 1 .. Len(s) : DOMAIN s[d] = DOMAIN t[d], NEW x,
         LookupLocal(t, x) # None
  PROVE  \E d \in 1 .. Len(s) :
           /\ x \in DOMAIN s[d]
           /\ LookupLocal(s, x) = s[d][x]
           /\ LookupLocal(t, x) = t[d][x]
<1> DEFINE n == Len(s)
<1> DEFINE holders == {d \in 1 .. n : x \in DOMAIN s[d]}
<1>1. n \in Nat /\ DOMAIN s = 1 .. n /\ DOMAIN t = 1 .. n
  BY LengthFacts
<1>2. /\ {d \in DOMAIN s : x \in DOMAIN s[d]} = holders
      /\ {d \in DOMAIN t : x \in DOMAIN t[d]} = holders
  BY <1>1
<1>3. /\ LookupLocal(s, x) = IF holders = {} THEN None ELSE s[Max(holders)][x]
      /\ LookupLocal(t, x) = IF holders = {} THEN None ELSE t[Max(holders)][x]
  BY <1>2 DEF LookupLocal
<1>4. holders # {}
  BY <1>3
<1>5. Max(holders) \in holders
  <2>1. holders \in SUBSET (1 .. n)
    OBVIOUS
  <2> HIDE DEF holders, n
  <2> QED
    BY <1>1, <1>4, <2>1, LargestIsOne
<1> QED
  BY <1>3, <1>4, <1>5

-----------------------------------------------------------------------------
(* Fresh code with an instruction after it that defines nothing.           *)
LEMMA UseFollows ==
  ASSUME NEW code, NEW first, NEW n, NEW m, NEW ins \in Instruction,
         Fresh(code, first, n, m), ins.def = None, ins.slot \in {None} \cup 0 .. m - 1,
         \A v \in ins.uses : Makes(code, v)
  PROVE  Fresh(Append(code, ins), first, n, m)
<1> DEFINE t == Append(code, ins)
<1> DEFINE k == Len(code)
<1>1. code \in Seq(Instruction) /\ k \in Nat /\ first \in Nat /\ n \in Nat /\ m \in Nat
      /\ first <= n
  BY LengthFacts DEF Fresh, CodeFine
<1>2. /\ t \in Seq(Instruction) /\ Len(t) = k + 1
      /\ \A j \in 1 .. k : t[j] = code[j]
      /\ t[k + 1] = ins
  BY <1>1, AppendFacts
<1> HIDE DEF t
<1>3. \A j \in 1 .. k + 1 : j \in 1 .. k \/ (j = k + 1 /\ j - 1 = k)
  BY <1>1
<1>4. 1 .. k \subseteq 1 .. k + 1
  BY <1>1
<1>5. ASSUME NEW j \in 1 .. k + 1
      PROVE  /\ t[j].def \in {None} \cup first .. n - 1
             /\ t[j].def \in {None} \cup 0 .. n - 1
             /\ t[j].slot \in {None} \cup 0 .. m - 1
             /\ \A v \in t[j].uses : \E l \in 1 .. j - 1 : t[l].def = v
  <2>1. CASE j \in 1 .. k
    <3>1. /\ code[j].def \in {None} \cup first .. n - 1
          /\ code[j].def \in {None} \cup 0 .. n - 1
          /\ code[j].slot \in {None} \cup 0 .. m - 1
          /\ \A v \in code[j].uses : \E l \in 1 .. j - 1 : code[l].def = v
      BY <2>1 DEF Fresh, CodeFine
    <3>2. \A l \in 1 .. j - 1 : t[l] = code[l]
      BY <1>2, <2>1
    <3> QED
      BY <1>2, <2>1, <3>1, <3>2
  <2>2. CASE j = k + 1 /\ j - 1 = k
    <3>1. \A v \in ins.uses : \E l \in 1 .. k : t[l].def = v
      BY <1>2 DEF Makes
    <3> QED
      BY <1>2, <2>2, <3>1
  <2> QED
    BY <1>3, <2>1, <2>2
<1>6. CodeFine(t, n, m)
  BY <1>2, <1>5 DEF CodeFine
<1>7. DefinesOnce(t)
  <2> SUFFICES ASSUME NEW i \in 1 .. k + 1, NEW j \in 1 .. k + 1, t[i].def = t[j].def,
                      t[i].def # None
               PROVE  i = j
    BY <1>2 DEF DefinesOnce
  <2>1. i \in 1 .. k /\ j \in 1 .. k
    BY <1>2, <1>3
  <2> QED
    BY <1>2, <2>1 DEF Fresh, DefinesOnce
<1>8. \A v \in first .. n - 1 : Makes(t, v)
  BY <1>2, <1>4 DEF Fresh, Makes
<1> QED
  BY <1>1, <1>2, <1>5, <1>6, <1>7, <1>8 DEF Fresh, t

(* The code of an expression whose name is known.                          *)
LEMMA ExprFresh ==
  ASSUME NEW e \in Expr, NEW n \in Nat, NEW m \in Nat, NEW scopes \in Seq(Scope),
         SlotsBelow(scopes, m), Known(e, scopes)
  PROVE  /\ Fresh(ExprCode(e, n, scopes), n, ValueOf(e, n) + 1, m)
         /\ Makes(ExprCode(e, n, scopes), ValueOf(e, n))
         /\ ValueOf(e, n) \in Nat
<1> DEFINE slot == LookupLocal(scopes, e[2])
<1>1. e[1] \in {"literal", "name", "not"} /\ (e[1] = "literal" => e[2] \in {"true", "false"})
  BY DEF Expr
<1>2. e[1] # "literal" => slot \in 0 .. m - 1
  BY <1>1, LookupFacts DEF Known, UsesName, SlotsBelow
<1> HIDE DEF slot
<1>3. CASE e[1] = "literal"
  <2> DEFINE i1 == Constant(n, e[2])
  <2>1. ExprCode(e, n, scopes) = <<i1>> /\ ValueOf(e, n) = n
    BY <1>3 DEF ExprCode, ValueOf
  <2>2. i1 \in Instruction /\ i1.def = n /\ i1.slot = None /\ i1.uses = {}
    BY <1>1, <1>3 DEF Constant, Instruction, None
  <2> HIDE DEF i1
  <2>3. \A j \in 1 .. Len(<<i1>>) : j = 1 /\ <<i1>>[j] = i1
    OBVIOUS
  <2>4. <<i1>> \in Seq(Instruction) /\ Len(<<i1>>) = 1 /\ n \in n .. (n + 1) - 1
        /\ n \in 0 .. (n + 1) - 1 /\ n .. (n + 1) - 1 = {n}
    BY <2>2
  <2>5. Makes(<<i1>>, n) /\ CodeFine(<<i1>>, n + 1, m) /\ DefinesOnce(<<i1>>)
    BY <2>2, <2>3, <2>4 DEF Makes, CodeFine, DefinesOnce
  <2> QED
    BY <2>1, <2>2, <2>3, <2>4, <2>5 DEF Fresh
<1>4. CASE e[1] = "name"
  <2> DEFINE i1 == Load(n, slot)
  <2>1. ExprCode(e, n, scopes) = <<i1>> /\ ValueOf(e, n) = n
    BY <1>4 DEF ExprCode, ValueOf, slot
  <2>2. i1 \in Instruction /\ i1.def = n /\ i1.slot = slot /\ i1.uses = {}
    BY <1>2, <1>4 DEF Load, Instruction
  <2> HIDE DEF i1
  <2>3. \A j \in 1 .. Len(<<i1>>) : j = 1 /\ <<i1>>[j] = i1
    OBVIOUS
  <2>4. <<i1>> \in Seq(Instruction) /\ Len(<<i1>>) = 1 /\ n \in n .. (n + 1) - 1
        /\ n \in 0 .. (n + 1) - 1 /\ n .. (n + 1) - 1 = {n}
    BY <2>2
  <2>5. Makes(<<i1>>, n) /\ CodeFine(<<i1>>, n + 1, m) /\ DefinesOnce(<<i1>>)
    BY <1>2, <1>4, <2>2, <2>3, <2>4 DEF Makes, CodeFine, DefinesOnce
  <2> QED
    BY <2>1, <2>2, <2>3, <2>4, <2>5 DEF Fresh
<1>5. CASE e[1] = "not"
  <2> DEFINE i1 == Load(n, slot)
  <2> DEFINE i2 == Operate(n + 1, {n})
  <2> DEFINE c == <<i1, i2>>
  <2>1. ExprCode(e, n, scopes) = c /\ ValueOf(e, n) = n + 1
    BY <1>5 DEF ExprCode, ValueOf, slot
  <2>2. i1 \in Instruction /\ i1.def = n /\ i1.slot = slot /\ i1.uses = {}
    BY <1>2, <1>5 DEF Load, Instruction
  <2>3. i2 \in Instruction /\ i2.def = n + 1 /\ i2.slot = None /\ i2.uses = {n}
    BY DEF Operate, Instruction, None
  <2> HIDE DEF i1, i2
  <2>4. c \in Seq(Instruction) /\ Len(c) = 2 /\ c[1] = i1 /\ c[2] = i2
    BY <2>2, <2>3
  <2> HIDE DEF c
  <2>5. \A j \in 1 .. 2 : j = 1 \/ (j = 2 /\ 1 \in 1 .. j - 1)
    OBVIOUS
  <2>6. /\ \A v \in n .. ((n + 1) + 1) - 1 : v = n \/ v = n + 1
        /\ {n, n + 1} \subseteq n .. ((n + 1) + 1) - 1
        /\ {n, n + 1} \subseteq 0 .. ((n + 1) + 1) - 1
    OBVIOUS
  <2>7. Makes(c, n) /\ Makes(c, n + 1)
    BY <2>2, <2>3, <2>4 DEF Makes
  <2>8. ASSUME NEW j \in 1 .. 2
        PROVE  /\ c[j].def \in {n, n + 1}
               /\ c[j].slot \in {None} \cup 0 .. m - 1
               /\ \A v \in c[j].uses : \E k \in 1 .. j - 1 : c[k].def = v
    BY <1>2, <1>5, <2>2, <2>3, <2>4, <2>5
  <2>9. CodeFine(c, (n + 1) + 1, m)
    BY <2>4, <2>6, <2>8 DEF CodeFine
  <2>10. DefinesOnce(c)
    BY <2>2, <2>3, <2>4, <2>5 DEF DefinesOnce
  <2>11. Fresh(c, n, (n + 1) + 1, m)
    BY <2>4, <2>6, <2>7, <2>8, <2>9, <2>10 DEF Fresh
  <2> QED
    BY <2>1, <2>7, <2>11
<1> QED
  BY <1>1, <1>3, <1>4, <1>5

(* The unfinished blocks u are the one that receives code, c, and those    *)
(* that the n open statements still wait for, each for blocks of its own.  *)
WaitsFit(u, c, waits, n) ==
  /\ \A k \in 1 .. n : waits[k] \subseteq u \ {c}
  /\ \A id \in u : id = c \/ \E k \in 1 .. n : id \in waits[k]
  /\ \A j, k \in 1 .. n : j # k => waits[j] \cap waits[k] = {}

(* The current block is finished.                                          *)
LEMMA EndFits ==
  ASSUME NEW u, NEW c, NEW waits, NEW n, WaitsFit(u, c, waits, n)
  PROVE  WaitsFit(u \ {c}, c, waits, n)
BY DEF WaitsFit

(* A statement is opened whose body goes into a new block.                 *)
LEMMA PushFits ==
  ASSUME NEW u, NEW c, NEW waits, NEW n \in Nat, WaitsFit(u, c, waits, n),
         NEW waits1, \A k \in 1 .. n : waits1[k] = waits[k],
         NEW new, NEW c1 \in new, waits1[n + 1] = new \ {c1}, new \cap u = {}
  PROVE  WaitsFit((u \ {c}) \cup new, c1, waits1, n + 1)
<1>1. \A k \in 1 .. n + 1 : k \in 1 .. n \/ k = n + 1
  OBVIOUS
<1>2. 1 .. n \subseteq 1 .. n + 1 /\ n + 1 \in 1 .. n + 1
  OBVIOUS
<1>3. \A k \in 1 .. n : waits1[k] \subseteq u \ {c}
  BY DEF WaitsFit
<1>4. \A k \in 1 .. n + 1 : waits1[k] \subseteq ((u \ {c}) \cup new) \ {c1}
  BY <1>1, <1>3
<1>5. ASSUME NEW id \in (u \ {c}) \cup new
      PROVE  id = c1 \/ \E k \in 1 .. n + 1 : id \in waits1[k]
  <2>1. CASE id \in new
    BY <1>2, <2>1
  <2>2. CASE id \in u \ {c}
    BY <1>2, <2>2 DEF WaitsFit
  <2> QED
    BY <2>1, <2>2
<1>6. ASSUME NEW j \in 1 .. n + 1, NEW k \in 1 .. n + 1, j # k
      PROVE  waits1[j] \cap waits1[k] = {}
  <2>1. CASE j \in 1 .. n /\ k \in 1 .. n
    BY <1>6, <2>1 DEF WaitsFit
  <2>2. CASE j = n + 1 /\ k \in 1 .. n
    BY <1>3, <2>2
  <2>3. CASE k = n + 1 /\ j \in 1 .. n
    BY <1>3, <2>3
  <2> QED
    BY <1>1, <1>6, <2>1, <2>2, <2>3
<1> QED
  BY <1>4, <1>5, <1>6 DEF WaitsFit

(* A statement is opened that waits for no block.                          *)
LEMMA PushNoneFits ==
  ASSUME NEW u, NEW c, NEW waits, NEW n \in Nat, WaitsFit(u, c, waits, n),
         NEW waits1, \A k \in 1 .. n : waits1[k] = waits[k], waits1[n + 1] = {}
  PROVE  WaitsFit(u, c, waits1, n + 1)
<1>1. \A k \in 1 .. n + 1 : k \in 1 .. n \/ k = n + 1
  OBVIOUS
<1>2. 1 .. n \subseteq 1 .. n + 1 /\ n + 1 \in 1 .. n + 1
  OBVIOUS
<1> QED
  BY <1>1, <1>2 DEF WaitsFit

(* The innermost statement is closed, and code goes to the one block that  *)
(* it waits for; or it waits for none.                                     *)
LEMMA PopFits ==
  ASSUME NEW u, NEW c, NEW waits, NEW n \in Nat \ {0}, WaitsFit(u, c, waits, n),
         NEW waits1, \A k \in 1 .. n - 1 : waits1[k] = waits[k],
         NEW d, waits[n] = {d}
  PROVE  WaitsFit(u \ {c}, d, waits1, n - 1)
<1>1. \A k \in 1 .. n : k \in 1 .. n - 1 \/ k = n
  OBVIOUS
<1>2. n \in 1 .. n /\ \A k \in 1 .. n - 1 : k \in 1 .. n /\ k # n
  OBVIOUS
<1>3. \A k \in 1 .. n - 1 : waits1[k] \subseteq u \ {c} /\ d \notin waits1[k]
  BY <1>2 DEF WaitsFit
<1> QED
  BY <1>1, <1>2, <1>3 DEF WaitsFit

(* The innermost statement is closed, which waits for no block.            *)
LEMMA PopNoneFits ==
  ASSUME NEW u, NEW c, NEW waits, NEW n \in Nat \ {0}, WaitsFit(u, c, waits, n),
         NEW waits1, \A k \in 1 .. n - 1 : waits1[k] = waits[k], waits[n] = {}
  PROVE  WaitsFit(u, c, waits1, n - 1)
<1>1. \A k \in 1 .. n : k \in 1 .. n - 1 \/ k = n
  OBVIOUS
<1>2. n \in 1 .. n /\ \A k \in 1 .. n - 1 : k \in 1 .. n
  OBVIOUS
<1> QED
  BY <1>1, <1>2 DEF WaitsFit

(* Code goes to the else-block of the innermost statement.                 *)
LEMMA ElseFits ==
  ASSUME NEW u, NEW c, NEW waits, NEW n \in Nat \ {0}, WaitsFit(u, c, waits, n),
         NEW waits1, \A k \in 1 .. n - 1 : waits1[k] = waits[k],
         NEW d, NEW e, d # e, waits[n] = {d, e}, waits1[n] = {d}
  PROVE  WaitsFit(u \ {c}, e, waits1, n)
<1>1. \A k \in 1 .. n : k \in 1 .. n - 1 \/ k = n
  OBVIOUS
<1>2. n \in 1 .. n /\ \A k \in 1 .. n - 1 : k \in 1 .. n /\ k # n
  OBVIOUS
<1>3. \A k \in 1 .. n - 1 : waits1[k] \subseteq u \ {c} /\ d \notin waits1[k] /\ e \notin waits1[k]
  BY <1>2 DEF WaitsFit
<1>4. {d, e} \subseteq u \ {c}
  BY <1>2 DEF WaitsFit
<1>5. \A k \in 1 .. n : waits1[k] \subseteq (u \ {c}) \ {e}
  BY <1>1, <1>3, <1>4
<1>6. \A id \in u \ {c} : id = e \/ \E k \in 1 .. n : id \in waits1[k]
  BY <1>1, <1>2 DEF WaitsFit
<1>7. ASSUME NEW j \in 1 .. n, NEW k \in 1 .. n, j # k
      PROVE  waits1[j] \cap waits1[k] = {}
  <2>1. CASE j \in 1 .. n - 1 /\ k \in 1 .. n - 1
    BY <1>2, <1>7, <2>1 DEF WaitsFit
  <2>2. CASE j = n /\ k \in 1 .. n - 1
    BY <1>3, <2>2
  <2>3. CASE k = n /\ j \in 1 .. n - 1
    BY <1>3, <2>3
  <2> QED
    BY <1>1, <1>7, <2>1, <2>2, <2>3
<1> QED
  BY <1>5, <1>6, <1>7 DEF WaitsFit

-----------------------------------------------------------------------------
(* What one statement leaves alone: the open statements around it, their   *)
(* depths and their scopes.                                                *)
LEMMA OuterKept ==
  ASSUME NEW bd, bd \in Seq(Stmt), WellFormed(bd), NEW i \in 1 .. Len(bd)
  PROVE  /\ i - 1 \in 0 .. Len(bd) /\ i \in 0 .. Len(bd)
         /\ Nested(bd, i - 1) /\ Nested(bd, i)
         /\ Open(bd)[i - 1] \in Seq(1 .. Len(bd)) /\ Open(bd)[i] \in Seq(1 .. Len(bd))
         /\ Walk(bd)[i - 1].scopes \in Seq(Scope) /\ Walk(bd)[i].scopes \in Seq(Scope)
         /\ \A k \in 1 .. Len(Open(bd)[i - 1]) - 1 : Open(bd)[i][k] = Open(bd)[i - 1][k]
         /\ \A k \in 0 .. Len(Open(bd)[i - 1]) - 1 :
              Depth(Walk(bd)[i], k) = Depth(Walk(bd)[i - 1], k)
         /\ \A k \in 1 .. Len(Open(bd)[i - 1]) :
              Walk(bd)[i].scopes[k] = Walk(bd)[i - 1].scopes[k]
<1> DEFINE open == Open(bd)[i - 1]
<1> DEFINE w == Walk(bd)[i - 1]
<1> DEFINE n == Len(open)
<1>1. i \in Nat \ {0} /\ Len(bd) \in Nat /\ i - 1 \in 0 .. Len(bd) /\ i \in 0 .. Len(bd)
      /\ bd[i] \in Stmt
  BY LengthFacts
<1>2. Nested(bd, i - 1) /\ Nested(bd, i)
  BY <1>1, AllNested
<1>3. Walk(bd)[i - 1] \in WalkState /\ Walk(bd)[i] \in WalkState
      /\ Open(bd)[i - 1] \in Seq(1 .. Len(bd)) /\ Open(bd)[i] \in Seq(1 .. Len(bd))
  BY <1>1, OpenFacts, WalkFacts
<1>4. Walk(bd)[i - 1].scopes \in Seq(Scope) /\ Walk(bd)[i].scopes \in Seq(Scope)
      /\ w.depths \in Seq(Nat)
  BY <1>3 DEF WalkState
<1>5. Len(w.depths) = n /\ Len(w.scopes) = n + 1 /\ n \in Nat
  BY <1>2, <1>3, LengthFacts DEF Nested
<1>6. /\ Open(bd)[i] = IF bd[i].kind \in Openers THEN Append(open, i)
                       ELSE IF bd[i].kind = "close" THEN Front(open) ELSE open
      /\ Walk(bd)[i] = Walked(bd, i, w)
  BY OpenFacts, WalkFacts
<1> DEFINE w1 == Walk(bd)[i]
<1> DEFINE open1 == Open(bd)[i]
<1> HIDE DEF open, w, n, w1, open1
<1>7. /\ \A k \in 1 .. n - 1 : open1[k] = open[k]
      /\ \A k \in 1 .. n - 1 : w1.depths[k] = w.depths[k]
      /\ \A k \in 1 .. n : w1.scopes[k] = w.scopes[k]
  <2>1. CASE bd[i].kind \in Openers
    <3> DEFINE depth == Depth(w, Len(w.depths)) + Loops(bd, i)
    <3>1. /\ open1 = Append(open, i)
          /\ w1.depths = Append(w.depths, depth)
          /\ w1.scopes = Append(w.scopes, EmptyScope)
      BY <1>6, <2>1 DEF Walked, w1, open1
    <3>2. /\ open \in Seq(1 .. Len(bd)) /\ w.depths \in Seq(Nat) /\ w.scopes \in Seq(Scope)
          /\ depth \in Nat
      BY <1>3, <1>4, <1>5, LengthFacts DEF open, w, Depth, Loops
    <3> HIDE DEF depth
    <3>3. /\ \A k \in 1 .. n : open1[k] = open[k]
          /\ \A k \in 1 .. n : w1.depths[k] = w.depths[k]
          /\ \A k \in 1 .. n + 1 : w1.scopes[k] = w.scopes[k]
      BY <1>5, <3>1, <3>2, NewScopes DEF n
    <3>4. 1 .. n - 1 \subseteq 1 .. n /\ 1 .. n \subseteq 1 .. n + 1
      BY <1>5
    <3> QED
      BY <3>3, <3>4
  <2>2. CASE bd[i].kind = "close"
    <3>1. /\ open1 = Front(open) /\ w1.depths = Front(w.depths) /\ w1.scopes = Front(w.scopes)
      BY <1>6, <2>2 DEF Walked, Openers, w1, open1
    <3>2. /\ open \in Seq(1 .. Len(bd)) /\ w.depths \in Seq(Nat) /\ w.scopes \in Seq(Scope)
          /\ open # << >>
      BY <1>3, <1>4, <2>2, WellFormedFacts DEF open, w
    <3>3. n # 0
      BY <3>2 DEF n
    <3>4. w.depths # << >> /\ w.scopes # << >>
      BY <1>5, <3>2, <3>3
    <3>5. n = Len(w.scopes) - 1 /\ n = Len(w.depths) /\ n = Len(open)
      BY <1>5 DEF n
    <3> QED
      BY <3>1, <3>2, <3>4, <3>5, FrontFacts
  <2>3. CASE bd[i].kind = "else"
    <3>1. /\ open1 = open /\ w1 = [w EXCEPT !.scopes = WithLast(w.scopes, EmptyScope)]
      BY <1>6, <2>3 DEF Walked, Openers, w1, open1
    <3>2. w1.depths = w.depths /\ w1.scopes = WithLast(w.scopes, EmptyScope)
          /\ w.scopes \in Seq(Scope)
      BY <1>3, <1>4, <3>1 DEF WalkState, w
    <3>3. n = Len(w.scopes) - 1
      BY <1>5
    <3>4. \A k \in 1 .. Len(w.scopes) - 1 : WithLast(w.scopes, EmptyScope)[k] = w.scopes[k]
      <4>1. EmptyScope \in Scope
        BY NewScopes
      <4> QED
        BY <3>2, <4>1, WithLastFacts
    <3>5. \A k \in 1 .. n : w1.scopes[k] = w.scopes[k]
      BY <3>2, <3>3, <3>4
    <3>6. open1 = open
      BY <3>1
    <3> QED
      BY <3>2, <3>5, <3>6
  <2>4. CASE bd[i].kind = "declare"
    <3> DEFINE new == With(Last(w.scopes), bd[i].name, i)
    <3>1. /\ open1 = open /\ w1 = [w EXCEPT !.scopes = WithLast(w.scopes, new)]
      BY <1>6, <2>4 DEF Walked, Openers, w1, open1
    <3>2. new \in Scope
      <4>1. w.scopes \in Seq(Scope) /\ w.scopes # << >>
        BY <1>4, <1>5 DEF w
      <4>2. Last(w.scopes) \in Scope
        BY <4>1, FrontElements
      <4>3. bd[i].name \in Name
        BY <1>1, <2>4, StmtFacts
      <4> QED
        BY <1>1, <4>2, <4>3, ScopeFacts
    <3> HIDE DEF new
    <3>3. w1.depths = w.depths /\ w1.scopes = WithLast(w.scopes, new)
          /\ w.scopes \in Seq(Scope)
      BY <1>3, <1>4, <3>1 DEF WalkState, w
    <3>4. n = Len(w.scopes) - 1
      BY <1>5
    <3>5. \A k \in 1 .. Len(w.scopes) - 1 : WithLast(w.scopes, new)[k] = w.scopes[k]
      BY <3>2, <3>3, WithLastFacts
    <3>6. \A k \in 1 .. n : w1.scopes[k] = w.scopes[k]
      BY <3>3, <3>4, <3>5
    <3>7. open1 = open
      BY <3>1
    <3> QED
      BY <3>3, <3>6, <3>7
  <2>5. CASE bd[i].kind \notin Openers \cup {"close", "else", "declare"}
    BY <1>6, <2>5 DEF Walked, w1, open1
  <2> QED
    BY <2>1, <2>2, <2>3, <2>4, <2>5
<1>8. ASSUME NEW k \in 0 .. n - 1
      PROVE  Depth(w1, k) = Depth(w, k)
  <2>1. k = 0 \/ k \in 1 .. n - 1
    BY <1>5
  <2> QED
    BY <1>7, <2>1 DEF Depth
<1> QED
  BY <1>1, <1>2, <1>3, <1>4, <1>7, <1>8 DEF open, w, n, w1, open1

(* A statement that neither opens nor closes anything, nor declares.       *)
LEMMA PlainStep ==
  ASSUME NEW bd, bd \in Seq(Stmt), NEW i \in 1 .. Len(bd),
         bd[i].kind \notin Openers \cup {"close", "else", "declare"}
  PROVE  Open(bd)[i] = Open(bd)[i - 1] /\ Walk(bd)[i] = Walk(bd)[i - 1]
BY OpenFacts, WalkFacts DEF Walked

(* What semantic analysis establishes of statement i: its names are known, *)
(* a declared name is new in its scope, a jump is in a loop.               *)
Resolved(bd, i) ==
  LET s == bd[i]
      w == Walk(bd)[i - 1]
  IN  /\ s.kind \in {"declare", "assign", "print", "return", "if", "while"}
           /\ s.expr # NoExpr => Known(s.expr, w.scopes)
      /\ s.kind = "declare" => s.name \notin DOMAIN Last(w.scopes)
      /\ s.kind = "assign" => LookupLocal(w.scopes, s.name) # None
      /\ s.kind \in {"break", "continue"} => Depth(w, Len(w.depths)) > 0

(* A function that passed semantic analysis.                               *)
Analyzed ==
  /\ body \in Seq(Stmt)
  /\ WellFormed(body)
  /\ returnType \in {"void", "bool"}
  /\ \A i \in 1 .. Len(body) :
       /\ Resolved(body, i)
       /\ body[i].kind = "return" => (body[i].expr = NoExpr <=> returnType = "void")

-----------------------------------------------------------------------------
(* The statements that are open before the one at "at", and what semantic  *)
(* analysis knew there.                                                    *)
Opened == Open(body)[at - 1]
Seen == Walk(body)[at - 1]

Frame == [kind : Openers, next : Nat, else : Nat]
LoopTarget == [continue : Nat, break : Nat]

(* The frames, scopes and loop targets are those of the open statements    *)
(* that are not skipped, and statements are skipped after a terminator.    *)
Stacks ==
  /\ at \in 1 .. Len(body) + 1
  /\ skipping \in Nat
  /\ pending \in Seq(Frame)
  /\ loopTargets \in Seq(LoopTarget)
  /\ slots \in Seq(Scope)
  /\ locals \in Seq(Nat)
  /\ Len(Opened) = Len(pending) + skipping
  /\ skipping > 0 => HasTerminator(current)
  /\ Len(slots) = Len(pending) + 1
  /\ Len(loopTargets) = Depth(Seen, Len(pending))
  /\ \A k \in 1 .. Len(pending) : pending[k].kind = body[Opened[k]].kind

(* The blocks that the statement opened at j still needs when the first i  *)
(* statements have been passed.                                            *)
WaitOf(frame, j, i) ==
  IF frame.kind = "block" THEN {}
  ELSE IF body[j].hasElse /\ ~ Passed(body, j, i) THEN {frame.next, frame.else}
  ELSE {frame.next}

Waits == [k \in 1 .. Len(pending) |-> WaitOf(pending[k], Opened[k], at - 1)]

(* Every block gets a terminator in time: those without one are the        *)
(* current block and the ones that the open statements hold for later.     *)
Graph ==
  /\ current \in 0 .. Len(blocks) - 1
  /\ \A k \in 1 .. Len(pending) :
       /\ pending[k].next < Len(blocks) /\ pending[k].else < Len(blocks)
       /\ body[Opened[k]].hasElse => pending[k].next # pending[k].else
  /\ \A k \in 1 .. Len(loopTargets) :
       loopTargets[k].continue < Len(blocks) /\ loopTargets[k].break < Len(blocks)
  /\ WaitsFit(Unfinished(blocks), current, Waits, Len(pending))

Code == BlocksFine(blocks, nextValueId, Len(locals))

(* A scope of lowering and one of semantic analysis: the slot of a name is *)
(* that of the declaration.                                                *)
SameScope(scope, declared, ls) ==
  /\ DOMAIN scope = DOMAIN declared
  /\ \A x \in DOMAIN scope : ls[scope[x] + 1] = declared[x]

(* Names mean the same to both, in every scope that is still used: the     *)
(* innermost one is not after a terminator.                                *)
Used == Len(pending) + (IF HasTerminator(current) THEN 0 ELSE 1)

Agreement ==
  /\ SlotsBelow(slots, Len(locals))
  /\ \A d \in 1 .. Used : SameScope(slots[d], Seen.scopes[d], locals)

Walking == stage = "lowering" /\ Stacks /\ Graph /\ Code /\ Agreement

Built == stage = "lowered" /\ blocks # << >> /\ Code /\ Unfinished(blocks) = {}

LInv ==
  \/ LoweringInit
  \/ Walking
  \/ Built

(* A block has a terminator just when it is not unfinished.                *)
LEMMA TerminatorFacts ==
  ASSUME NEW id \in 0 .. Len(blocks) - 1
  PROVE  HasTerminator(id) <=> id \notin Unfinished(blocks)
BY DEF HasTerminator, Unfinished

(* What the invariant says of the statement at "at", and of the walk that  *)
(* semantic analysis took to it.                                           *)
LEMMA HereFacts ==
  ASSUME Analyzed, Walking, at <= Len(body)
  PROVE  /\ at \in 1 .. Len(body) /\ at \in Nat \ {0} /\ (at + 1) - 1 = at
         /\ at + 1 \in 1 .. Len(body) + 1
         /\ body[at] \in Stmt
         /\ Nested(body, at - 1)
         /\ Opened \in Seq(1 .. Len(body))
         /\ Seen.scopes \in Seq(Scope)
         /\ Len(Seen.scopes) = Len(Opened) + 1
         /\ Len(Seen.depths) = Len(Opened)
         /\ Len(pending) \in Nat /\ Len(loopTargets) \in Nat
         /\ blocks \in Seq(Block) /\ Len(blocks) \in Nat
         /\ nextValueId \in Nat
<1>1. Len(body) \in Nat /\ \A i \in 1 .. Len(body) : body[i] \in Stmt
  BY LengthFacts DEF Analyzed
<1>2. at \in 1 .. Len(body)
  BY <1>1 DEF Walking, Stacks
<1>3. /\ Nested(body, at - 1)
      /\ Opened \in Seq(1 .. Len(body))
      /\ Seen.scopes \in Seq(Scope)
  BY <1>2, OuterKept DEF Analyzed, Opened, Seen
<1>4. Len(Seen.scopes) = Len(Opened) + 1 /\ Len(Seen.depths) = Len(Opened)
  BY <1>3 DEF Nested, Opened, Seen
<1>5. Len(pending) \in Nat /\ Len(loopTargets) \in Nat
  BY LengthFacts DEF Walking, Stacks
<1>6. blocks \in Seq(Block) /\ Len(blocks) \in Nat /\ nextValueId \in Nat
  BY LengthFacts DEF Walking, Code, BlocksFine
<1> QED
  BY <1>1, <1>2, <1>3, <1>4, <1>5, <1>6

(* When a statement is lowered, every scope agrees with semantic analysis, *)
(* and so does what names mean.                                            *)
LEMMA LiveFacts ==
  ASSUME Analyzed, Walking, at <= Len(body), skipping = 0, ~ HasTerminator(current)
  PROVE  /\ current \in 0 .. Len(blocks) - 1 /\ current \in Unfinished(blocks)
         /\ Len(Opened) = Len(pending)
         /\ slots \in Seq(Scope) /\ Len(slots) = Len(pending) + 1
         /\ Len(Seen.scopes) = Len(slots)
         /\ \A d \in 1 .. Len(slots) : SameScope(slots[d], Seen.scopes[d], locals)
         /\ \A x : LookupLocal(Seen.scopes, x) # None => LookupLocal(slots, x) \in 0 .. Len(locals) - 1
         /\ \A e : Known(e, Seen.scopes) => Known(e, slots)
<1>1. current \in 0 .. Len(blocks) - 1 /\ current \in Unfinished(blocks)
  BY TerminatorFacts DEF Walking, Graph
<1>2. Len(Opened) = Len(pending)
  BY HereFacts DEF Walking, Stacks
<1>3. slots \in Seq(Scope) /\ Len(slots) = Len(pending) + 1
  BY DEF Walking, Stacks
<1>4. Seen.scopes \in Seq(Scope) /\ Len(Seen.scopes) = Len(slots)
  BY <1>2, <1>3, HereFacts
<1>5. \A d \in 1 .. Len(slots) : SameScope(slots[d], Seen.scopes[d], locals)
  BY <1>3 DEF Walking, Agreement, Used
<1>6. \A d \in 1 .. Len(slots) : DOMAIN slots[d] = DOMAIN Seen.scopes[d]
  BY <1>5 DEF SameScope
<1>7. ASSUME NEW x, LookupLocal(Seen.scopes, x) # None
      PROVE  LookupLocal(slots, x) \in 0 .. Len(locals) - 1
  <2>1. PICK d \in 1 .. Len(slots) : x \in DOMAIN slots[d] /\ LookupLocal(slots, x) = slots[d][x]
    BY <1>3, <1>4, <1>6, <1>7, SameLookup
  <2> QED
    BY <2>1 DEF Walking, Agreement, SlotsBelow
<1>8. \A e : Known(e, Seen.scopes) => Known(e, slots)
  BY <1>7 DEF Known, None
<1> QED
  BY <1>1, <1>2, <1>3, <1>4, <1>5, <1>7, <1>8

(* The code of the expression of the statement that is lowered.            *)
LEMMA ExprHere ==
  ASSUME Analyzed, Walking, at <= Len(body), skipping = 0, ~ HasTerminator(current),
         Here.kind \in {"assign", "print", "return", "if", "while"}, Here.expr # NoExpr
  PROVE  /\ Known(Here.expr, slots)
         /\ Fresh(ExprCode(Here.expr, nextValueId, slots), nextValueId,
                  ValueOf(Here.expr, nextValueId) + 1, Len(locals))
         /\ Makes(ExprCode(Here.expr, nextValueId, slots), ValueOf(Here.expr, nextValueId))
         /\ ValueOf(Here.expr, nextValueId) \in Nat
<1>1. Here \in Stmt
  BY HereFacts DEF Here
<1>2. Here.expr \in Expr
  BY <1>1, StmtFacts
<1>3. Known(Here.expr, Seen.scopes)
  BY HereFacts DEF Analyzed, Resolved, Here, Seen
<1>4. Known(Here.expr, slots)
  BY <1>3, LiveFacts
<1>5. SlotsBelow(slots, Len(locals)) /\ slots \in Seq(Scope) /\ Len(locals) \in Nat
      /\ nextValueId \in Nat
  BY LengthFacts, HereFacts DEF Walking, Agreement, Stacks
<1> QED
  BY <1>2, <1>4, <1>5, ExprFresh

(* A statement that opens and closes nothing and declares no name: only    *)
(* the blocks change, and at most the current one is finished.             *)
LEMMA PlainKeeps ==
  ASSUME Analyzed, Walking, at <= Len(body),
         body[at].kind \notin Openers \cup {"close", "else", "declare"},
         stage' = "lowering", at' = at + 1,
         UNCHANGED <<body, returnType, skipping, pending, slots, loopTargets, locals, current>>,
         Code', Len(blocks') = Len(blocks),
         \/ Unfinished(blocks') = Unfinished(blocks)
         \/ Unfinished(blocks') = Unfinished(blocks) \ {current}
  PROVE  Walking'
<1>1. /\ at \in 1 .. Len(body) /\ (at + 1) - 1 = at /\ at + 1 \in 1 .. Len(body) + 1
  BY HereFacts
<1>2. Opened' = Opened /\ Seen' = Seen
  BY <1>1, PlainStep DEF Opened, Seen, Analyzed
<1>3. HasTerminator(current) => HasTerminator(current)'
  <2>1. HasTerminator(current) <=> current \notin Unfinished(blocks)
    BY TerminatorFacts DEF Walking, Graph
  <2>2. HasTerminator(current)' <=> current \notin Unfinished(blocks')
    BY DEF Walking, Graph, HasTerminator, Unfinished
  <2> QED
    BY <2>1, <2>2
<1>4. Stacks'
  BY <1>1, <1>2, <1>3 DEF Walking, Stacks
<1>5. Graph'
  <2>1. \A j : Passed(body, j, at) <=> Passed(body, j, at - 1)
    BY <1>1, PassedFacts DEF Analyzed
  <2>2. Waits' = Waits
    <3>1. \A f, j : WaitOf(f, j, at) = WaitOf(f, j, at - 1)
      BY <2>1 DEF WaitOf
    <3>2. Waits' = [k \in 1 .. Len(pending) |-> WaitOf(pending[k], Opened[k], at)]
      <4>1. (at - 1)' = at
        BY <1>1
      <4>2. \A f, j, i : WaitOf(f, j, i)' = WaitOf(f, j, i)
        BY DEF WaitOf, Passed
      <4> QED
        BY <1>2, <4>1, <4>2 DEF Waits
    <3> QED
      BY <3>1, <3>2 DEF Waits
  <2>3. WaitsFit(Unfinished(blocks'), current, Waits, Len(pending))
    BY EndFits DEF Walking, Graph
  <2> QED
    BY <1>2, <2>2, <2>3 DEF Walking, Graph
<1>6. Agreement'
  <2>1. 1 .. Used' \subseteq 1 .. Used
    <3>1. Len(pending) \in Nat
      BY HereFacts
    <3> QED
      BY <1>3, <3>1 DEF Used
  <2> QED
    BY <1>2, <2>1 DEF Walking, Agreement, SlotsBelow, SameScope
<1> QED
  BY <1>4, <1>5, <1>6 DEF Walking

(* The code is fine after a step when it is fine for the same function.    *)
LEMMA CodeThere ==
  ASSUME UNCHANGED returnType, BlocksFine(blocks', nextValueId', Len(locals'))
  PROVE  Code'
BY DEF Code, BlocksFine, TermFine

(* An expression is not the absence of one.                                *)
LEMMA SomeExpr ==
  ASSUME NEW e \in Expr
  PROVE  e # NoExpr
<1>1. e[1] \in {"literal", "name", "not"}
  BY DEF Expr
<1>2. NoExpr[1] = "none"
  BY DEF NoExpr
<1> QED
  BY <1>1, <1>2

(* A statement is lowered just when control reaches it.                    *)
LEMMA Reached ==
  ASSUME Analyzed, Walking, NEW kind, NEW fine \in BOOLEAN, Lower(kind, fine)
  PROVE  /\ at <= Len(body) /\ skipping = 0 /\ ~ HasTerminator(current)
         /\ body[at].kind = kind /\ Here = body[at] /\ Here \in Stmt
         /\ at' = at + 1 /\ skipping' = skipping
         /\ fine => stage' = "lowering"
         /\ Resolved(body, at)
         /\ Here.kind = "return" => (Here.expr = NoExpr <=> returnType = "void")
<1>1. /\ at <= Len(body) /\ skipping = 0 /\ ~ HasTerminator(current)
      /\ body[at].kind = kind /\ at' = at + 1 /\ skipping' = skipping
      /\ fine => stage' = "lowering"
  BY DEF Lower, LoweringAt
<1>2. at \in 1 .. Len(body) /\ body[at] \in Stmt
  BY <1>1, HereFacts
<1> QED
  BY <1>1, <1>2 DEF Here, Analyzed

(* A statement that adds code to the current block and does nothing else.  *)
LEMMA EmitKeeps ==
  ASSUME Analyzed, Walking, at <= Len(body), skipping = 0, ~ HasTerminator(current),
         body[at].kind \in {"assign", "print"},
         NEW code, NEW n, Fresh(code, nextValueId, n, Len(locals)),
         blocks' = Extended(blocks, current, code), nextValueId' = n,
         stage' = "lowering", at' = at + 1,
         UNCHANGED <<body, returnType, skipping, pending, slots, loopTargets, locals, current>>
  PROVE  Walking'
<1>1. current \in 0 .. Len(blocks) - 1
  BY LiveFacts
<1>2. BlocksFine(blocks, nextValueId, Len(locals))
  BY DEF Walking, Code
<1>3. /\ BlocksFine(blocks', n, Len(locals))
      /\ Len(blocks') = Len(blocks)
      /\ Unfinished(blocks') = Unfinished(blocks)
  BY <1>1, <1>2, ExtendKeeps
<1>4. Code'
  BY <1>3, CodeThere
<1>5. body[at].kind \notin Openers \cup {"close", "else", "declare"}
  BY DEF Openers
<1> QED
  BY <1>3, <1>4, <1>5, PlainKeeps

(* The store into a local, and the output, of a value.                     *)
LEMMA StoreFits ==
  ASSUME NEW l \in Nat, NEW v \in Nat
  PROVE  /\ Store(l, v) \in Instruction /\ Store(l, v).def = None
         /\ Store(l, v).slot = l /\ Store(l, v).uses = {v}
         /\ Output(v) \in Instruction /\ Output(v).def = None
         /\ Output(v).slot = None /\ Output(v).uses = {v}
BY DEF Store, Output, Instruction, None

(* Assigning: the expression, and a store into the local the name means.   *)
LEMMA AssignKeeps ==
  ASSUME Analyzed, Walking, LowerAssign, UNCHANGED <<body, returnType>>
  PROVE  Walking'
<1> DEFINE value == ValueOf(Here.expr, nextValueId)
<1> DEFINE local == LookupLocal(slots, Here.name)
<1> DEFINE code == ExprCode(Here.expr, nextValueId, slots)
<1> DEFINE fine == local # None /\ Known(Here.expr, slots)
<1>1. /\ Lower("assign", fine)
      /\ blocks' = Extended(blocks, current, Append(code, Store(local, value)))
      /\ nextValueId' = value + 1
      /\ UNCHANGED <<current, locals, slots, loopTargets, pending>>
  BY DEF LowerAssign
<1>2. fine \in BOOLEAN
  OBVIOUS
<1> HIDE DEF fine
<1>3. /\ at <= Len(body) /\ skipping = 0 /\ ~ HasTerminator(current)
      /\ Here.kind = "assign" /\ body[at].kind = "assign" /\ Here = body[at] /\ Here \in Stmt
      /\ at' = at + 1 /\ skipping' = skipping
      /\ fine => stage' = "lowering"
      /\ Resolved(body, at)
  BY <1>1, <1>2, Reached
<1>4. Here.expr # NoExpr
  BY <1>3, StmtFacts, SomeExpr
<1>5. /\ Known(Here.expr, slots)
      /\ Fresh(code, nextValueId, value + 1, Len(locals))
      /\ Makes(code, value) /\ value \in Nat
  BY <1>3, <1>4, ExprHere
<1>6. local \in 0 .. Len(locals) - 1
  BY <1>3, LiveFacts DEF Resolved, Seen
<1>7. fine
  BY <1>5, <1>6 DEF fine, None
<1>8. Len(locals) \in Nat /\ local \in Nat
  BY <1>6, LengthFacts DEF Walking, Stacks
<1> HIDE DEF value, local, code
<1>9. Fresh(Append(code, Store(local, value)), nextValueId, value + 1, Len(locals))
  BY <1>5, <1>6, <1>8, StoreFits, UseFollows
<1> QED
  BY <1>1, <1>3, <1>7, <1>9, EmitKeeps

(* Printing: the expression, and its output.                               *)
LEMMA PrintKeeps ==
  ASSUME Analyzed, Walking, LowerPrint, UNCHANGED <<body, returnType>>
  PROVE  Walking'
<1> DEFINE value == ValueOf(Here.expr, nextValueId)
<1> DEFINE code == ExprCode(Here.expr, nextValueId, slots)
<1> DEFINE fine == Known(Here.expr, slots)
<1>1. /\ Lower("print", fine)
      /\ blocks' = Extended(blocks, current, Append(code, Output(value)))
      /\ nextValueId' = value + 1
      /\ UNCHANGED <<current, locals, slots, loopTargets, pending>>
  BY DEF LowerPrint
<1>2. fine \in BOOLEAN
  BY DEF Known
<1> HIDE DEF fine
<1>3. /\ at <= Len(body) /\ skipping = 0 /\ ~ HasTerminator(current)
      /\ Here.kind = "print" /\ body[at].kind = "print" /\ Here = body[at] /\ Here \in Stmt
      /\ at' = at + 1 /\ skipping' = skipping
      /\ fine => stage' = "lowering"
  BY <1>1, <1>2, Reached
<1>4. Here.expr # NoExpr
  BY <1>3, StmtFacts, SomeExpr
<1>5. /\ Known(Here.expr, slots)
      /\ Fresh(code, nextValueId, value + 1, Len(locals))
      /\ Makes(code, value) /\ value \in Nat
  BY <1>3, <1>4, ExprHere
<1>6. fine
  BY <1>5 DEF fine
<1> HIDE DEF value, code
<1>7. Fresh(Append(code, Output(value)), nextValueId, value + 1, Len(locals))
  BY <1>5, StoreFits, UseFollows
<1> QED
  BY <1>1, <1>3, <1>6, <1>7, EmitKeeps

(* A statement that ends the current block.                                *)
LEMMA LeaveKeeps ==
  ASSUME Analyzed, Walking, at <= Len(body), skipping = 0, ~ HasTerminator(current),
         body[at].kind \in {"return", "break", "continue"},
         NEW bs, NEW n, BlocksFine(bs, n, Len(locals)), Len(bs) = Len(blocks),
         Unfinished(bs) = Unfinished(blocks),
         NEW term, TermFine(term, bs[current + 1].code, Len(blocks)), term.kind # "missing",
         blocks' = Ended(bs, current, term), nextValueId' = n,
         stage' = "lowering", at' = at + 1,
         UNCHANGED <<body, returnType, skipping, pending, slots, loopTargets, locals, current>>
  PROVE  Walking'
<1>1. current \in 0 .. Len(bs) - 1
  BY LiveFacts
<1>2. /\ BlocksFine(blocks', n, Len(locals))
      /\ Len(blocks') = Len(bs)
      /\ Unfinished(blocks') = Unfinished(bs) \ {current}
  BY <1>1, EndKeeps
<1>3. Code'
  BY <1>2, CodeThere
<1>4. body[at].kind \notin Openers \cup {"close", "else", "declare"}
  BY DEF Openers
<1> QED
  BY <1>2, <1>3, <1>4, PlainKeeps

(* The terminators that lowering uses.                                     *)
LEMMA TermFacts ==
  ASSUME NEW v \in Int, NEW b \in Nat, NEW c \in Nat
  PROVE  /\ Return(v) \in Terminator /\ Return(v).kind = "return" /\ Return(v).value = v
         /\ Targets(Return(v)) = {}
         /\ Branch(b) \in Terminator /\ Branch(b).kind = "branch" /\ Branch(b).value = None
         /\ Targets(Branch(b)) = {b}
         /\ CondBranch(v, b, c) \in Terminator /\ CondBranch(v, b, c).kind = "cond"
         /\ CondBranch(v, b, c).value = v /\ Targets(CondBranch(v, b, c)) = {b, c}
         /\ Unreachable \in Terminator /\ Unreachable.kind = "unreachable"
         /\ Unreachable.value = None /\ Targets(Unreachable) = {}
<1>1. None \in Int
  BY DEF None
<1>2. Return(v) \in Terminator /\ Branch(b) \in Terminator /\ CondBranch(v, b, c) \in Terminator
      /\ Unreachable \in Terminator
  BY <1>1 DEF Return, Branch, CondBranch, Unreachable, Terminator
<1> QED
  BY <1>2 DEF Return, Branch, CondBranch, Unreachable, Targets

(* Returning ends the current block, with the value if there is one.       *)
LEMMA ReturnKeeps ==
  ASSUME Analyzed, Walking, LowerReturn, UNCHANGED <<body, returnType>>
  PROVE  Walking'
<1> DEFINE value == ValueOf(Here.expr, nextValueId)
<1> DEFINE code == ExprCode(Here.expr, nextValueId, slots)
<1> DEFINE some == Here.expr # NoExpr
<1> DEFINE fine == IF some THEN Known(Here.expr, slots) ELSE returnType = "void"
<1> DEFINE bs == Extended(blocks, current, code)
<1>1. /\ Lower("return", fine)
      /\ blocks' = IF some THEN Ended(bs, current, Return(value))
                   ELSE Ended(blocks, current, Return(None))
      /\ nextValueId' = IF some THEN value + 1 ELSE nextValueId
      /\ UNCHANGED <<current, locals, slots, loopTargets, pending>>
  BY DEF LowerReturn
<1>2. fine \in BOOLEAN
  BY DEF Known
<1> HIDE DEF fine
<1>3. /\ at <= Len(body) /\ skipping = 0 /\ ~ HasTerminator(current)
      /\ Here.kind = "return" /\ body[at].kind = "return" /\ Here = body[at] /\ Here \in Stmt
      /\ at' = at + 1 /\ skipping' = skipping
      /\ fine => stage' = "lowering"
      /\ Here.expr = NoExpr <=> returnType = "void"
  BY <1>1, <1>2, Reached
<1>4. /\ current \in 0 .. Len(blocks) - 1
      /\ BlocksFine(blocks, nextValueId, Len(locals))
      /\ Len(blocks) \in Nat
  BY <1>3, LiveFacts, HereFacts DEF Walking, Code
<1>5. CASE some
  <2>1. /\ Known(Here.expr, slots)
        /\ Fresh(code, nextValueId, value + 1, Len(locals))
        /\ Makes(code, value) /\ value \in Nat
    BY <1>3, <1>5, ExprHere
  <2>2. fine
    BY <1>5, <2>1 DEF fine
  <2>3. /\ BlocksFine(bs, value + 1, Len(locals))
        /\ Len(bs) = Len(blocks)
        /\ Unfinished(bs) = Unfinished(blocks)
        /\ Makes(bs[current + 1].code, value)
    <3>1. Fresh(code, nextValueId, value + 1, Len(locals)) /\ Makes(code, value)
      BY <2>1
    <3> HIDE DEF value, code
    <3>2. /\ BlocksFine(bs, value + 1, Len(locals))
          /\ Len(bs) = Len(blocks)
          /\ Unfinished(bs) = Unfinished(blocks)
      BY <1>4, <3>1, ExtendKeeps
    <3>3. \A v : Makes(code, v) => Makes(bs[current + 1].code, v)
      BY <1>4, <3>1, ExtendKeeps
    <3> QED
      BY <3>1, <3>2, <3>3
  <2>4. TermFine(Return(value), bs[current + 1].code, Len(blocks))
    <3>1. value \in Int /\ 0 \in Nat /\ value # None /\ returnType # "void"
      BY <1>3, <1>5, <2>1 DEF None
    <3>2. Makes(bs[current + 1].code, value)
      BY <2>3
    <3> HIDE DEF value, bs
    <3>3. /\ Return(value) \in Terminator /\ Return(value).kind = "return"
          /\ Return(value).value = value /\ Targets(Return(value)) = {}
      BY <3>1, TermFacts
    <3> QED
      BY <3>1, <3>2, <3>3 DEF TermFine
  <2>5. Return(value).kind # "missing"
    BY DEF Return
  <2>6. blocks' = Ended(bs, current, Return(value)) /\ nextValueId' = value + 1
    BY <1>1, <1>5
  <2> HIDE DEF value, bs, some
  <2> QED
    BY <1>1, <1>3, <2>2, <2>3, <2>4, <2>5, <2>6, LeaveKeeps
<1>6. CASE ~ some
  <2>1. fine
    BY <1>3, <1>6 DEF fine
  <2>2. TermFine(Return(None), blocks[current + 1].code, Len(blocks))
    <3>1. None \in Int /\ 0 \in Nat
      BY DEF None
    <3> QED
      BY <1>3, <1>6, <3>1, TermFacts DEF TermFine
  <2>3. Return(None).kind # "missing"
    BY DEF Return
  <2>4. blocks' = Ended(blocks, current, Return(None)) /\ nextValueId' = nextValueId
    BY <1>1, <1>6
  <2> HIDE DEF some
  <2> QED
    BY <1>1, <1>3, <1>4, <2>1, <2>2, <2>3, <2>4, LeaveKeeps
<1> QED
  BY <1>5, <1>6

(* A jump goes to a block of the innermost loop: there is one, because     *)
(* semantic analysis counted the loops.                                    *)
LEMMA JumpKeeps ==
  ASSUME Analyzed, Walking, LowerJump, UNCHANGED <<body, returnType>>
  PROVE  Walking'
<1> DEFINE fine == loopTargets # << >>
<1>1. PICK kind \in {"break", "continue"} : Lower(kind, fine)
  BY DEF LowerJump
<1>2. /\ blocks' = IF loopTargets = << >> THEN blocks
                   ELSE Ended(blocks, current, Branch(JumpTarget))
      /\ UNCHANGED <<current, nextValueId, locals, slots, loopTargets, pending>>
  BY DEF LowerJump
<1>3. fine \in BOOLEAN
  OBVIOUS
<1> HIDE DEF fine
<1>4. /\ at <= Len(body) /\ skipping = 0 /\ ~ HasTerminator(current)
      /\ Here.kind = kind /\ body[at].kind = kind /\ Here = body[at] /\ Here \in Stmt
      /\ at' = at + 1 /\ skipping' = skipping
      /\ fine => stage' = "lowering"
      /\ Resolved(body, at)
  BY <1>1, <1>3, Reached
<1>5. /\ current \in 0 .. Len(blocks) - 1
      /\ BlocksFine(blocks, nextValueId, Len(locals))
      /\ Len(blocks) \in Nat
  BY <1>4, LiveFacts, HereFacts DEF Walking, Code
<1>6. Len(loopTargets) > 0
  <2>1. Depth(Seen, Len(Seen.depths)) > 0
    BY <1>4 DEF Resolved, Seen
  <2>2. Len(Seen.depths) = Len(pending)
    BY <1>4, LiveFacts, HereFacts
  <2> QED
    BY <2>1, <2>2 DEF Walking, Stacks
<1>7. fine /\ loopTargets # << >> /\ Len(loopTargets) \in 1 .. Len(loopTargets)
  BY <1>6, LengthFacts DEF fine, Walking, Stacks
<1>8. JumpTarget \in 0 .. Len(blocks) - 1
  <2>1. loopTargets[Len(loopTargets)] \in LoopTarget
    BY <1>7 DEF Walking, Stacks
  <2>2. /\ loopTargets[Len(loopTargets)].continue < Len(blocks)
        /\ loopTargets[Len(loopTargets)].break < Len(blocks)
    BY <1>7 DEF Walking, Graph
  <2> QED
    BY <1>5, <2>1, <2>2 DEF JumpTarget, LoopTarget, Last
<1>9. TermFine(Branch(JumpTarget), blocks[current + 1].code, Len(blocks))
  <2>1. 0 \in Nat /\ JumpTarget \in Nat /\ 0 \in Int
    BY <1>8
  <2>2. /\ Branch(JumpTarget) \in Terminator /\ Branch(JumpTarget).kind = "branch"
        /\ Branch(JumpTarget).value = None /\ Targets(Branch(JumpTarget)) = {JumpTarget}
    BY <2>1, TermFacts
  <2> QED
    BY <1>8, <2>2 DEF TermFine
<1>10. Branch(JumpTarget).kind # "missing"
  BY DEF Branch
<1>11. blocks' = Ended(blocks, current, Branch(JumpTarget)) /\ nextValueId' = nextValueId
  BY <1>2, <1>7
<1>12. body[at].kind \in {"return", "break", "continue"}
  BY <1>4
<1> QED
  BY <1>2, <1>4, <1>5, <1>7, <1>9, <1>10, <1>11, <1>12, LeaveKeeps

(* What an opener does to the stacks.                                      *)
LEMMA OpenerStep ==
  ASSUME NEW bd, bd \in Seq(Stmt), WellFormed(bd), NEW i \in 1 .. Len(bd),
         bd[i].kind \in Openers
  PROVE  LET n == Len(Open(bd)[i - 1]) IN
         /\ Len(Open(bd)[i]) = n + 1
         /\ \A k \in 1 .. n : Open(bd)[i][k] = Open(bd)[i - 1][k]
         /\ Open(bd)[i][n + 1] = i
         /\ \A k \in 0 .. n : Depth(Walk(bd)[i], k) = Depth(Walk(bd)[i - 1], k)
         /\ Depth(Walk(bd)[i], n + 1) = Depth(Walk(bd)[i - 1], n) + Loops(bd, i)
         /\ \A k \in 1 .. n + 1 : Walk(bd)[i].scopes[k] = Walk(bd)[i - 1].scopes[k]
         /\ Walk(bd)[i].scopes[n + 2] = EmptyScope
<1> DEFINE n == Len(Open(bd)[i - 1])
<1> DEFINE open == Open(bd)[i - 1]
<1> DEFINE w == Walk(bd)[i - 1]
<1> DEFINE open1 == Open(bd)[i]
<1> DEFINE w1 == Walk(bd)[i]
<1> DEFINE depth == Depth(w, n) + Loops(bd, i)
<1>1. i - 1 \in 0 .. Len(bd) /\ open \in Seq(1 .. Len(bd)) /\ w.scopes \in Seq(Scope)
  BY OuterKept
<1>2. Len(w.depths) = n /\ Len(w.scopes) = n + 1
  BY OuterKept DEF Nested
<1>3. w.depths \in Seq(Nat)
  BY <1>1, WalkFacts DEF WalkState
<1>4. n \in Nat
  BY <1>1, LengthFacts
<1>5. depth \in Nat
  BY <1>2, <1>3, <1>4, LengthFacts DEF Depth, Loops
<1>6. /\ open1 = Append(open, i)
      /\ w1 = Walked(bd, i, w)
  BY OpenFacts, WalkFacts
<1>7. Len(open) = n
  BY DEF n
<1> HIDE DEF n, open, w, open1, w1
<1>12. /\ w1.depths = Append(w.depths, depth)
       /\ w1.scopes = Append(w.scopes, EmptyScope)
  BY <1>2, <1>6 DEF Walked
<1> HIDE DEF depth
<1>8. /\ Len(open1) = n + 1
      /\ \A k \in 1 .. n : open1[k] = open[k]
      /\ open1[n + 1] = i
  BY <1>1, <1>4, <1>6, <1>7
<1>9. /\ \A k \in 1 .. n : w1.depths[k] = w.depths[k]
      /\ w1.depths[n + 1] = depth
  BY <1>2, <1>3, <1>4, <1>5, <1>12
<1>10. /\ \A k \in 1 .. n + 1 : w1.scopes[k] = w.scopes[k]
       /\ w1.scopes[n + 2] = EmptyScope
  <2>1. Len(w.scopes) + 1 = n + 2 /\ EmptyScope \in Scope
    BY <1>2, <1>4, NewScopes
  <2> QED
    BY <1>1, <1>2, <1>12, <2>1
<1>11. /\ \A k \in 0 .. n : Depth(w1, k) = Depth(w, k)
       /\ Depth(w1, n + 1) = depth
  BY <1>4, <1>9 DEF Depth
<1> QED
  BY <1>8, <1>10, <1>11 DEF n, open, w, open1, w1, depth

(* A close takes the innermost statement away.                             *)
LEMMA CloseStep ==
  ASSUME NEW bd, bd \in Seq(Stmt), WellFormed(bd), NEW i \in 1 .. Len(bd),
         bd[i].kind = "close"
  PROVE  LET n == Len(Open(bd)[i - 1]) IN
         /\ n \in Nat \ {0}
         /\ Len(Open(bd)[i]) = n - 1
         /\ OpenerOf(bd, i) = Open(bd)[i - 1][n]
         /\ \A k \in 1 .. n - 1 : Open(bd)[i][k] = Open(bd)[i - 1][k]
         /\ \A k \in 0 .. n - 1 : Depth(Walk(bd)[i], k) = Depth(Walk(bd)[i - 1], k)
         /\ Depth(Walk(bd)[i - 1], n) =
              Depth(Walk(bd)[i - 1], n - 1) + Loops(bd, Open(bd)[i - 1][n])
         /\ \A k \in 1 .. n : Walk(bd)[i].scopes[k] = Walk(bd)[i - 1].scopes[k]
<1> DEFINE n == Len(Open(bd)[i - 1])
<1>1. n \in Nat \ {0} /\ OpenerOf(bd, i) = Open(bd)[i - 1][n]
  BY OpenerFacts
<1>2. /\ Open(bd)[i - 1] \in Seq(1 .. Len(bd))
      /\ Open(bd)[i - 1] # << >>
      /\ Open(bd)[i] = Front(Open(bd)[i - 1])
  <2>1. Open(bd)[i - 1] \in Seq(1 .. Len(bd))
    BY OuterKept
  <2>2. bd[i].kind \notin Openers
    BY DEF Openers
  <2>3. Open(bd)[i] = Front(Open(bd)[i - 1])
    BY <2>2, OpenFacts
  <2> QED
    BY <1>1, <2>1, <2>3, LengthFacts
<1>3. Len(Open(bd)[i]) = n - 1
  BY <1>2, FrontFacts
<1>4. n \in 1 .. Len(Open(bd)[i - 1])
  BY <1>1
<1>5. Depth(Walk(bd)[i - 1], n) =
        Depth(Walk(bd)[i - 1], n - 1) + Loops(bd, Open(bd)[i - 1][n])
  BY <1>4, OuterKept DEF Nested
<1> QED
  BY <1>1, <1>3, <1>5, OuterKept

(* An else makes the innermost scope empty, and a declaration extends it.  *)
LEMMA ScopeStep ==
  ASSUME NEW bd, bd \in Seq(Stmt), WellFormed(bd), NEW i \in 1 .. Len(bd),
         bd[i].kind \in {"else", "declare"}
  PROVE  LET n == Len(Open(bd)[i - 1]) IN
         /\ n \in Nat
         /\ Open(bd)[i] = Open(bd)[i - 1]
         /\ Walk(bd)[i].depths = Walk(bd)[i - 1].depths
         /\ \A k \in 1 .. n : Walk(bd)[i].scopes[k] = Walk(bd)[i - 1].scopes[k]
         /\ Walk(bd)[i].scopes[n + 1] =
              IF bd[i].kind = "else" THEN EmptyScope
              ELSE With(Walk(bd)[i - 1].scopes[n + 1], bd[i].name, i)
<1> DEFINE n == Len(Open(bd)[i - 1])
<1> DEFINE w == Walk(bd)[i - 1]
<1> DEFINE w1 == Walk(bd)[i]
<1> DEFINE new == IF bd[i].kind = "else" THEN EmptyScope
                  ELSE With(Last(w.scopes), bd[i].name, i)
<1>1. /\ i - 1 \in 0 .. Len(bd) /\ w.scopes \in Seq(Scope) /\ Len(w.scopes) = n + 1
      /\ Open(bd)[i - 1] \in Seq(1 .. Len(bd))
  BY OuterKept DEF Nested
<1>2. n \in Nat
  BY <1>1, LengthFacts
<1>3. bd[i].kind \notin Openers /\ bd[i].kind # "close"
  BY DEF Openers
<1>4. Open(bd)[i] = Open(bd)[i - 1]
  BY <1>3, OpenFacts
<1>5. w \in WalkState
  BY <1>1, WalkFacts
<1>6. w1 = [w EXCEPT !.scopes = WithLast(w.scopes, new)]
  BY <1>3, WalkFacts DEF Walked
<1>7. Last(w.scopes) = w.scopes[n + 1] /\ Last(w.scopes) \in Scope
  BY <1>1, <1>2, LengthFacts DEF Last
<1>8. new \in Scope
  <2>1. CASE bd[i].kind = "else"
    BY <2>1, NewScopes
  <2>2. CASE bd[i].kind = "declare"
    <3>1. bd[i] \in Stmt
      BY LengthFacts
    <3>2. bd[i].name \in Name /\ i \in Nat
      BY <2>2, <3>1, StmtFacts
    <3> QED
      BY <1>7, <2>2, <3>2, ScopeFacts
  <2> QED
    BY <2>1, <2>2
<1>9. w1.depths = w.depths /\ w1.scopes = WithLast(w.scopes, new)
  <2> HIDE DEF w, w1, new
  <2> QED
    BY <1>5, <1>6 DEF WalkState
<1>10. \A k \in 1 .. n : w1.scopes[k] = w.scopes[k]
  BY OuterKept
<1>11. w1.scopes[n + 1] = new
  <2>1. w.scopes # << >> /\ w.scopes \in Seq(Scope) /\ Len(w.scopes) = n + 1
    BY <1>1, <1>2, LengthFacts
  <2> HIDE DEF w, w1, new
  <2>2. WithLast(w.scopes, new)[Len(w.scopes)] = new
    <3> DEFINE s == w.scopes
    <3>1. s # << >> /\ s \in Seq(Scope)
      BY <2>1
    <3> HIDE DEF s
    <3>2. s # << >> => WithLast(s, new)[Len(s)] = new
      BY <1>8, <3>1, WithLastFacts
    <3> QED
      BY <3>1, <3>2 DEF s
  <2> QED
    BY <1>8, <1>9, <2>1, <2>2
<1> QED
  BY <1>2, <1>4, <1>7, <1>9, <1>10, <1>11

-----------------------------------------------------------------------------
(* An open statement waits for the same blocks after a step that does not  *)
(* bring its else.                                                         *)
LEMMA WaitStays ==
  ASSUME Analyzed, Walking, at <= Len(body), at' = at + 1, UNCHANGED body,
         NEW k, k \in 1 .. Len(pending), k \in 1 .. Len(pending'),
         pending'[k] = pending[k], Opened'[k] = Opened[k],
         ~ (body[at].kind = "else" /\ OpenerOf(body, at) = Opened[k])
  PROVE  Waits'[k] = Waits[k]
<1>1. at \in 1 .. Len(body) /\ (at + 1) - 1 = at
  BY HereFacts
<1>2. Passed(body, Opened[k], at) <=> Passed(body, Opened[k], at - 1)
  BY <1>1, PassedFacts DEF Analyzed
<1>3. (at - 1)' = at
  BY <1>1
<1>4. \A f, j, i : WaitOf(f, j, i)' = WaitOf(f, j, i)
  BY DEF WaitOf, Passed
<1>5. Waits'[k] = WaitOf(pending'[k], Opened'[k], at)
  BY <1>3, <1>4 DEF Waits
<1>6. WaitOf(pending[k], Opened[k], at) = WaitOf(pending[k], Opened[k], at - 1)
  BY <1>2 DEF WaitOf
<1> QED
  BY <1>5, <1>6 DEF Waits

(* An else belongs to the innermost open statement.                        *)
LEMMA ElseIsInnermost ==
  ASSUME Analyzed, Walking, at <= Len(body), body[at].kind = "else",
         NEW k \in 1 .. Len(Opened), OpenerOf(body, at) = Opened[k]
  PROVE  k = Len(Opened)
<1>1. at \in 1 .. Len(body)
  BY HereFacts
<1>2. /\ Len(Opened) \in Nat \ {0}
      /\ OpenerOf(body, at) = Opened[Len(Opened)]
      /\ OpenerOf(body, at) \in 1 .. at - 1
  BY <1>1, OpenerFacts DEF Analyzed, Opened
<1>3. \A j, l \in 1 .. Len(Opened) : j < l => Opened[j] < Opened[l]
  BY HereFacts DEF Nested, Opened
<1>4. Opened[k] \in Int /\ Len(Opened) \in 1 .. Len(Opened)
  BY <1>2
<1>5. ~ (k < Len(Opened))
  <2>1. ASSUME k < Len(Opened)
        PROVE  FALSE
    <3>1. Opened[k] < Opened[Len(Opened)]
      BY <1>3, <1>4, <2>1
    <3> QED
      BY <1>2, <1>4, <3>1
  <2> QED
    BY <2>1
<1> QED
  BY <1>2, <1>5

(* The same of the step from an opener to the next statement.              *)
LEMMA OpenedNext ==
  ASSUME Analyzed, Walking, at <= Len(body), at' = at + 1, UNCHANGED body,
         Here.kind \in Openers
  PROVE  /\ Len(Opened') = Len(Opened) + 1
         /\ \A k \in 1 .. Len(Opened) : Opened'[k] = Opened[k]
         /\ Opened'[Len(Opened) + 1] = at
         /\ \A k \in 0 .. Len(Opened) : Depth(Seen', k) = Depth(Seen, k)
         /\ Depth(Seen', Len(Opened) + 1) = Depth(Seen, Len(Opened)) + Loops(body, at)
         /\ \A k \in 1 .. Len(Opened) + 1 : Seen'.scopes[k] = Seen.scopes[k]
         /\ Seen'.scopes[Len(Opened) + 2] = EmptyScope
<1>1. /\ at \in 1 .. Len(body) /\ (at + 1) - 1 = at
      /\ body \in Seq(Stmt) /\ WellFormed(body) /\ body[at].kind \in Openers
  BY HereFacts DEF Analyzed, Here
<1>2. Opened' = Open(body)[at] /\ Seen' = Walk(body)[at]
  BY <1>1 DEF Opened, Seen
<1>3. Opened = Open(body)[at - 1] /\ Seen = Walk(body)[at - 1]
  BY DEF Opened, Seen
<1> QED
  BY <1>1, <1>2, <1>3, OpenerStep

(* The step from a close to the next statement.                            *)
LEMMA ClosedNext ==
  ASSUME Analyzed, Walking, at <= Len(body), at' = at + 1, UNCHANGED body,
         Here.kind = "close"
  PROVE  /\ Len(Opened) \in Nat \ {0}
         /\ Len(Opened') = Len(Opened) - 1
         /\ OpenerOf(body, at) = Opened[Len(Opened)]
         /\ \A k \in 1 .. Len(Opened) - 1 : Opened'[k] = Opened[k]
         /\ \A k \in 0 .. Len(Opened) - 1 : Depth(Seen', k) = Depth(Seen, k)
         /\ Depth(Seen, Len(Opened)) =
              Depth(Seen, Len(Opened) - 1) + Loops(body, Opened[Len(Opened)])
         /\ \A k \in 1 .. Len(Opened) : Seen'.scopes[k] = Seen.scopes[k]
<1>1. /\ at \in 1 .. Len(body) /\ (at + 1) - 1 = at
      /\ body \in Seq(Stmt) /\ WellFormed(body) /\ body[at].kind = "close"
  BY HereFacts DEF Analyzed, Here
<1>2. Opened' = Open(body)[at] /\ Seen' = Walk(body)[at]
  BY <1>1 DEF Opened, Seen
<1>3. Opened = Open(body)[at - 1] /\ Seen = Walk(body)[at - 1]
  BY DEF Opened, Seen
<1> DEFINE open == Open(body)[at - 1]
<1> DEFINE w == Walk(body)[at - 1]
<1>4. /\ Len(open) \in Nat \ {0}
      /\ Len(Open(body)[at]) = Len(open) - 1
      /\ OpenerOf(body, at) = open[Len(open)]
      /\ \A k \in 1 .. Len(open) - 1 : Open(body)[at][k] = open[k]
  BY <1>1, CloseStep
<1>5. /\ \A k \in 0 .. Len(open) - 1 : Depth(Walk(body)[at], k) = Depth(w, k)
      /\ Depth(w, Len(open)) = Depth(w, Len(open) - 1) + Loops(body, open[Len(open)])
      /\ \A k \in 1 .. Len(open) : Walk(body)[at].scopes[k] = w.scopes[k]
  BY <1>1, CloseStep
<1>6. Opened = open /\ Seen = w
  BY <1>3
<1> HIDE DEF open, w
<1> QED
  BY <1>2, <1>4, <1>5, <1>6

(* The step from an else or a declaration to the next statement.           *)
LEMMA ScopeNext ==
  ASSUME Analyzed, Walking, at <= Len(body), at' = at + 1, UNCHANGED body,
         Here.kind \in {"else", "declare"}
  PROVE  /\ Len(Opened) \in Nat
         /\ Opened' = Opened
         /\ Seen'.depths = Seen.depths
         /\ \A k \in 1 .. Len(Opened) : Seen'.scopes[k] = Seen.scopes[k]
         /\ Seen'.scopes[Len(Opened) + 1] =
              IF Here.kind = "else" THEN EmptyScope
              ELSE With(Seen.scopes[Len(Opened) + 1], Here.name, at)
<1>1. /\ at \in 1 .. Len(body) /\ (at + 1) - 1 = at
      /\ body \in Seq(Stmt) /\ WellFormed(body) /\ body[at].kind \in {"else", "declare"}
      /\ Here = body[at]
  BY HereFacts DEF Analyzed, Here
<1>2. Opened' = Open(body)[at] /\ Seen' = Walk(body)[at]
  BY <1>1 DEF Opened, Seen
<1>3. Opened = Open(body)[at - 1] /\ Seen = Walk(body)[at - 1]
  BY DEF Opened, Seen
<1> DEFINE open == Open(body)[at - 1]
<1> DEFINE w == Walk(body)[at - 1]
<1>4. /\ Len(open) \in Nat
      /\ Open(body)[at] = open
      /\ Walk(body)[at].depths = w.depths
      /\ \A k \in 1 .. Len(open) : Walk(body)[at].scopes[k] = w.scopes[k]
  BY <1>1, ScopeStep
<1>5. Walk(body)[at].scopes[Len(open) + 1] =
        IF Here.kind = "else" THEN EmptyScope ELSE With(w.scopes[Len(open) + 1], Here.name, at)
  BY <1>1, ScopeStep
<1>6. Opened = open /\ Seen = w
  BY <1>3
<1> HIDE DEF open, w
<1> QED
  BY <1>2, <1>4, <1>5, <1>6

(* The step over a dead statement, for the statements with frames.         *)
LEMMA SkipNext ==
  ASSUME Analyzed, Walking, SkipDead, UNCHANGED <<body, returnType>>
  PROVE  /\ skipping' \in Nat /\ Len(Opened') = Len(pending) + skipping'
         /\ \A k \in 1 .. Len(pending) : Opened'[k] = Opened[k]
         /\ \A k \in 0 .. Len(pending) : Depth(Seen', k) = Depth(Seen, k)
         /\ \A k \in 1 .. Len(pending) : Seen'.scopes[k] = Seen.scopes[k]
<1> DEFINE n == Len(pending)
<1>1. /\ stage = "lowering" /\ stage' = "lowering" /\ at <= Len(body)
      /\ skipping > 0 \/ (Here.kind \notin {"else", "close"} /\ HasTerminator(current))
      /\ skipping' = skipping + (IF Here.kind \in Openers THEN 1
                                 ELSE IF Here.kind = "close" THEN -1 ELSE 0)
      /\ at' = at + 1
      /\ UNCHANGED <<blocks, current, nextValueId, locals, slots, loopTargets, pending>>
  BY DEF SkipDead
<1>2. /\ at \in 1 .. Len(body) /\ (at + 1) - 1 = at /\ at + 1 \in 1 .. Len(body) + 1
      /\ n \in Nat /\ body[at] \in Stmt /\ Here = body[at]
  BY <1>1, HereFacts DEF Here
<1>3. body \in Seq(Stmt) /\ WellFormed(body)
  BY DEF Analyzed
<1>4. Opened' = Open(body)[at] /\ Seen' = Walk(body)[at]
  BY <1>1, <1>2 DEF Opened, Seen
<1>5. skipping \in Nat /\ Len(Opened) = n + skipping /\ Len(Opened) \in Nat
  BY <1>2 DEF Walking, Stacks
<1> DEFINE m == Len(Opened)
<1>6. m = Len(Open(body)[at - 1])
  BY DEF Opened
<1>7. CASE Here.kind \in Openers
  <2>1. skipping' = skipping + 1
    BY <1>1, <1>7
  <2>2. /\ Len(Opened') = m + 1
        /\ \A k \in 1 .. m : Opened'[k] = Opened[k]
        /\ \A k \in 0 .. m : Depth(Seen', k) = Depth(Seen, k)
        /\ \A k \in 1 .. m + 1 : Seen'.scopes[k] = Seen.scopes[k]
    BY <1>1, <1>7, OpenedNext
  <2>3. 1 .. n \subseteq 1 .. m /\ 0 .. n \subseteq 0 .. m /\ 1 .. n \subseteq 1 .. m + 1
    BY <1>2, <1>5
  <2> QED
    BY <1>2, <1>5, <2>1, <2>2, <2>3
<1>8. CASE Here.kind = "close"
  <2>1. skipping' = skipping - 1 /\ skipping > 0
    BY <1>1, <1>5, <1>8 DEF Openers
  <2>2. /\ Len(Opened') = m - 1
        /\ \A k \in 1 .. m - 1 : Opened'[k] = Opened[k]
        /\ \A k \in 0 .. m - 1 : Depth(Seen', k) = Depth(Seen, k)
        /\ \A k \in 1 .. m : Seen'.scopes[k] = Seen.scopes[k]
    BY <1>1, <1>8, ClosedNext
  <2>3. 1 .. n \subseteq 1 .. m - 1 /\ 0 .. n \subseteq 0 .. m - 1 /\ 1 .. n \subseteq 1 .. m
    BY <1>2, <1>5, <2>1
  <2> QED
    BY <1>2, <1>5, <2>1, <2>2, <2>3
<1>9. CASE Here.kind \in {"else", "declare"}
  <2>1. skipping' = skipping
    BY <1>1, <1>5, <1>9 DEF Openers
  <2>2. /\ Opened' = Opened
        /\ Seen'.depths = Seen.depths
        /\ \A k \in 1 .. m : Seen'.scopes[k] = Seen.scopes[k]
    BY <1>1, <1>9, ScopeNext
  <2>3. 1 .. n \subseteq 1 .. m
    BY <1>2, <1>5
  <2> QED
    BY <1>2, <1>5, <2>1, <2>2, <2>3 DEF Depth
<1>10. CASE Here.kind \notin Openers \cup {"close", "else", "declare"}
  <2>1. skipping' = skipping
    BY <1>1, <1>5, <1>10
  <2>2. Opened' = Opened /\ Seen' = Seen
    BY <1>2, <1>3, <1>4, <1>10, PlainStep DEF Opened, Seen
  <2> QED
    BY <1>5, <2>1, <2>2
<1> QED
  BY <1>7, <1>8, <1>9, <1>10

(* A statement after a terminator is passed over, with what it contains.   *)
LEMMA SkipKeeps ==
  ASSUME Analyzed, Walking, SkipDead, UNCHANGED <<body, returnType>>
  PROVE  Walking'
<1> DEFINE n == Len(pending)
<1>1. /\ stage = "lowering" /\ stage' = "lowering" /\ at <= Len(body)
      /\ skipping > 0 \/ (Here.kind \notin {"else", "close"} /\ HasTerminator(current))
      /\ skipping' = skipping + (IF Here.kind \in Openers THEN 1
                                 ELSE IF Here.kind = "close" THEN -1 ELSE 0)
      /\ at' = at + 1
      /\ UNCHANGED <<blocks, current, nextValueId, locals, slots, loopTargets, pending>>
  BY DEF SkipDead
<1>2. HasTerminator(current) /\ HasTerminator(current)'
  BY <1>1 DEF Walking, Stacks, HasTerminator
<1>3. /\ at \in 1 .. Len(body) /\ (at + 1) - 1 = at /\ at + 1 \in 1 .. Len(body) + 1
      /\ n \in Nat /\ body[at] \in Stmt /\ Here = body[at]
  BY <1>1, HereFacts DEF Here
<1>4. body \in Seq(Stmt) /\ WellFormed(body)
  BY DEF Analyzed
<1>5. Opened' = Open(body)[at] /\ Seen' = Walk(body)[at]
  BY <1>1, <1>3 DEF Opened, Seen
<1>6. skipping \in Nat /\ Len(Opened) = n + skipping /\ Len(Opened) \in Nat
  BY <1>3 DEF Walking, Stacks
<1>7. /\ skipping' \in Nat /\ Len(Opened') = n + skipping'
      /\ \A k \in 1 .. n : Opened'[k] = Opened[k]
      /\ \A k \in 0 .. n : Depth(Seen', k) = Depth(Seen, k)
      /\ \A k \in 1 .. n : Seen'.scopes[k] = Seen.scopes[k]
  BY SkipNext
<1>8. Stacks'
  <2>1. Len(loopTargets') = Depth(Seen', Len(pending'))
    BY <1>1, <1>3, <1>7 DEF Walking, Stacks
  <2>2. \A k \in 1 .. Len(pending') : pending'[k].kind = body'[Opened'[k]].kind
    BY <1>1, <1>7 DEF Walking, Stacks
  <2> QED
    BY <1>1, <1>2, <1>3, <1>7, <2>1, <2>2 DEF Walking, Stacks
<1>9. Graph'
  <2>1. ASSUME NEW k \in 1 .. n
        PROVE  Waits'[k] = Waits[k]
    <3>1. ~ (body[at].kind = "else" /\ OpenerOf(body, at) = Opened[k])
      <4>1. ASSUME body[at].kind = "else", OpenerOf(body, at) = Opened[k]
            PROVE  FALSE
        <5>1. skipping > 0
          BY <1>1, <1>3, <4>1
        <5>2. k \in 1 .. Len(Opened) /\ k # Len(Opened)
          BY <1>3, <1>6, <5>1
        <5> QED
          BY <1>1, <4>1, <5>2, ElseIsInnermost
      <4> QED
        BY <4>1
    <3> QED
      BY <1>1, <1>7, <3>1, WaitStays
  <2>2. Waits' = Waits
    BY <1>1, <2>1 DEF Waits
  <2>3. \A k \in 1 .. Len(pending') :
          /\ pending'[k].next < Len(blocks') /\ pending'[k].else < Len(blocks')
          /\ body'[Opened'[k]].hasElse => pending'[k].next # pending'[k].else
    BY <1>1, <1>7 DEF Walking, Graph
  <2> QED
    BY <1>1, <2>2, <2>3 DEF Walking, Graph
<1>10. Code'
  BY <1>1, CodeThere DEF Walking, Code
<1>11. Agreement'
  <2>1. Used = n /\ Used' = n
    BY <1>1, <1>2, <1>3 DEF Used
  <2>2. \A d \in 1 .. n : SameScope(slots[d], Seen.scopes[d], locals)
    BY <2>1 DEF Walking, Agreement
  <2>3. \A d \in 1 .. n : SameScope(slots'[d], Seen'.scopes[d], locals')
    BY <1>1, <1>7, <2>2
  <2> QED
    BY <1>1, <2>1, <2>3 DEF Walking, Agreement
<1> QED
  BY <1>1, <1>8, <1>9, <1>10, <1>11 DEF Walking

(* The first step: one empty block, and the parameter.                     *)
LEMMA StartKeeps ==
  ASSUME Analyzed, LoweringInit, StartFunction, UNCHANGED <<body, returnType>>
  PROVE  Walking'
<1>1. /\ at' = 1 /\ skipping' = 0 /\ current' = 0 /\ nextValueId' = 0
      /\ loopTargets' = << >> /\ pending' = << >> /\ stage' = "lowering"
      /\ blocks' = NewBlocks(0, 1) /\ locals' = <<0>>
      /\ slots' = <<With(<< >>, Param, 0)>>
  BY DEF LoweringInit, StartFunction
<1>2. Opened' = << >> /\ Seen' = WalkStart
  BY <1>1, OpenFacts, WalkFacts DEF Opened, Seen, Analyzed
<1>3. Len(body) \in Nat
  BY LengthFacts DEF Analyzed
<1>4. /\ Len(pending') = 0 /\ Len(loopTargets') = 0 /\ Len(slots') = 1 /\ Len(locals') = 1
      /\ Len(Opened') = 0
      /\ slots'[1] = With(<< >>, Param, 0) /\ locals'[1] = 0
  BY <1>1, <1>2
<1>5. Stacks'
  <2>1. pending' \in Seq(Frame) /\ loopTargets' \in Seq(LoopTarget) /\ locals' \in Seq(Nat)
    BY <1>1
  <2>2. slots' \in Seq(Scope)
    BY <1>1, NewScopes
  <2>3. Len(loopTargets') = Depth(Seen', Len(pending'))
    BY <1>4 DEF Depth
  <2>4. at' \in 1 .. Len(body') + 1
    BY <1>1, <1>3
  <2> QED
    BY <1>1, <1>4, <2>1, <2>2, <2>3, <2>4 DEF Stacks
<1> DEFINE none == << >>
<1>6. none \in Seq(Block) /\ Len(none) = 0
  OBVIOUS
<1>7. BlocksFine(none, 0, 1)
  <2> HIDE DEF none
  <2> QED
    BY <1>6 DEF BlocksFine
<1>8. blocks' = none \o NewBlocks(Len(none), 1)
  <2>1. NewBlocks(0, 1) \in Seq(Block)
    <3>1. \A i \in 1 .. 1 : [id |-> 0 + i - 1, code |-> << >>, term |-> NoTerminator] \in Block
      BY DEF Block, NoTerminator, Terminator, None
    <3> QED
      BY <3>1 DEF NewBlocks
  <2> QED
    BY <1>1, <1>6, <2>1
<1> HIDE DEF none
<1>9. /\ BlocksFine(blocks', 0, 1)
      /\ Len(blocks') = 1
      /\ Unfinished(blocks') = {0}
  <2> DEFINE n == 0
  <2> DEFINE m == 1
  <2>4. m \in Nat /\ BlocksFine(none, n, m)
    BY <1>7
  <2> HIDE DEF n, m
  <2>5. /\ BlocksFine(none \o NewBlocks(Len(none), m), n, m)
        /\ Len(none \o NewBlocks(Len(none), m)) = Len(none) + m
        /\ Unfinished(none \o NewBlocks(Len(none), m)) = Unfinished(none) \cup NewIds(Len(none), m)
    BY <2>4, GrowKeeps
  <2>1. /\ BlocksFine(none \o NewBlocks(Len(none), 1), 0, 1)
        /\ Len(none \o NewBlocks(Len(none), 1)) = Len(none) + 1
        /\ Unfinished(none \o NewBlocks(Len(none), 1)) = Unfinished(none) \cup NewIds(Len(none), 1)
    BY <2>5 DEF n, m
  <2>2. Unfinished(none) = {}
    BY <1>6 DEF Unfinished
  <2>3. NewIds(Len(none), 1) = {0}
    BY <1>6 DEF NewIds
  <2> QED
    BY <1>6, <1>8, <2>1, <2>2, <2>3
<1>10. Code'
  BY <1>1, <1>4, <1>9, CodeThere
<1>11. Graph'
  <2>1. \A w : WaitsFit({0}, 0, w, 0)
    BY DEF WaitsFit
  <2>2. WaitsFit(Unfinished(blocks'), current', Waits', Len(pending'))
    BY <1>1, <1>4, <1>9, <2>1
  <2>3. current' \in 0 .. Len(blocks') - 1
    BY <1>1, <1>9
  <2>4. /\ \A k \in 1 .. Len(pending') : FALSE
        /\ \A k \in 1 .. Len(loopTargets') : FALSE
    BY <1>4
  <2> QED
    BY <2>2, <2>3, <2>4 DEF Graph
<1>12. Agreement'
  <2>1. /\ DOMAIN With(<< >>, Param, 0) = {Param}
        /\ With(<< >>, Param, 0)[Param] = 0
    BY DEF With
  <2>2. SlotsBelow(slots', Len(locals'))
    BY <1>4, <2>1 DEF SlotsBelow
  <2>3. Seen'.scopes[1] = With(<< >>, Param, 0)
    BY <1>2 DEF WalkStart
  <2>4. SameScope(slots'[1], Seen'.scopes[1], locals')
    BY <1>4, <2>1, <2>3 DEF SameScope
  <2>5. Used' = 0 \/ Used' = 1
    BY <1>4 DEF Used
  <2>6. \A d \in 1 .. Used' : SameScope(slots'[d], Seen'.scopes[d], locals')
    BY <2>4, <2>5
  <2> QED
    BY <2>2, <2>6 DEF Agreement
<1> QED
  BY <1>1, <1>5, <1>10, <1>11, <1>12 DEF Walking

-----------------------------------------------------------------------------
(* Fine blocks stay fine when there is another local.                      *)
LEMMA LocalKeeps ==
  ASSUME NEW bs, NEW n, NEW m, BlocksFine(bs, n, m)
  PROVE  BlocksFine(bs, n, m + 1)
<1>1. n \in Nat /\ m \in Nat /\ m + 1 \in Nat /\ m <= m + 1 /\ n <= n
  BY DEF BlocksFine
<1>2. \A i \in 1 .. Len(bs) : CodeFine(bs[i].code, n, m + 1)
  BY <1>1, CodeStaysFine DEF BlocksFine
<1> QED
  BY <1>1, <1>2 DEF BlocksFine

(* The scopes once a name is declared in the innermost one.                *)
LEMMA DeclaredFacts ==
  ASSUME NEW s \in Seq(Scope), s # << >>, NEW x \in Name, NEW v \in Nat
  PROVE  LET t == WithLast(s, With(s[Len(s)], x, v)) IN
         /\ t \in Seq(Scope) /\ Len(t) = Len(s)
         /\ \A d \in 1 .. Len(s) - 1 : t[d] = s[d]
         /\ t[Len(s)] = With(s[Len(s)], x, v)
<1> DEFINE new == With(s[Len(s)], x, v)
<1>1. s[Len(s)] \in Scope
  BY LengthFacts
<1>2. new \in Scope
  BY <1>1, ScopeFacts
<1> HIDE DEF new
<1>3. /\ WithLast(s, new) \in Seq(Scope)
      /\ Len(WithLast(s, new)) = Len(s)
      /\ \A k \in 1 .. Len(s) - 1 : WithLast(s, new)[k] = s[k]
  BY <1>2, WithLastFacts
<1>4. WithLast(s, new)[Len(s)] = new
  BY <1>2, WithLastFacts
<1> QED
  BY <1>3, <1>4 DEF new

(* More names in the scopes: what was known still is.                      *)
LEMMA KnownInMore ==
  ASSUME NEW s \in Seq(Scope), NEW t \in Seq(Scope), Len(s) = Len(t),
         \A d \in 1 .. Len(s) : DOMAIN s[d] \subseteq DOMAIN t[d], NEW e, Known(e, s)
  PROVE  Known(e, t)
<1>1. LookupLocal(s, e[2]) # None => \E d \in 1 .. Len(s) : e[2] \in DOMAIN s[d]
  BY LookupFacts
<1>2. LookupLocal(t, e[2]) = None => \A d \in 1 .. Len(t) : e[2] \notin DOMAIN t[d]
  BY LookupFacts
<1> QED
  BY <1>1, <1>2 DEF Known

(* Declaring: the name gets the next slot before the initializer is        *)
(* lowered.                                                                *)
LEMMA DeclareKeeps ==
  ASSUME Analyzed, Walking, LowerDeclare, UNCHANGED <<body, returnType>>
  PROVE  Walking'
<1> DEFINE n == Len(pending)
<1> DEFINE local == Len(locals)
<1> DEFINE scopes == [slots EXCEPT ![Len(slots)] = With(@, Here.name, local)]
<1> DEFINE value == ValueOf(Here.expr, nextValueId)
<1> DEFINE code == ExprCode(Here.expr, nextValueId, scopes)
<1> DEFINE fine == Here.name \notin DOMAIN Last(slots) /\ Known(Here.expr, scopes)
<1>1. /\ Lower("declare", fine)
      /\ locals' = Append(locals, at)
      /\ slots' = scopes
      /\ blocks' = Extended(blocks, current, Append(code, Store(local, value)))
      /\ nextValueId' = value + 1
      /\ UNCHANGED <<current, loopTargets, pending>>
  BY DEF LowerDeclare
<1>2. fine \in BOOLEAN
  OBVIOUS
<1> HIDE DEF fine
<1>3. /\ at <= Len(body) /\ skipping = 0 /\ ~ HasTerminator(current)
      /\ Here.kind = "declare" /\ body[at].kind = "declare" /\ Here = body[at] /\ Here \in Stmt
      /\ at' = at + 1 /\ skipping' = skipping
      /\ fine => stage' = "lowering"
      /\ Resolved(body, at)
  BY <1>1, <1>2, Reached
<1>4. Here.expr \in Expr /\ Here.expr # NoExpr /\ Here.name \in Name
  BY <1>3, StmtFacts, SomeExpr
<1>5. /\ current \in 0 .. Len(blocks) - 1 /\ current \in Unfinished(blocks)
      /\ Len(Opened) = n /\ n \in Nat
      /\ slots \in Seq(Scope) /\ Len(slots) = n + 1
      /\ Seen.scopes \in Seq(Scope) /\ Len(Seen.scopes) = n + 1
      /\ BlocksFine(blocks, nextValueId, local)
      /\ nextValueId \in Nat
      /\ at \in 1 .. Len(body) /\ at \in Nat /\ at + 1 \in 1 .. Len(body) + 1
  BY <1>3, LiveFacts, HereFacts DEF Walking, Code
<1>6. /\ locals \in Seq(Nat) /\ local \in Nat
      /\ SlotsBelow(slots, local)
  BY LengthFacts DEF Walking, Stacks, Agreement
<1>7. \A d \in 1 .. n + 1 : SameScope(slots[d], Seen.scopes[d], locals)
  BY <1>3, <1>5, LiveFacts
<1>8. Here.name \notin DOMAIN slots[n + 1] /\ Last(slots) = slots[n + 1]
  <2>1. Here.name \notin DOMAIN Last(Seen.scopes)
    BY <1>3 DEF Resolved, Seen
  <2>2. Last(Seen.scopes) = Seen.scopes[n + 1] /\ Last(slots) = slots[n + 1]
    BY <1>5 DEF Last
  <2>3. n + 1 \in 1 .. n + 1
    BY <1>5
  <2> QED
    BY <1>7, <2>1, <2>2, <2>3 DEF SameScope
<1>9. /\ scopes \in Seq(Scope) /\ Len(scopes) = n + 1
      /\ \A d \in 1 .. n : scopes[d] = slots[d]
      /\ DOMAIN scopes[n + 1] = DOMAIN slots[n + 1] \cup {Here.name}
      /\ \A y \in DOMAIN slots[n + 1] : scopes[n + 1][y] = slots[n + 1][y]
      /\ scopes[n + 1][Here.name] = local
  <2>1. slots # << >> /\ Len(slots) = n + 1 /\ Len(slots) - 1 = n
    BY <1>5
  <2> HIDE DEF local
  <2>4. scopes = WithLast(slots, With(slots[Len(slots)], Here.name, local))
    BY DEF WithLast
  <2> HIDE DEF scopes
  <2>2. /\ scopes \in Seq(Scope) /\ Len(scopes) = Len(slots)
        /\ \A d \in 1 .. Len(slots) - 1 : scopes[d] = slots[d]
        /\ scopes[Len(slots)] = With(slots[Len(slots)], Here.name, local)
    BY <1>4, <1>5, <1>6, <2>1, <2>4, DeclaredFacts
  <2> HIDE DEF scopes, n
  <2>3. /\ scopes \in Seq(Scope) /\ Len(scopes) = n + 1
        /\ \A d \in 1 .. n : scopes[d] = slots[d]
        /\ scopes[n + 1] = With(slots[n + 1], Here.name, local)
    BY <2>1, <2>2
  <2> QED
    BY <1>8, <2>3 DEF With
<1> HIDE DEF scopes
<1>10. SlotsBelow(scopes, local + 1)
  <2>1. ASSUME NEW d \in 1 .. n + 1, NEW x \in DOMAIN scopes[d]
        PROVE  scopes[d][x] \in 0 .. local
    <3>1. CASE x \in DOMAIN slots[d] /\ scopes[d][x] = slots[d][x]
      <4>1. slots[d][x] \in 0 .. local - 1
        BY <1>5, <1>6, <3>1 DEF SlotsBelow
      <4> QED
        BY <1>6, <3>1, <4>1
    <3>2. CASE d = n + 1 /\ x = Here.name
      BY <1>6, <1>9, <3>2
    <3>3. d \in 1 .. n \/ d = n + 1
      BY <1>5
    <3> QED
      BY <1>9, <3>1, <3>2, <3>3
  <2>2. (local + 1) - 1 = local
    BY <1>6
  <2> QED
    BY <1>9, <2>1, <2>2 DEF SlotsBelow
<1>11. Known(Here.expr, scopes)
  <2>1. Known(Here.expr, Seen.scopes)
    BY <1>3, <1>4 DEF Resolved, Seen
  <2>2. Known(Here.expr, slots)
    BY <1>3, <2>1, LiveFacts
  <2>3. \A d \in 1 .. n + 1 : DOMAIN slots[d] \subseteq DOMAIN scopes[d]
    <3>1. \A d \in 1 .. n + 1 : d \in 1 .. n \/ d = n + 1
      BY <1>5
    <3> QED
      BY <1>9, <3>1
  <2> QED
    BY <1>5, <1>9, <2>2, <2>3, KnownInMore
<1>12. fine /\ stage' = "lowering"
  BY <1>3, <1>8, <1>11 DEF fine
<1>13. /\ Fresh(code, nextValueId, value + 1, local + 1)
       /\ Makes(code, value) /\ value \in Nat
  <2>1. local + 1 \in Nat
    BY <1>6
  <2> HIDE DEF local
  <2> QED
    BY <1>4, <1>5, <1>9, <1>10, <1>11, <2>1, ExprFresh
<1> HIDE DEF value, code
<1>14. Fresh(Append(code, Store(local, value)), nextValueId, value + 1, local + 1)
  <2>1. /\ Store(local, value) \in Instruction /\ Store(local, value).def = None
        /\ Store(local, value).slot = local /\ Store(local, value).uses = {value}
    BY <1>6, <1>13, StoreFits
  <2>2. local \in 0 .. (local + 1) - 1
    BY <1>6
  <2> HIDE DEF local
  <2> QED
    BY <1>13, <2>1, <2>2, UseFollows
<1>15. /\ BlocksFine(blocks', value + 1, local + 1)
       /\ Len(blocks') = Len(blocks)
       /\ Unfinished(blocks') = Unfinished(blocks)
  <2>1. BlocksFine(blocks, nextValueId, local + 1)
    BY <1>5, LocalKeeps
  <2> HIDE DEF local
  <2> QED
    BY <1>1, <1>5, <1>14, <2>1, ExtendKeeps
<1>16. /\ locals' \in Seq(Nat) /\ Len(locals') = local + 1
       /\ \A k \in 1 .. local : locals'[k] = locals[k]
       /\ locals'[local + 1] = at
  BY <1>1, <1>5, <1>6
<1>17. Code'
  BY <1>1, <1>15, <1>16, CodeThere
<1>18. /\ Opened' = Opened
       /\ Seen'.depths = Seen.depths
       /\ \A k \in 1 .. n : Seen'.scopes[k] = Seen.scopes[k]
       /\ Seen'.scopes[n + 1] = With(Seen.scopes[n + 1], Here.name, at)
  <2>1. /\ Opened' = Opened
        /\ Seen'.depths = Seen.depths
        /\ \A k \in 1 .. Len(Opened) : Seen'.scopes[k] = Seen.scopes[k]
        /\ Seen'.scopes[Len(Opened) + 1] = With(Seen.scopes[Len(Opened) + 1], Here.name, at)
    BY <1>3, ScopeNext
  <2> QED
    BY <1>5, <2>1
<1>19. ~ HasTerminator(current)' /\ current' = current
  <2>1. current \in Unfinished(blocks')
    BY <1>5, <1>15
  <2> QED
    BY <1>1, <2>1 DEF HasTerminator, Unfinished
<1>20. Stacks'
  <2>1. Len(loopTargets') = Depth(Seen', Len(pending'))
    BY <1>1, <1>18 DEF Walking, Stacks, Depth
  <2>2. \A k \in 1 .. Len(pending') : pending'[k].kind = body'[Opened'[k]].kind
    BY <1>1, <1>18 DEF Walking, Stacks
  <2>3. slots' \in Seq(Scope) /\ Len(slots') = Len(pending') + 1
    BY <1>1, <1>9
  <2> QED
    BY <1>1, <1>3, <1>5, <1>16, <1>18, <2>1, <2>2, <2>3 DEF Walking, Stacks
<1>21. Graph'
  <2>1. ASSUME NEW k \in 1 .. n
        PROVE  Waits'[k] = Waits[k]
    BY <1>1, <1>3, <1>18, WaitStays
  <2>2. Waits' = Waits
    BY <1>1, <2>1 DEF Waits
  <2>3. \A k \in 1 .. Len(pending') :
          /\ pending'[k].next < Len(blocks') /\ pending'[k].else < Len(blocks')
          /\ body'[Opened'[k]].hasElse => pending'[k].next # pending'[k].else
    BY <1>1, <1>15, <1>18 DEF Walking, Graph
  <2>4. WaitsFit(Unfinished(blocks'), current', Waits', Len(pending'))
    BY <1>1, <1>15, <2>2 DEF Walking, Graph
  <2> QED
    BY <1>1, <1>15, <2>3, <2>4 DEF Walking, Graph
<1>22. Agreement'
  <2>1. SlotsBelow(slots', Len(locals'))
    BY <1>1, <1>10, <1>16
  <2>2. Used' = n + 1
    BY <1>1, <1>19 DEF Used
  <2>3. ASSUME NEW d \in 1 .. n + 1
        PROVE  SameScope(slots'[d], Seen'.scopes[d], locals')
    <3>1. /\ DOMAIN slots[d] = DOMAIN Seen.scopes[d]
          /\ \A x \in DOMAIN slots[d] : locals[slots[d][x] + 1] = Seen.scopes[d][x]
      BY <1>7 DEF SameScope
    <3>2. ASSUME NEW x \in DOMAIN slots[d]
          PROVE  locals'[slots[d][x] + 1] = Seen.scopes[d][x]
      <4>1. slots[d][x] \in 0 .. local - 1
        BY <1>5, <1>6 DEF SlotsBelow
      <4>2. slots[d][x] + 1 \in 1 .. local
        BY <1>6, <4>1
      <4> QED
        BY <1>16, <3>1, <4>2
    <3>3. CASE d = n + 1
      <4>1. /\ DOMAIN Seen'.scopes[d] = DOMAIN Seen.scopes[d] \cup {Here.name}
            /\ \A x \in DOMAIN Seen.scopes[d] : Seen'.scopes[d][x] = Seen.scopes[d][x]
            /\ Seen'.scopes[d][Here.name] = at
        BY <1>8, <1>18, <3>1, <3>3 DEF With
      <4>2. /\ DOMAIN slots'[d] = DOMAIN slots[d] \cup {Here.name}
            /\ \A x \in DOMAIN slots[d] : slots'[d][x] = slots[d][x]
            /\ slots'[d][Here.name] = local
        BY <1>1, <1>9, <3>3
      <4> QED
        BY <1>16, <3>1, <3>2, <4>1, <4>2 DEF SameScope
    <3>4. CASE d # n + 1
      <4>1. d \in 1 .. n
        BY <1>5, <3>4
      <4>2. slots'[d] = slots[d] /\ Seen'.scopes[d] = Seen.scopes[d]
        BY <1>1, <1>9, <1>18, <4>1
      <4> QED
        BY <3>1, <3>2, <4>2 DEF SameScope
    <3> QED
      BY <3>3, <3>4
  <2> QED
    BY <2>1, <2>2, <2>3 DEF Agreement
<1> QED
  BY <1>12, <1>17, <1>20, <1>21, <1>22 DEF Walking

(* The blocks that a statement waits for when it has just been opened.     *)
LEMMA NewWait ==
  ASSUME Analyzed, Walking, at <= Len(body), NEW frame, frame.kind = Here.kind
  PROVE  WaitOf(frame, at, at) = IF Here.kind = "block" THEN {}
                                 ELSE IF Here.hasElse THEN {frame.next, frame.else}
                                 ELSE {frame.next}
<1>1. ~ Passed(body, at, at)
  BY HereFacts, PassedFacts DEF Analyzed
<1> QED
  BY <1>1 DEF WaitOf, Here

(* A statement is opened: what it waits for is added to the waits of the   *)
(* statements around it.                                                   *)
LEMMA PushKeeps ==
  ASSUME Analyzed, Walking, at <= Len(body), skipping = 0, ~ HasTerminator(current),
         Here.kind \in Openers,
         NEW frame \in Frame, frame.kind = Here.kind,
         slots' = Append(slots, << >>), pending' = Append(pending, frame),
         stage' = "lowering", at' = at + 1,
         UNCHANGED <<body, returnType, skipping, locals>>,
         loopTargets' \in Seq(LoopTarget),
         Len(loopTargets') = Len(loopTargets) + Loops(body, at),
         \A k \in 1 .. Len(loopTargets') :
           loopTargets'[k].continue < Len(blocks') /\ loopTargets'[k].break < Len(blocks'),
         Code', Len(blocks) <= Len(blocks'), current' \in 0 .. Len(blocks') - 1,
         frame.next < Len(blocks'), frame.else < Len(blocks'),
         Here.hasElse => frame.next # frame.else,
         ~ HasTerminator(current)',
         \A waits : (\A k \in 1 .. Len(pending) : waits[k] = Waits[k])
                      /\ waits[Len(pending) + 1] = WaitOf(frame, at, at)
                    => WaitsFit(Unfinished(blocks'), current', waits, Len(pending) + 1)
  PROVE  Walking'
<1> DEFINE n == Len(pending)
<1>1. /\ Len(Opened) = n /\ n \in Nat
      /\ slots \in Seq(Scope) /\ Len(slots) = n + 1
      /\ \A d \in 1 .. n + 1 : SameScope(slots[d], Seen.scopes[d], locals)
      /\ at \in 1 .. Len(body) /\ at + 1 \in 1 .. Len(body) + 1 /\ (at + 1) - 1 = at
      /\ Here = body[at]
  BY LiveFacts, HereFacts DEF Here
<1>2. /\ pending \in Seq(Frame) /\ locals \in Seq(Nat) /\ skipping \in Nat
      /\ Len(loopTargets) = Depth(Seen, n)
      /\ \A k \in 1 .. n : pending[k].kind = body[Opened[k]].kind
  BY DEF Walking, Stacks
<1>3. /\ Len(Opened') = n + 1
      /\ \A k \in 1 .. n : Opened'[k] = Opened[k]
      /\ Opened'[n + 1] = at
      /\ Depth(Seen', n + 1) = Depth(Seen, n) + Loops(body, at)
      /\ \A k \in 1 .. n + 1 : Seen'.scopes[k] = Seen.scopes[k]
      /\ Seen'.scopes[n + 2] = EmptyScope
  BY <1>1, OpenedNext
<1>4. /\ pending' \in Seq(Frame) /\ Len(pending') = n + 1
      /\ \A k \in 1 .. n : pending'[k] = pending[k]
      /\ pending'[n + 1] = frame
  BY <1>1, <1>2
<1>5. /\ slots' \in Seq(Scope) /\ Len(slots') = n + 2
      /\ \A k \in 1 .. n + 1 : slots'[k] = slots[k]
      /\ slots'[n + 2] = EmptyScope
  <2>1. EmptyScope \in Scope /\ slots' = Append(slots, EmptyScope) /\ n + 2 = Len(slots) + 1
    BY <1>1, NewScopes DEF EmptyScope
  <2> HIDE DEF n
  <2> QED
    BY <1>1, <2>1
<1>6. \A k \in 1 .. n + 1 : k \in 1 .. n \/ k = n + 1
  BY <1>1
<1>7. Stacks'
  <2>1. \A k \in 1 .. n + 1 : pending'[k].kind = body[Opened'[k]].kind
    BY <1>1, <1>2, <1>3, <1>4, <1>6
  <2>2. Len(loopTargets') = Depth(Seen', Len(pending'))
    BY <1>2, <1>3, <1>4
  <2>3. Len(Opened') = Len(pending') + skipping' /\ skipping' = 0 /\ skipping' \in Nat
    BY <1>2, <1>3, <1>4
  <2>4. Len(slots') = Len(pending') + 1
    BY <1>1, <1>4, <1>5
  <2> QED
    BY <1>1, <1>2, <1>4, <1>5, <2>1, <2>2, <2>3, <2>4 DEF Stacks
<1>8. Graph'
  <2>1. ASSUME NEW k \in 1 .. n
        PROVE  Waits'[k] = Waits[k]
    <3>1. k \in 1 .. Len(pending') /\ pending'[k] = pending[k] /\ Opened'[k] = Opened[k]
      BY <1>1, <1>3, <1>4
    <3>2. body[at].kind # "else"
      BY <1>1 DEF Openers
    <3> QED
      BY <3>1, <3>2, WaitStays
  <2>2. Waits'[n + 1] = WaitOf(frame, at, at)
    <3>1. \A f, j, i : WaitOf(f, j, i)' = WaitOf(f, j, i)
      BY DEF WaitOf, Passed
    <3>2. (at - 1)' = at /\ n + 1 \in 1 .. Len(pending')
      BY <1>1, <1>4
    <3> QED
      BY <1>3, <1>4, <3>1, <3>2 DEF Waits
  <2>3. WaitsFit(Unfinished(blocks'), current', Waits', Len(pending'))
    BY <1>4, <2>1, <2>2
  <2>4. ASSUME NEW k \in 1 .. n + 1
        PROVE  /\ pending'[k].next < Len(blocks') /\ pending'[k].else < Len(blocks')
               /\ body[Opened'[k]].hasElse => pending'[k].next # pending'[k].else
    <3>1. CASE k = n + 1
      BY <1>1, <1>3, <1>4, <3>1
    <3>2. CASE k \in 1 .. n
      <4>1. /\ pending[k].next < Len(blocks) /\ pending[k].else < Len(blocks)
            /\ body[Opened[k]].hasElse => pending[k].next # pending[k].else
        BY <3>2 DEF Walking, Graph
      <4>2. pending[k].next \in Nat /\ pending[k].else \in Nat
        <5>1. pending[k] \in Frame
          BY <1>2, <3>2, LengthFacts
        <5> QED
          BY <5>1 DEF Frame
      <4>3. Len(blocks) \in Nat /\ Len(blocks') \in Nat
        BY HereFacts, LengthFacts DEF Code, BlocksFine
      <4>4. pending'[k] = pending[k] /\ Opened'[k] = Opened[k]
        BY <1>3, <1>4, <3>2
      <4> QED
        BY <4>1, <4>2, <4>3, <4>4
    <3> QED
      BY <1>6, <3>1, <3>2
  <2> QED
    BY <1>4, <2>3, <2>4 DEF Graph
<1>9. Agreement'
  <2>1. SlotsBelow(slots', Len(locals'))
    <3>1. \A d \in 1 .. n + 2 : d \in 1 .. n + 1 \/ d = n + 2
      BY <1>1
    <3>2. SlotsBelow(slots, Len(locals))
      BY DEF Walking, Agreement
    <3>3. \A d \in 1 .. n + 1 : \A x \in DOMAIN slots'[d] : slots'[d][x] \in 0 .. Len(locals) - 1
      BY <1>1, <1>5, <3>2 DEF SlotsBelow
    <3>4. DOMAIN slots'[n + 2] = {}
      BY <1>5, NewScopes
    <3> QED
      BY <1>5, <3>1, <3>3, <3>4 DEF SlotsBelow
  <2>2. Used' = n + 2
    BY <1>1, <1>4 DEF Used
  <2>3. \A d \in 1 .. n + 1 : SameScope(slots'[d], Seen'.scopes[d], locals')
    BY <1>1, <1>3, <1>5
  <2>4. SameScope(slots'[n + 2], Seen'.scopes[n + 2], locals')
    BY <1>3, <1>5, NewScopes DEF SameScope
  <2>5. \A d \in 1 .. n + 2 : d \in 1 .. n + 1 \/ d = n + 2
    BY <1>1
  <2> QED
    BY <2>1, <2>2, <2>3, <2>4, <2>5 DEF Agreement
<1> QED
  BY <1>7, <1>8, <1>9 DEF Walking

-----------------------------------------------------------------------------
(* A block needs a scope and nothing else.                                 *)
LEMMA BlockKeeps ==
  ASSUME Analyzed, Walking, LowerBlock, UNCHANGED <<body, returnType>>
  PROVE  Walking'
<1> DEFINE frame == [kind |-> "block", next |-> current, else |-> current]
<1>1. /\ Lower("block", TRUE)
      /\ slots' = Append(slots, << >>) /\ pending' = Append(pending, frame)
      /\ UNCHANGED <<blocks, current, nextValueId, locals, loopTargets>>
  BY DEF LowerBlock, Push
<1>2. /\ at <= Len(body) /\ skipping = 0 /\ ~ HasTerminator(current)
      /\ Here.kind = "block" /\ body[at].kind = "block" /\ Here = body[at] /\ Here \in Stmt
      /\ at' = at + 1 /\ skipping' = skipping /\ stage' = "lowering"
  BY <1>1, Reached
<1>3. current \in 0 .. Len(blocks) - 1 /\ Len(blocks) \in Nat /\ Len(pending) \in Nat
  BY <1>2, LiveFacts, HereFacts
<1>4. frame \in Frame /\ frame.kind = Here.kind /\ Here.kind \in Openers
  BY <1>2, <1>3 DEF Frame, Openers
<1>5. ~ Here.hasElse
  BY <1>2, StmtFacts
<1>6. frame.next = current /\ frame.else = current
  OBVIOUS
<1>7. WaitOf(frame, at, at) = {}
  BY <1>2, <1>4, NewWait
<1>8. Code'
  BY <1>1, CodeThere DEF Walking, Code
<1>9. ~ HasTerminator(current)'
  BY <1>1, <1>2 DEF HasTerminator
<1>10. Loops(body, at) = 0
  BY <1>2 DEF Loops
<1>11. /\ loopTargets' \in Seq(LoopTarget) /\ Len(loopTargets') = Len(loopTargets) + Loops(body, at)
       /\ \A k \in 1 .. Len(loopTargets') :
            loopTargets'[k].continue < Len(blocks') /\ loopTargets'[k].break < Len(blocks')
  BY <1>1, <1>10, LengthFacts DEF Walking, Stacks, Graph
<1> HIDE DEF frame
<1>12. ASSUME NEW waits, \A k \in 1 .. Len(pending) : waits[k] = Waits[k],
              waits[Len(pending) + 1] = WaitOf(frame, at, at)
       PROVE  WaitsFit(Unfinished(blocks'), current', waits, Len(pending) + 1)
  <2>1. WaitsFit(Unfinished(blocks), current, Waits, Len(pending))
    BY DEF Walking, Graph
  <2> QED
    BY <1>1, <1>3, <1>7, <1>12, <2>1, PushNoneFits
<1>13. /\ Len(blocks) <= Len(blocks') /\ current' \in 0 .. Len(blocks') - 1
       /\ frame.next < Len(blocks') /\ frame.else < Len(blocks')
  BY <1>1, <1>3, <1>6
<1> QED
  BY <1>1, <1>2, <1>4, <1>5, <1>8, <1>9, <1>11, <1>12, <1>13, PushKeeps

(* A block that ends before others are created might as well end after.    *)
LEMMA GrowThenEnd ==
  ASSUME NEW bs \in Seq(Block), NEW id \in 0 .. Len(bs) - 1, NEW term \in Terminator, NEW k \in Nat
  PROVE  Ended(bs, id, term) \o NewBlocks(Len(bs), k) = Ended(bs \o NewBlocks(Len(bs), k), id, term)
<1> DEFINE n == Len(bs)
<1> DEFINE g == bs \o NewBlocks(n, k)
<1> DEFINE e == Ended(bs, id, term)
<1> DEFINE l == e \o NewBlocks(n, k)
<1> DEFINE r == Ended(g, id, term)
<1> DEFINE new(i) == [id |-> i - 1, code |-> << >>, term |-> NoTerminator]
<1>1. n \in Nat /\ id + 1 \in 1 .. n
  BY LengthFacts
<1>2. /\ e \in Seq(Block) /\ Len(e) = n
      /\ \A i \in 1 .. n : /\ e[i].id = bs[i].id /\ e[i].code = bs[i].code
                           /\ e[i].term = IF i = id + 1 THEN term ELSE bs[i].term
  BY EndedFacts
<1>3. /\ g \in Seq(Block) /\ Len(g) = n + k
      /\ \A i \in 1 .. n + k : g[i] = IF i <= n THEN bs[i] ELSE new(i)
  BY GrownFacts
<1>4. /\ l \in Seq(Block) /\ Len(l) = n + k
      /\ \A i \in 1 .. n + k : l[i] = IF i <= n THEN e[i] ELSE new(i)
  <2>1. e \in Seq(Block) /\ Len(e) = n /\ k \in Nat
    BY <1>2
  <2> HIDE DEF e
  <2>2. /\ e \o NewBlocks(Len(e), k) \in Seq(Block)
        /\ Len(e \o NewBlocks(Len(e), k)) = Len(e) + k
        /\ \A i \in 1 .. Len(e) + k :
             (e \o NewBlocks(Len(e), k))[i] = IF i <= Len(e) THEN e[i] ELSE new(i)
    BY <2>1, GrownFacts
  <2> QED
    BY <2>1, <2>2
<1> HIDE DEF g, n
<1>5. id \in 0 .. Len(g) - 1
  BY <1>1, <1>3
<1>6. /\ r \in Seq(Block) /\ Len(r) = n + k
      /\ \A i \in 1 .. n + k : /\ r[i].id = g[i].id /\ r[i].code = g[i].code
                               /\ r[i].term = IF i = id + 1 THEN term ELSE g[i].term
  <2>1. /\ r \in Seq(Block) /\ Len(r) = Len(g)
        /\ \A i \in 1 .. Len(g) : /\ r[i].id = g[i].id /\ r[i].code = g[i].code
                                  /\ r[i].term = IF i = id + 1 THEN term ELSE g[i].term
    BY <1>3, <1>5, EndedFacts
  <2> QED
    BY <1>3, <2>1
<1> HIDE DEF l, r, e
<1>7. ASSUME NEW i \in 1 .. n + k
      PROVE  l[i] = r[i]
  <2>1. l[i] \in Block /\ r[i] \in Block
    BY <1>4, <1>6, LengthFacts
  <2>2. l[i].id = r[i].id /\ l[i].code = r[i].code /\ l[i].term = r[i].term
    <3>1. CASE i <= n
      <4>1. i \in 1 .. n
        BY <1>1, <3>1
      <4>2. l[i] = e[i] /\ g[i] = bs[i]
        BY <1>3, <1>4, <3>1
      <4>3. /\ e[i].id = bs[i].id /\ e[i].code = bs[i].code
            /\ e[i].term = IF i = id + 1 THEN term ELSE bs[i].term
        BY <1>2, <4>1
      <4>4. /\ r[i].id = g[i].id /\ r[i].code = g[i].code
            /\ r[i].term = IF i = id + 1 THEN term ELSE g[i].term
        BY <1>6
      <4> QED
        BY <4>2, <4>3, <4>4
    <3>2. CASE ~ (i <= n)
      <4>1. i # id + 1
        BY <1>1, <3>2
      <4> QED
        BY <1>3, <1>4, <1>6, <3>2, <4>1
    <3> QED
      BY <3>1, <3>2
  <2> QED
    BY <2>1, <2>2 DEF Block
<1>8. l = r
  BY <1>1, <1>4, <1>6, <1>7, SeqEqual
<1> QED
  BY <1>8 DEF l, r, g, e, n

-----------------------------------------------------------------------------
(* Code does not change which blocks have a terminator.                    *)
LEMMA ExtendEndsNone ==
  ASSUME NEW bs \in Seq(Block), NEW id \in 0 .. Len(bs) - 1, NEW code \in Seq(Instruction)
  PROVE  /\ Len(Extended(bs, id, code)) = Len(bs)
         /\ Unfinished(Extended(bs, id, code)) = Unfinished(bs)
<1> DEFINE t == Extended(bs, id, code)
<1>1. /\ Len(t) = Len(bs)
      /\ \A i \in 1 .. Len(bs) : t[i].term = bs[i].term
  BY ExtendedFacts
<1>2. Len(bs) \in Nat
  BY LengthFacts
<1>3. \A i \in 0 .. Len(bs) - 1 : i + 1 \in 1 .. Len(bs)
  BY <1>2
<1> HIDE DEF t
<1>4. Unfinished(t) = Unfinished(bs)
  BY <1>1, <1>3 DEF Unfinished
<1> QED
  BY <1>1, <1>4 DEF t

(* The condition of a statement goes into a block, which ends with a       *)
(* branch on it.                                                           *)
LEMMA BranchKeeps ==
  ASSUME NEW bs, NEW first, NEW n, NEW m, NEW id \in 0 .. Len(bs) - 1,
         BlocksFine(bs, first, m), NEW code, Fresh(code, first, n, m),
         NEW value \in Nat, Makes(code, value),
         NEW then \in 0 .. Len(bs) - 1, NEW else \in 0 .. Len(bs) - 1
  PROVE  /\ BlocksFine(Ended(Extended(bs, id, code), id, CondBranch(value, then, else)), n, m)
         /\ Len(Ended(Extended(bs, id, code), id, CondBranch(value, then, else))) = Len(bs)
         /\ Unfinished(Ended(Extended(bs, id, code), id, CondBranch(value, then, else))) =
              Unfinished(bs) \ {id}
<1> DEFINE t == Extended(bs, id, code)
<1> DEFINE term == CondBranch(value, then, else)
<1>1. /\ BlocksFine(t, n, m)
      /\ Len(t) = Len(bs)
      /\ Unfinished(t) = Unfinished(bs)
  <2>1. BlocksFine(t, n, m)
    BY ExtendKeeps
  <2>2. bs \in Seq(Block) /\ code \in Seq(Instruction)
    BY DEF BlocksFine, Fresh, CodeFine
  <2> QED
    BY <2>1, <2>2, ExtendEndsNone
<1>2. Makes(t[id + 1].code, value)
  <2>1. \A v : Makes(code, v) => Makes(t[id + 1].code, v)
    BY ExtendKeeps
  <2> QED
    BY <2>1
<1>3. /\ term \in Terminator /\ term.kind = "cond"
      /\ term.value = value /\ Targets(term) = {then, else}
  <2>1. then \in Nat /\ else \in Nat /\ value \in Int
    OBVIOUS
  <2> QED
    BY <2>1, TermFacts
<1>4. value # None
  BY DEF None
<1> HIDE DEF t, term
<1>5. TermFine(term, t[id + 1].code, Len(t)) /\ term.kind # "missing"
  BY <1>1, <1>2, <1>3, <1>4 DEF TermFine
<1>6. /\ BlocksFine(Ended(t, id, term), n, m)
      /\ Len(Ended(t, id, term)) = Len(t)
      /\ Unfinished(Ended(t, id, term)) = Unfinished(t) \ {id}
  BY <1>1, <1>5, EndKeeps
<1> QED
  BY <1>1, <1>6 DEF t, term

(* An if ends the current block and makes two or three; the then-body      *)
(* comes first.                                                            *)
LEMMA IfKeeps ==
  ASSUME Analyzed, Walking, LowerIf, UNCHANGED <<body, returnType>>
  PROVE  Walking'
<1> DEFINE c == Len(blocks)
<1> DEFINE k == IF Here.hasElse THEN 3 ELSE 2
<1> DEFINE value == ValueOf(Here.expr, nextValueId)
<1> DEFINE code == ExprCode(Here.expr, nextValueId, slots)
<1> DEFINE else == IF Here.hasElse THEN c + 2 ELSE c + 1
<1> DEFINE frame == [kind |-> "if", next |-> c + 1, else |-> else]
<1> DEFINE fine == Known(Here.expr, slots)
<1> DEFINE term == CondBranch(value, c, else)
<1> DEFINE e == Extended(blocks, current, code)
<1> DEFINE g == e \o NewBlocks(c, k)
<1>1. /\ Lower("if", fine)
      /\ blocks' = Ended(e, current, term) \o NewBlocks(c, k)
      /\ nextValueId' = value + 1
      /\ current' = c
      /\ slots' = Append(slots, << >>) /\ pending' = Append(pending, frame)
      /\ UNCHANGED <<locals, loopTargets>>
  BY DEF LowerIf, Push
<1>2. fine \in BOOLEAN
  BY DEF Known
<1> HIDE DEF fine
<1>3. /\ at <= Len(body) /\ skipping = 0 /\ ~ HasTerminator(current)
      /\ Here.kind = "if" /\ body[at].kind = "if" /\ Here = body[at] /\ Here \in Stmt
      /\ at' = at + 1 /\ skipping' = skipping
      /\ fine => stage' = "lowering"
  BY <1>1, <1>2, Reached
<1>4. Here.expr \in Expr /\ Here.expr # NoExpr /\ Here.hasElse \in BOOLEAN
  BY <1>3, StmtFacts, SomeExpr
<1>5. /\ current \in 0 .. c - 1 /\ c \in Nat /\ Len(pending) \in Nat
      /\ BlocksFine(blocks, nextValueId, Len(locals))
  BY <1>3, LiveFacts, HereFacts DEF Walking, Code
<1>6. /\ Known(Here.expr, slots)
      /\ Fresh(code, nextValueId, value + 1, Len(locals))
      /\ Makes(code, value) /\ value \in Nat
  BY <1>3, <1>4, ExprHere
<1>7. fine /\ stage' = "lowering"
  BY <1>3, <1>6 DEF fine
<1>8. /\ k \in Nat /\ c + k \in Nat /\ c <= c + k /\ c \in 0 .. c + k - 1
      /\ else \in 0 .. c + k - 1 /\ c + 1 \in 0 .. c + k - 1
      /\ Here.hasElse => c + 1 # else
      /\ NewIds(c, k) = {c, c + 1, else}
  BY <1>4, <1>5 DEF NewIds
<1>9. term \in Terminator /\ term.kind = "cond" /\ term.value = value
      /\ Targets(term) = {c, else}
  <2>1. c \in Nat /\ else \in Nat /\ value \in Int
    BY <1>4, <1>5, <1>6
  <2> HIDE DEF c, else, value
  <2> QED
    BY <2>1, TermFacts
<1>10. value # None
  BY <1>6 DEF None
<1>11. frame \in Frame /\ frame.kind = "if" /\ frame.next = c + 1 /\ frame.else = else
  BY <1>4, <1>5 DEF Frame, Openers
<1> HIDE DEF value, code, c, k, else, term
<1>12. /\ BlocksFine(e, value + 1, Len(locals))
       /\ Len(e) = c
       /\ Unfinished(e) = Unfinished(blocks)
  BY <1>5, <1>6, ExtendKeeps DEF c
<1>13. Makes(e[current + 1].code, value)
  <2>1. \A v : Makes(code, v) => Makes(e[current + 1].code, v)
    BY <1>5, <1>6, ExtendKeeps DEF c
  <2> QED
    BY <1>6, <2>1
<1> HIDE DEF e
<1>14. /\ BlocksFine(g, value + 1, Len(locals))
       /\ Len(g) = c + k
       /\ Unfinished(g) = Unfinished(blocks) \cup {c, c + 1, else}
       /\ g[current + 1] = e[current + 1]
  <2>1. /\ BlocksFine(e \o NewBlocks(Len(e), k), value + 1, Len(locals))
        /\ Len(e \o NewBlocks(Len(e), k)) = Len(e) + k
        /\ Unfinished(e \o NewBlocks(Len(e), k)) = Unfinished(e) \cup NewIds(Len(e), k)
    <3> DEFINE n == value + 1
    <3>1. BlocksFine(e, n, Len(locals)) /\ k \in Nat
      BY <1>8, <1>12
    <3> HIDE DEF n
    <3>2. /\ BlocksFine(e \o NewBlocks(Len(e), k), n, Len(locals))
          /\ Len(e \o NewBlocks(Len(e), k)) = Len(e) + k
          /\ Unfinished(e \o NewBlocks(Len(e), k)) = Unfinished(e) \cup NewIds(Len(e), k)
      BY <3>1, GrowKeeps
    <3> QED
      BY <3>2 DEF n
  <2>2. \A i \in 1 .. Len(e) : (e \o NewBlocks(Len(e), k))[i] = e[i]
    BY <1>8, <1>12, GrowKeeps
  <2>3. current + 1 \in 1 .. Len(e)
    BY <1>5, <1>12
  <2> QED
    BY <1>8, <1>12, <2>1, <2>2, <2>3
<1>15. blocks' = Ended(g, current, term)
  <2>1. e \in Seq(Block) /\ current \in 0 .. Len(e) - 1
    BY <1>5, <1>12 DEF BlocksFine
  <2>2. Ended(e, current, term) \o NewBlocks(Len(e), k) = Ended(e \o NewBlocks(Len(e), k), current, term)
    BY <1>8, <1>9, <2>1, GrowThenEnd
  <2> QED
    BY <1>1, <1>12, <2>2
<1> HIDE DEF g
<1>16. TermFine(term, g[current + 1].code, Len(g)) /\ term.kind # "missing"
  <2>1. Targets(term) \subseteq 0 .. Len(g) - 1
    BY <1>8, <1>9, <1>14
  <2> QED
    BY <1>9, <1>10, <1>13, <1>14, <2>1 DEF TermFine
<1>17. current \in 0 .. Len(g) - 1
  BY <1>5, <1>8, <1>14
<1>18. /\ BlocksFine(blocks', value + 1, Len(locals))
       /\ Len(blocks') = c + k
       /\ Unfinished(blocks') = (Unfinished(blocks) \cup {c, c + 1, else}) \ {current}
  BY <1>14, <1>15, <1>16, <1>17, EndKeeps
<1>19. Unfinished(blocks) \cap {c, c + 1, else} = {} /\ current \notin {c, c + 1, else}
  <2>1. \A id \in Unfinished(blocks) : id \in 0 .. c - 1
    BY DEF Unfinished, c
  <2>2. else = c + 1 \/ else = c + 2
    BY DEF else
  <2> QED
    BY <1>5, <2>1, <2>2
<1>20. Unfinished(blocks') = (Unfinished(blocks) \ {current}) \cup {c, c + 1, else}
  BY <1>18, <1>19
<1>21. Code'
  BY <1>1, <1>18, CodeThere
<1>22. ~ HasTerminator(current)'
  <2>1. c \in Unfinished(blocks')
    BY <1>20
  <2> QED
    BY <1>1, <2>1 DEF HasTerminator, Unfinished
<1>23. WaitOf(frame, at, at) = {c + 1, else}
  <2>1. WaitOf(frame, at, at) = IF Here.hasElse THEN {frame.next, frame.else} ELSE {frame.next}
    BY <1>3, <1>11, NewWait
  <2>2. ~ Here.hasElse => else = c + 1
    BY DEF else
  <2> QED
    BY <1>4, <1>11, <2>1, <2>2
<1> HIDE DEF frame
<1>24. ASSUME NEW waits, \A j \in 1 .. Len(pending) : waits[j] = Waits[j],
              waits[Len(pending) + 1] = WaitOf(frame, at, at)
       PROVE  WaitsFit(Unfinished(blocks'), current', waits, Len(pending) + 1)
  <2>1. WaitsFit(Unfinished(blocks), current, Waits, Len(pending))
    BY DEF Walking, Graph
  <2>2. {c + 1, else} = {c, c + 1, else} \ {c}
    <3>1. c # c + 1 /\ c # else
      BY <1>5 DEF else
    <3> QED
      BY <3>1
  <2>3. c \in {c, c + 1, else} /\ {c, c + 1, else} \cap Unfinished(blocks) = {}
    BY <1>19
  <2> DEFINE new == {c, c + 1, else}
  <2> HIDE DEF new
  <2>4. waits[Len(pending) + 1] = new \ {c} /\ c \in new /\ new \cap Unfinished(blocks) = {}
    BY <1>23, <1>24, <2>2, <2>3 DEF new
  <2>5. WaitsFit((Unfinished(blocks) \ {current}) \cup new, c, waits, Len(pending) + 1)
    BY <1>5, <1>24, <2>1, <2>4, PushFits
  <2> QED
    BY <1>1, <1>20, <2>5 DEF new
<1>25. Loops(body, at) = 0 /\ Here.kind \in Openers
  BY <1>3 DEF Loops, Openers
<1>26. /\ Len(blocks) <= Len(blocks') /\ current' \in 0 .. Len(blocks') - 1
       /\ frame.next < Len(blocks') /\ frame.else < Len(blocks')
       /\ Here.hasElse => frame.next # frame.else
  <2>1. Len(blocks) = c
    BY DEF c
  <2> QED
    BY <1>1, <1>8, <1>11, <1>18, <2>1
<1>27. /\ loopTargets' \in Seq(LoopTarget) /\ Len(loopTargets') = Len(loopTargets) + Loops(body, at)
       /\ \A j \in 1 .. Len(loopTargets') :
            loopTargets'[j].continue < Len(blocks') /\ loopTargets'[j].break < Len(blocks')
  <2>1. loopTargets \in Seq(LoopTarget) /\ Len(loopTargets) \in Nat
    BY LengthFacts DEF Walking, Stacks
  <2>2. ASSUME NEW j \in 1 .. Len(loopTargets)
        PROVE  loopTargets[j].continue < Len(blocks') /\ loopTargets[j].break < Len(blocks')
    <3>1. loopTargets[j] \in LoopTarget
      BY <2>1, LengthFacts
    <3>2. loopTargets[j].continue \in Nat /\ loopTargets[j].break \in Nat
      BY <3>1 DEF LoopTarget
    <3>3. loopTargets[j].continue < c /\ loopTargets[j].break < c
      BY DEF Walking, Graph, c
    <3> QED
      BY <1>5, <1>8, <1>18, <3>2, <3>3
  <2> QED
    BY <1>1, <1>25, <2>1, <2>2
<1> QED
  BY <1>1, <1>3, <1>7, <1>11, <1>21, <1>22, <1>24, <1>25, <1>26, <1>27, PushKeeps

(* A loop makes three blocks and finishes the first, the condition.        *)
LEMMA WhileKeeps ==
  ASSUME Analyzed, Walking, LowerWhile, UNCHANGED <<body, returnType>>
  PROVE  Walking'
<1> DEFINE c == Len(blocks)
<1> DEFINE value == ValueOf(Here.expr, nextValueId)
<1> DEFINE code == ExprCode(Here.expr, nextValueId, slots)
<1> DEFINE frame == [kind |-> "while", next |-> c + 2, else |-> c]
<1> DEFINE goal == [continue |-> c, break |-> c + 2]
<1> DEFINE fine == Known(Here.expr, slots)
<1> DEFINE jump == Branch(c)
<1> DEFINE k == 3
<1> DEFINE g == blocks \o NewBlocks(c, k)
<1> DEFINE e == Ended(g, current, jump)
<1> DEFINE body1 == c + 1
<1> DEFINE exit == c + 2
<1> DEFINE last == value + 1
<1>1. /\ Lower("while", fine)
      /\ blocks' = Ended(Extended(e, c, code), c, CondBranch(value, body1, exit))
      /\ nextValueId' = last
      /\ current' = body1
      /\ loopTargets' = Append(loopTargets, goal)
      /\ slots' = Append(slots, << >>) /\ pending' = Append(pending, frame)
      /\ UNCHANGED locals
  BY DEF LowerWhile, WithCondition, Push
<1>2. fine \in BOOLEAN
  BY DEF Known
<1> HIDE DEF fine
<1>3. /\ at <= Len(body) /\ skipping = 0 /\ ~ HasTerminator(current)
      /\ Here.kind = "while" /\ body[at].kind = "while" /\ Here = body[at] /\ Here \in Stmt
      /\ at' = at + 1 /\ skipping' = skipping
      /\ fine => stage' = "lowering"
  BY <1>1, <1>2, Reached
<1>4. Here.expr \in Expr /\ Here.expr # NoExpr /\ ~ Here.hasElse
  BY <1>3, StmtFacts, SomeExpr
<1>5. /\ current \in 0 .. c - 1 /\ c \in Nat /\ Len(pending) \in Nat
      /\ BlocksFine(blocks, nextValueId, Len(locals))
  BY <1>3, LiveFacts, HereFacts DEF Walking, Code
<1>6. /\ Known(Here.expr, slots)
      /\ Fresh(code, nextValueId, last, Len(locals))
      /\ Makes(code, value) /\ value \in Nat
  BY <1>3, <1>4, ExprHere
<1>7. fine /\ stage' = "lowering"
  BY <1>3, <1>6 DEF fine
<1>8. /\ k \in Nat /\ c + k \in Nat /\ c <= c + k
      /\ c \in 0 .. c + k - 1 /\ body1 \in 0 .. c + k - 1 /\ exit \in 0 .. c + k - 1
      /\ current \in 0 .. c + k - 1
      /\ c # body1 /\ c # exit /\ body1 # exit
      /\ NewIds(c, k) = {c, body1, exit}
  BY <1>5 DEF NewIds
<1>9. jump \in Terminator /\ jump.kind = "branch" /\ jump.value = None /\ Targets(jump) = {c}
  <2>1. c \in Nat /\ 0 \in Nat /\ 0 \in Int
    BY <1>5
  <2> HIDE DEF c
  <2> QED
    BY <2>1, TermFacts
<1>10. /\ frame \in Frame /\ frame.kind = "while" /\ frame.next = exit /\ frame.else = c
       /\ goal \in LoopTarget /\ goal.continue = c /\ goal.break = exit
  BY <1>5 DEF Frame, Openers, LoopTarget
<1> HIDE DEF value, code, c, k, jump, body1, exit, last, goal, frame
<1>11. /\ BlocksFine(g, nextValueId, Len(locals))
       /\ Len(g) = c + k
       /\ Unfinished(g) = Unfinished(blocks) \cup {c, body1, exit}
  <2>1. /\ BlocksFine(g, nextValueId, Len(locals))
        /\ Len(g) = Len(blocks) + k
        /\ Unfinished(g) = Unfinished(blocks) \cup NewIds(Len(blocks), k)
    BY <1>5, <1>8, GrowKeeps DEF c
  <2> QED
    BY <1>8, <2>1 DEF c
<1> HIDE DEF g
<1>12. TermFine(jump, g[current + 1].code, Len(g)) /\ jump.kind # "missing"
  BY <1>8, <1>9, <1>11 DEF TermFine
<1>13. current \in 0 .. Len(g) - 1
  BY <1>8, <1>11
<1>14. /\ BlocksFine(e, nextValueId, Len(locals))
       /\ Len(e) = c + k
       /\ Unfinished(e) = (Unfinished(blocks) \cup {c, body1, exit}) \ {current}
  BY <1>11, <1>12, <1>13, EndKeeps
<1> HIDE DEF e
<1>15. /\ c \in 0 .. Len(e) - 1 /\ body1 \in 0 .. Len(e) - 1 /\ exit \in 0 .. Len(e) - 1
  BY <1>8, <1>14
<1>16. /\ BlocksFine(blocks', last, Len(locals))
       /\ Len(blocks') = Len(e)
       /\ Unfinished(blocks') = Unfinished(e) \ {c}
  <2> DEFINE t == Ended(Extended(e, c, code), c, CondBranch(value, body1, exit))
  <2>1. BlocksFine(t, last, Len(locals))
    BY <1>6, <1>14, <1>15, BranchKeeps
  <2>2. Len(t) = Len(e)
    <3> DEFINE x == Extended(e, c, code)
    <3>1. e \in Seq(Block) /\ code \in Seq(Instruction)
      BY <1>6, <1>14 DEF BlocksFine, Fresh, CodeFine
    <3>2. Len(x) = Len(e)
      BY <1>15, <3>1, ExtendEndsNone
    <3>3. x \in Seq(Block)
      BY <1>15, <3>1, ExtendedFacts
    <3>4. CondBranch(value, body1, exit) \in Terminator
      BY <1>6, <1>15, TermFacts
    <3> HIDE DEF x
    <3>5. Len(Ended(x, c, CondBranch(value, body1, exit))) = Len(x)
      BY <1>15, <3>2, <3>3, <3>4, EndedFacts
    <3> QED
      BY <3>2, <3>5 DEF x
  <2>3. Unfinished(t) = Unfinished(e) \ {c}
    BY <1>6, <1>14, <1>15, <2>1, BranchKeeps
  <2> QED
    BY <1>1, <2>1, <2>2, <2>3
<1>17. Unfinished(blocks) \cap {c, body1, exit} = {} /\ current \notin {c, body1, exit}
  <2>1. \A id \in Unfinished(blocks) : id \in 0 .. c - 1
    BY DEF Unfinished, c
  <2> QED
    BY <1>5, <2>1 DEF body1, exit
<1>18. Unfinished(blocks') = (Unfinished(blocks) \ {current}) \cup {body1, exit}
  BY <1>8, <1>14, <1>16, <1>17
<1>19. Code'
  BY <1>1, <1>16, CodeThere
<1>20. ~ HasTerminator(current)'
  <2>1. body1 \in Unfinished(blocks')
    BY <1>18
  <2> QED
    BY <1>1, <2>1 DEF HasTerminator, Unfinished
<1>21. WaitOf(frame, at, at) = {exit}
  <2>1. WaitOf(frame, at, at) = {frame.next}
    BY <1>3, <1>4, <1>10, NewWait
  <2> QED
    BY <1>10, <2>1
<1>22. ASSUME NEW waits, \A j \in 1 .. Len(pending) : waits[j] = Waits[j],
              waits[Len(pending) + 1] = WaitOf(frame, at, at)
       PROVE  WaitsFit(Unfinished(blocks'), current', waits, Len(pending) + 1)
  <2>1. WaitsFit(Unfinished(blocks), current, Waits, Len(pending))
    BY DEF Walking, Graph
  <2> DEFINE new == {body1, exit}
  <2>2. waits[Len(pending) + 1] = new \ {body1} /\ body1 \in new /\ new \cap Unfinished(blocks) = {}
    BY <1>8, <1>17, <1>21, <1>22
  <2> HIDE DEF new
  <2>3. WaitsFit((Unfinished(blocks) \ {current}) \cup new, body1, waits, Len(pending) + 1)
    BY <1>5, <1>22, <2>1, <2>2, PushFits
  <2> QED
    BY <1>1, <1>18, <2>3 DEF new
<1>23. Loops(body, at) = 1 /\ Here.kind \in Openers
  BY <1>3 DEF Loops, Openers
<1>24. /\ Len(blocks) <= Len(blocks') /\ current' \in 0 .. Len(blocks') - 1
       /\ frame.next < Len(blocks') /\ frame.else < Len(blocks')
       /\ Here.hasElse => frame.next # frame.else
  <2>1. Len(blocks) = c
    BY DEF c
  <2> QED
    BY <1>1, <1>4, <1>5, <1>8, <1>10, <1>14, <1>16, <2>1
<1>25. /\ loopTargets' \in Seq(LoopTarget) /\ Len(loopTargets') = Len(loopTargets) + Loops(body, at)
       /\ \A j \in 1 .. Len(loopTargets') :
            loopTargets'[j].continue < Len(blocks') /\ loopTargets'[j].break < Len(blocks')
  <2>1. loopTargets \in Seq(LoopTarget) /\ Len(loopTargets) \in Nat
    BY LengthFacts DEF Walking, Stacks
  <2>2. /\ loopTargets' \in Seq(LoopTarget)
        /\ Len(loopTargets') = Len(loopTargets) + 1
        /\ \A j \in 1 .. Len(loopTargets) : loopTargets'[j] = loopTargets[j]
        /\ loopTargets'[Len(loopTargets) + 1] = goal
    BY <1>1, <1>10, <2>1
  <2>3. ASSUME NEW j \in 1 .. Len(loopTargets)
        PROVE  loopTargets[j].continue < Len(blocks') /\ loopTargets[j].break < Len(blocks')
    <3>1. loopTargets[j] \in LoopTarget
      BY <2>1, LengthFacts
    <3>2. loopTargets[j].continue \in Nat /\ loopTargets[j].break \in Nat
      BY <3>1 DEF LoopTarget
    <3>3. loopTargets[j].continue < c /\ loopTargets[j].break < c
      BY DEF Walking, Graph, c
    <3> QED
      BY <1>5, <1>8, <1>14, <1>16, <3>2, <3>3
  <2>4. goal.continue < Len(blocks') /\ goal.break < Len(blocks')
    BY <1>5, <1>8, <1>10, <1>14, <1>16
  <2>5. \A j \in 1 .. Len(loopTargets) + 1 : j \in 1 .. Len(loopTargets) \/ j = Len(loopTargets) + 1
    BY <2>1
  <2>6. ASSUME NEW j \in 1 .. Len(loopTargets')
        PROVE  loopTargets'[j].continue < Len(blocks') /\ loopTargets'[j].break < Len(blocks')
    BY <2>2, <2>3, <2>4, <2>5
  <2> QED
    BY <1>23, <2>2, <2>6
<1> QED
  BY <1>1, <1>3, <1>7, <1>10, <1>19, <1>20, <1>22, <1>23, <1>24, <1>25, PushKeeps

(* Where control falls through, the current block has a terminator.        *)
LEMMA FallKeeps ==
  ASSUME Analyzed, Walking, NEW d \in 0 .. Len(blocks) - 1
  PROVE  /\ BlocksFine(FallsTo(d), nextValueId, Len(locals))
         /\ Len(FallsTo(d)) = Len(blocks)
         /\ Unfinished(FallsTo(d)) = Unfinished(blocks) \ {current}
<1>1. /\ current \in 0 .. Len(blocks) - 1
      /\ BlocksFine(blocks, nextValueId, Len(locals))
  BY DEF Walking, Graph, Code
<1>2. CASE HasTerminator(current)
  <2>1. FallsTo(d) = blocks /\ current \notin Unfinished(blocks)
    BY <1>1, <1>2, TerminatorFacts DEF FallsTo
  <2> QED
    BY <1>1, <2>1
<1>3. CASE ~ HasTerminator(current)
  <2> DEFINE jump == Branch(d)
  <2>1. FallsTo(d) = Ended(blocks, current, jump)
    BY <1>3 DEF FallsTo
  <2>2. jump \in Terminator /\ jump.kind = "branch" /\ jump.value = None /\ Targets(jump) = {d}
    <3>1. d \in Nat /\ 0 \in Nat /\ 0 \in Int
      OBVIOUS
    <3> QED
      BY <3>1, TermFacts
  <2> HIDE DEF jump
  <2>3. TermFine(jump, blocks[current + 1].code, Len(blocks)) /\ jump.kind # "missing"
    BY <2>2 DEF TermFine
  <2>4. /\ BlocksFine(Ended(blocks, current, jump), nextValueId, Len(locals))
        /\ Len(Ended(blocks, current, jump)) = Len(blocks)
        /\ Unfinished(Ended(blocks, current, jump)) = Unfinished(blocks) \ {current}
    BY <1>1, <2>3, EndKeeps
  <2> QED
    BY <2>1, <2>4
<1> QED
  BY <1>2, <1>3

(* At an else or a close, the innermost open statement is the one that it  *)
(* belongs to.                                                             *)
LEMMA MarkFacts ==
  ASSUME Analyzed, Walking, NEW kind \in {"else", "close"}, LoweringAt(kind)
  PROVE  /\ at <= Len(body) /\ skipping = 0 /\ Here = body[at] /\ Here.kind = kind
         /\ at \in 1 .. Len(body) /\ at + 1 \in 1 .. Len(body) + 1 /\ (at + 1) - 1 = at
         /\ Len(pending) \in Nat \ {0} /\ Len(Opened) = Len(pending)
         /\ pending \in Seq(Frame)
         /\ Last(pending) = pending[Len(pending)] /\ Last(pending) \in Frame
         /\ Last(pending).next \in 0 .. Len(blocks) - 1
         /\ Last(pending).else \in 0 .. Len(blocks) - 1
         /\ OpenerOf(body, at) = Opened[Len(pending)]
         /\ Opened[Len(pending)] \in 1 .. Len(body)
         /\ body[Opened[Len(pending)]] \in Stmt
         /\ Last(pending).kind = body[Opened[Len(pending)]].kind
         /\ slots \in Seq(Scope) /\ Len(slots) = Len(pending) + 1
         /\ Len(blocks) \in Nat
<1> DEFINE n == Len(pending)
<1>1. at <= Len(body) /\ skipping = 0 /\ Here = body[at] /\ Here.kind = kind
  BY DEF LoweringAt, Here
<1>2. /\ at \in 1 .. Len(body) /\ at + 1 \in 1 .. Len(body) + 1 /\ (at + 1) - 1 = at
      /\ n \in Nat /\ Len(blocks) \in Nat
  BY <1>1, HereFacts
<1>3. /\ pending \in Seq(Frame) /\ slots \in Seq(Scope) /\ Len(slots) = n + 1
      /\ Len(Opened) = n
  BY <1>1, <1>2 DEF Walking, Stacks
<1>4. /\ Len(Opened) \in Nat \ {0} /\ OpenerOf(body, at) = Opened[Len(Opened)]
      /\ OpenerOf(body, at) \in 1 .. at - 1
  BY <1>1, <1>2, OpenerFacts DEF Analyzed, Opened
<1>5. Opened[n] \in 1 .. Len(body) /\ body[Opened[n]] \in Stmt
  <2>1. Opened[n] \in 1 .. Len(body)
    BY <1>2, <1>3, <1>4
  <2> QED
    BY <2>1, LengthFacts DEF Analyzed
<1>6. n \in 1 .. n /\ n # 0
  BY <1>2, <1>3, <1>4
<1>7. Last(pending) = pending[n] /\ Last(pending) \in Frame
  BY <1>3, <1>6, LengthFacts DEF Last
<1>8. Last(pending).next \in Nat /\ Last(pending).else \in Nat
  BY <1>7 DEF Frame
<1>9. Last(pending).next < Len(blocks) /\ Last(pending).else < Len(blocks)
  BY <1>6, <1>7 DEF Walking, Graph
<1>10. Last(pending).kind = body[Opened[n]].kind
  BY <1>6, <1>7 DEF Walking, Stacks
<1>11. Last(pending).next \in 0 .. Len(blocks) - 1 /\ Last(pending).else \in 0 .. Len(blocks) - 1
  BY <1>2, <1>8, <1>9
<1> QED
  BY <1>1, <1>2, <1>3, <1>4, <1>5, <1>6, <1>7, <1>10, <1>11

(* Between the bodies of an if: the then-body falls through to the merge   *)
(* block, and the else-block receives code.                                *)
LEMMA ElseKeeps ==
  ASSUME Analyzed, Walking, LowerElse, UNCHANGED <<body, returnType>>
  PROVE  Walking'
<1> DEFINE n == Len(pending)
<1> DEFINE frame == Last(pending)
<1>1. /\ LoweringAt("else")
      /\ blocks' = FallsTo(frame.next)
      /\ current' = frame.else
      /\ slots' = Append(Front(slots), << >>)
      /\ at' = at + 1
      /\ UNCHANGED <<skipping, nextValueId, locals, loopTargets, pending, stage>>
  BY DEF LowerElse
<1>2. /\ at <= Len(body) /\ skipping = 0 /\ Here = body[at] /\ Here.kind = "else"
      /\ at \in 1 .. Len(body) /\ at + 1 \in 1 .. Len(body) + 1 /\ (at + 1) - 1 = at
      /\ n \in Nat \ {0} /\ Len(Opened) = n
      /\ frame = pending[n] /\ frame \in Frame
      /\ frame.next \in 0 .. Len(blocks) - 1 /\ frame.else \in 0 .. Len(blocks) - 1
      /\ OpenerOf(body, at) = Opened[n]
      /\ body[Opened[n]] \in Stmt
      /\ frame.kind = body[Opened[n]].kind
      /\ slots \in Seq(Scope) /\ Len(slots) = n + 1
  BY <1>1, MarkFacts
<1>3. body[Opened[n]].hasElse /\ frame.kind = "if"
  <2>1. body[OpenerOf(body, at)].hasElse
    BY <1>2, WellFormedFacts DEF Analyzed
  <2> QED
    BY <1>2, <2>1, StmtFacts
<1>4. frame.next # frame.else
  BY <1>2, <1>3 DEF Walking, Graph
<1>5. /\ Passed(body, Opened[n], at)
      /\ ~ Passed(body, Opened[n], at - 1)
  BY <1>2, PassedFacts DEF Analyzed
<1>6. Waits[n] = {frame.next, frame.else}
  BY <1>2, <1>3, <1>5 DEF Waits, WaitOf
<1> HIDE DEF frame
<1>7. /\ Opened' = Opened
      /\ Seen'.depths = Seen.depths
      /\ \A k \in 1 .. n : Seen'.scopes[k] = Seen.scopes[k]
      /\ Seen'.scopes[n + 1] = EmptyScope
  <2>1. /\ Opened' = Opened
        /\ Seen'.depths = Seen.depths
        /\ \A k \in 1 .. Len(Opened) : Seen'.scopes[k] = Seen.scopes[k]
        /\ Seen'.scopes[Len(Opened) + 1] = EmptyScope
    BY <1>1, <1>2, ScopeNext
  <2> QED
    BY <1>2, <2>1
<1>8. /\ slots' \in Seq(Scope) /\ Len(slots') = n + 1
      /\ \A k \in 1 .. n : slots'[k] = slots[k]
      /\ slots'[n + 1] = EmptyScope
  <2>1. /\ Front(slots) \in Seq(Scope) /\ Len(Front(slots)) = Len(slots) - 1
        /\ \A k \in 1 .. Len(slots) - 1 : Front(slots)[k] = slots[k]
    <3>1. slots # << >>
      BY <1>2, LengthFacts
    <3> QED
      BY <1>2, <3>1, FrontFacts
  <2>2. Len(slots) - 1 = n
    BY <1>2
  <2>3. EmptyScope \in Scope /\ slots' = Append(Front(slots), EmptyScope)
    BY <1>1, NewScopes DEF EmptyScope
  <2> DEFINE f == Front(slots)
  <2>4. f \in Seq(Scope) /\ Len(f) = n /\ slots' = Append(f, EmptyScope)
        /\ \A k \in 1 .. n : f[k] = slots[k]
    BY <2>1, <2>2, <2>3
  <2> HIDE DEF f, n
  <2> QED
    BY <2>3, <2>4, AppendFacts
<1>9. /\ BlocksFine(blocks', nextValueId, Len(locals))
      /\ Len(blocks') = Len(blocks)
      /\ Unfinished(blocks') = Unfinished(blocks) \ {current}
  BY <1>1, <1>2, FallKeeps
<1>10. Code'
  BY <1>1, <1>9, CodeThere
<1>11. Stacks'
  <2>1. Len(loopTargets') = Depth(Seen', Len(pending'))
    BY <1>1, <1>7 DEF Walking, Stacks, Depth
  <2>2. \A k \in 1 .. Len(pending') : pending'[k].kind = body'[Opened'[k]].kind
    BY <1>1, <1>7 DEF Walking, Stacks
  <2> QED
    BY <1>1, <1>2, <1>7, <1>8, <2>1, <2>2 DEF Walking, Stacks
<1>12. WaitsFit(Unfinished(blocks), current, Waits, n)
  BY DEF Walking, Graph
<1>13. ~ HasTerminator(current)'
  <2>1. frame.else \in Unfinished(blocks')
    <3>1. n \in 1 .. n
      BY <1>2
    <3>2. Waits[n] \subseteq Unfinished(blocks) \ {current}
      BY <1>12, <3>1 DEF WaitsFit
    <3> QED
      BY <1>6, <1>9, <3>2
  <2> QED
    BY <1>1, <2>1 DEF HasTerminator, Unfinished
<1>14. Graph'
  <2>1. ASSUME NEW k \in 1 .. n - 1
        PROVE  Waits'[k] = Waits[k]
    <3>1. k \in 1 .. n /\ k # n
      BY <1>2
    <3>2. Opened[k] # OpenerOf(body, at)
      BY <1>2, <3>1, ElseIsInnermost
    <3>3. k \in 1 .. Len(pending) /\ k \in 1 .. Len(pending') /\ pending'[k] = pending[k]
          /\ Opened'[k] = Opened[k]
      BY <1>1, <1>7, <3>1
    <3> QED
      BY <1>1, <1>2, <3>2, <3>3, WaitStays
  <2>2. Waits'[n] = {frame.next}
    <3>1. \A f, j, i : WaitOf(f, j, i)' = WaitOf(f, j, i)
      BY DEF WaitOf, Passed
    <3>2. (at - 1)' = at /\ n \in 1 .. Len(pending')
      BY <1>1, <1>2
    <3>3. Waits'[n] = WaitOf(frame, Opened[n], at)
      BY <1>1, <1>2, <1>7, <3>1, <3>2 DEF Waits
    <3> QED
      BY <1>3, <1>5, <3>3 DEF WaitOf
  <2>3. WaitsFit(Unfinished(blocks'), current', Waits', Len(pending'))
    <3>1. \A w : (\A k \in 1 .. n - 1 : w[k] = Waits[k]) /\ w[n] = {frame.next}
                   => WaitsFit(Unfinished(blocks) \ {current}, frame.else, w, n)
      <4> DEFINE d == frame.next
      <4> DEFINE e == frame.else
      <4>1. n \in Nat \ {0} /\ d # e /\ Waits[n] = {d, e}
        BY <1>2, <1>4, <1>6
      <4> HIDE DEF d, e
      <4>2. ASSUME NEW w, \A k \in 1 .. n - 1 : w[k] = Waits[k], w[n] = {d}
            PROVE  WaitsFit(Unfinished(blocks) \ {current}, e, w, n)
        <5> HIDE DEF n
        <5> QED
          BY <1>12, <4>1, <4>2, ElseFits
      <4> QED
        BY <4>2 DEF d, e
    <3>2. WaitsFit(Unfinished(blocks) \ {current}, frame.else, Waits', n)
      BY <2>1, <2>2, <3>1
    <3> QED
      BY <1>1, <1>9, <3>2
  <2>4. \A k \in 1 .. Len(pending') :
          /\ pending'[k].next < Len(blocks') /\ pending'[k].else < Len(blocks')
          /\ body'[Opened'[k]].hasElse => pending'[k].next # pending'[k].else
    BY <1>1, <1>7, <1>9 DEF Walking, Graph
  <2>5. current' \in 0 .. Len(blocks') - 1
    BY <1>1, <1>2, <1>9
  <2> QED
    BY <1>1, <1>9, <2>3, <2>4, <2>5 DEF Walking, Graph
<1>15. Agreement'
  <2>1. SlotsBelow(slots', Len(locals'))
    <3>1. \A d \in 1 .. n + 1 : d \in 1 .. n \/ d = n + 1
      BY <1>2
    <3>2. 1 .. n \subseteq 1 .. Len(slots)
      BY <1>2
    <3>3. SlotsBelow(slots, Len(locals))
      BY DEF Walking, Agreement
    <3>4. \A d \in 1 .. n : \A x \in DOMAIN slots'[d] : slots'[d][x] \in 0 .. Len(locals) - 1
      BY <1>8, <3>2, <3>3 DEF SlotsBelow
    <3>5. DOMAIN slots'[n + 1] = {}
      BY <1>8, NewScopes
    <3> QED
      BY <1>1, <1>8, <3>1, <3>4, <3>5 DEF SlotsBelow
  <2>2. Used' = n + 1
    BY <1>1, <1>13 DEF Used
  <2>3. 1 .. n \subseteq 1 .. Used
    BY <1>2 DEF Used
  <2>4. \A d \in 1 .. n : SameScope(slots'[d], Seen'.scopes[d], locals')
    BY <1>1, <1>7, <1>8, <2>3 DEF Walking, Agreement
  <2>5. SameScope(slots'[n + 1], Seen'.scopes[n + 1], locals')
    BY <1>7, <1>8, NewScopes DEF SameScope
  <2>6. \A d \in 1 .. n + 1 : d \in 1 .. n \/ d = n + 1
    BY <1>2
  <2> QED
    BY <2>1, <2>2, <2>4, <2>5, <2>6 DEF Agreement
<1>16. stage' = "lowering"
  BY <1>1 DEF LoweringAt
<1> QED
  BY <1>10, <1>11, <1>14, <1>15, <1>16 DEF Walking

(* A statement is closed: the stacks are those of the statements around    *)
(* it.                                                                     *)
LEMMA PopKeeps ==
  ASSUME Analyzed, Walking, LoweringAt("close"), Pop, stage' = "lowering",
         UNCHANGED <<body, returnType, skipping, locals>>,
         Len(blocks') = Len(blocks), Code', current' \in 0 .. Len(blocks') - 1,
         loopTargets' \in Seq(LoopTarget),
         Len(loopTargets') = Len(loopTargets) - Loops(body, Opened[Len(pending)]),
         \A k \in 1 .. Len(loopTargets') : loopTargets'[k] = loopTargets[k],
         \A waits : (\A k \in 1 .. Len(pending) - 1 : waits[k] = Waits[k])
                    => WaitsFit(Unfinished(blocks'), current', waits, Len(pending) - 1)
  PROVE  Walking'
<1> DEFINE n == Len(pending)
<1>1. /\ at <= Len(body) /\ skipping = 0 /\ Here = body[at] /\ Here.kind = "close"
      /\ at \in 1 .. Len(body) /\ at + 1 \in 1 .. Len(body) + 1 /\ (at + 1) - 1 = at
      /\ n \in Nat \ {0} /\ Len(Opened) = n
      /\ pending \in Seq(Frame)
      /\ slots \in Seq(Scope) /\ Len(slots) = n + 1
  BY MarkFacts
<1>2. slots' = Front(slots) /\ pending' = Front(pending) /\ at' = at + 1
  BY DEF Pop
<1>3. /\ Len(Opened') = n - 1
      /\ \A k \in 1 .. n - 1 : Opened'[k] = Opened[k]
      /\ \A k \in 0 .. n - 1 : Depth(Seen', k) = Depth(Seen, k)
      /\ Depth(Seen, n) = Depth(Seen, n - 1) + Loops(body, Opened[n])
      /\ \A k \in 1 .. n : Seen'.scopes[k] = Seen.scopes[k]
  <2>1. /\ Len(Opened') = Len(Opened) - 1
        /\ \A k \in 1 .. Len(Opened) - 1 : Opened'[k] = Opened[k]
        /\ \A k \in 0 .. Len(Opened) - 1 : Depth(Seen', k) = Depth(Seen, k)
        /\ Depth(Seen, Len(Opened)) =
             Depth(Seen, Len(Opened) - 1) + Loops(body, Opened[Len(Opened)])
        /\ \A k \in 1 .. Len(Opened) : Seen'.scopes[k] = Seen.scopes[k]
    BY <1>1, <1>2, ClosedNext
  <2> QED
    BY <1>1, <2>1
<1>4. /\ pending' \in Seq(Frame) /\ Len(pending') = n - 1
      /\ \A k \in 1 .. n - 1 : pending'[k] = pending[k]
  BY <1>1, <1>2, FrontFacts
<1>5. /\ slots' \in Seq(Scope) /\ Len(slots') = n
      /\ \A k \in 1 .. n : slots'[k] = slots[k]
  <2>1. slots # << >> /\ Len(slots) - 1 = n
    BY <1>1, LengthFacts
  <2>2. /\ Front(slots) \in Seq(Scope) /\ Len(Front(slots)) = Len(slots) - 1
        /\ \A k \in 1 .. Len(slots) - 1 : Front(slots)[k] = slots[k]
    BY <1>1, <2>1, FrontFacts
  <2> QED
    BY <1>2, <2>1, <2>2
<1>6. n - 1 \in Nat /\ n - 1 \in 0 .. n - 1 /\ 1 .. n - 1 \subseteq 1 .. n
  BY <1>1
<1>7. Stacks'
  <2>1. Len(loopTargets) = Depth(Seen, n)
    BY DEF Walking, Stacks
  <2>2. Depth(Seen, n - 1) \in Nat
    <3>1. Seen.depths \in Seq(Nat)
      BY <1>1, OuterKept, WalkFacts DEF Analyzed, Seen, WalkState
    <3>2. Len(Seen.depths) = n
      BY <1>1, HereFacts
    <3>3. n - 1 # 0 => n - 1 \in 1 .. Len(Seen.depths)
      BY <1>1, <3>2
    <3>4. \A k \in 1 .. Len(Seen.depths) : Seen.depths[k] \in Nat
      BY <3>1, LengthFacts
    <3> QED
      BY <3>3, <3>4, SMTT(30) DEF Depth
  <2>3. Len(loopTargets') = Depth(Seen', Len(pending'))
    <3>1. Loops(body, Opened[n]) \in Int
      BY DEF Loops
    <3> QED
      BY <1>3, <1>4, <1>6, <2>1, <2>2, <3>1
  <2>4. \A k \in 1 .. Len(pending') : pending'[k].kind = body'[Opened'[k]].kind
    BY <1>3, <1>4, <1>6 DEF Walking, Stacks
  <2>5. Len(Opened') = Len(pending') + skipping' /\ skipping' = 0 /\ Len(slots') = Len(pending') + 1
    BY <1>1, <1>3, <1>4, <1>5
  <2>6. locals' \in Seq(Nat) /\ at' \in 1 .. Len(body') + 1 /\ skipping' \in Nat
    BY <1>1, <1>2 DEF Walking, Stacks
  <2>7. ~ (skipping' > 0)
    BY <2>5
  <2> QED
    BY <1>4, <1>5, <2>3, <2>4, <2>5, <2>6, <2>7 DEF Stacks
<1>8. Graph'
  <2>1. ASSUME NEW k \in 1 .. n - 1
        PROVE  Waits'[k] = Waits[k]
    <3>1. k \in 1 .. Len(pending) /\ k \in 1 .. Len(pending') /\ pending'[k] = pending[k]
          /\ Opened'[k] = Opened[k] /\ body[at].kind # "else"
      BY <1>1, <1>3, <1>4, <1>6
    <3> QED
      BY <1>1, <1>2, <3>1, WaitStays
  <2>2. WaitsFit(Unfinished(blocks'), current', Waits', Len(pending'))
    BY <1>4, <2>1
  <2>3. \A k \in 1 .. Len(pending') :
          /\ pending'[k].next < Len(blocks') /\ pending'[k].else < Len(blocks')
          /\ body'[Opened'[k]].hasElse => pending'[k].next # pending'[k].else
    BY <1>3, <1>4, <1>6 DEF Walking, Graph
  <2>4. \A k \in 1 .. Len(loopTargets') :
          loopTargets'[k].continue < Len(blocks') /\ loopTargets'[k].break < Len(blocks')
    <3>1. 1 .. Len(loopTargets') \subseteq 1 .. Len(loopTargets)
      <4>1. Len(loopTargets) \in Nat /\ Len(loopTargets') \in Nat
        BY LengthFacts DEF Walking, Stacks
      <4>2. Loops(body, Opened[n]) \in {0, 1}
        BY DEF Loops
      <4> QED
        BY <4>1, <4>2
    <3> QED
      BY <3>1 DEF Walking, Graph
  <2> QED
    BY <2>2, <2>3, <2>4 DEF Graph
<1>9. Agreement'
  <2>1. SlotsBelow(slots', Len(locals'))
    <3>1. SlotsBelow(slots, Len(locals)) /\ 1 .. n \subseteq 1 .. Len(slots)
      BY <1>1 DEF Walking, Agreement
    <3> QED
      BY <1>5, <3>1 DEF SlotsBelow
  <2>2. 1 .. Used' \subseteq 1 .. n /\ 1 .. n \subseteq 1 .. Used
    BY <1>1, <1>4 DEF Used
  <2>3. \A d \in 1 .. n : SameScope(slots'[d], Seen'.scopes[d], locals')
    BY <1>3, <1>5, <2>2 DEF Walking, Agreement
  <2> QED
    BY <2>1, <2>2, <2>3 DEF Agreement
<1> QED
  BY <1>7, <1>8, <1>9 DEF Walking

-----------------------------------------------------------------------------
(* The end of a block.                                                     *)
LEMMA CloseBlockKeeps ==
  ASSUME Analyzed, Walking, CloseBlock, UNCHANGED <<body, returnType>>
  PROVE  Walking'
<1> DEFINE n == Len(pending)
<1>1. /\ LoweringAt("close") /\ Last(pending).kind = "block" /\ Pop
      /\ UNCHANGED <<skipping, blocks, current, nextValueId, locals, loopTargets, stage>>
  BY DEF CloseBlock
<1>2. /\ n \in Nat \ {0} /\ Last(pending) = pending[n]
      /\ Last(pending).kind = body[Opened[n]].kind
  BY <1>1, MarkFacts
<1>3. Loops(body, Opened[n]) = 0
  BY <1>1, <1>2 DEF Loops
<1>4. Waits[n] = {}
  BY <1>1, <1>2 DEF Waits, WaitOf
<1>5. WaitsFit(Unfinished(blocks), current, Waits, n)
  BY DEF Walking, Graph
<1>6. ASSUME NEW waits, \A k \in 1 .. n - 1 : waits[k] = Waits[k]
      PROVE  WaitsFit(Unfinished(blocks'), current', waits, n - 1)
  BY <1>1, <1>2, <1>4, <1>5, <1>6, PopNoneFits
<1>7. Code'
  BY <1>1, CodeThere DEF Walking, Code
<1>8. /\ loopTargets' \in Seq(LoopTarget)
      /\ Len(loopTargets') = Len(loopTargets) - Loops(body, Opened[n])
      /\ \A k \in 1 .. Len(loopTargets') : loopTargets'[k] = loopTargets[k]
  BY <1>1, <1>3, LengthFacts DEF Walking, Stacks
<1>9. current' \in 0 .. Len(blocks') - 1 /\ Len(blocks') = Len(blocks) /\ stage' = "lowering"
  BY <1>1 DEF Walking, Graph
<1> QED
  BY <1>1, <1>6, <1>7, <1>8, <1>9, PopKeeps

(* The innermost statement waits for one block, which receives code next.  *)
LEMMA CloseFits ==
  ASSUME Analyzed, Walking, LoweringAt("close"), Last(pending).kind # "block",
         NEW waits, \A k \in 1 .. Len(pending) - 1 : waits[k] = Waits[k]
  PROVE  WaitsFit(Unfinished(blocks) \ {current}, Last(pending).next, waits, Len(pending) - 1)
<1> DEFINE n == Len(pending)
<1> DEFINE d == Last(pending).next
<1>1. /\ at \in 1 .. Len(body) /\ Here = body[at] /\ Here.kind = "close"
      /\ n \in Nat \ {0} /\ Last(pending) = pending[n]
      /\ OpenerOf(body, at) = Opened[n]
  BY MarkFacts
<1>2. body[Opened[n]].hasElse => Passed(body, Opened[n], at - 1)
  BY <1>1, PassedFacts DEF Analyzed
<1>3. Waits[n] = {d}
  BY <1>1, <1>2 DEF Waits, WaitOf
<1>4. WaitsFit(Unfinished(blocks), current, Waits, n)
  BY DEF Walking, Graph
<1> HIDE DEF d
<1>5. WaitsFit(Unfinished(blocks) \ {current}, d, waits, n - 1)
  BY <1>1, <1>3, <1>4, PopFits
<1> QED
  BY <1>5 DEF d

(* The end of an if: code goes to the merge block next.                    *)
LEMMA CloseIfKeeps ==
  ASSUME Analyzed, Walking, CloseIf, UNCHANGED <<body, returnType>>
  PROVE  Walking'
<1> DEFINE n == Len(pending)
<1>1. /\ LoweringAt("close") /\ Last(pending).kind = "if" /\ Pop
      /\ blocks' = FallsTo(Last(pending).next)
      /\ current' = Last(pending).next
      /\ UNCHANGED <<skipping, nextValueId, locals, loopTargets, stage>>
  BY DEF CloseIf
<1>2. /\ n \in Nat \ {0} /\ Last(pending).next \in 0 .. Len(blocks) - 1
      /\ Last(pending).kind = body[Opened[n]].kind
  BY <1>1, MarkFacts
<1>3. Loops(body, Opened[n]) = 0
  BY <1>1, <1>2 DEF Loops
<1>4. /\ BlocksFine(blocks', nextValueId, Len(locals))
      /\ Len(blocks') = Len(blocks)
      /\ Unfinished(blocks') = Unfinished(blocks) \ {current}
  BY <1>1, <1>2, FallKeeps
<1>5. Code'
  BY <1>1, <1>4, CodeThere
<1>6. ASSUME NEW waits, \A k \in 1 .. n - 1 : waits[k] = Waits[k]
      PROVE  WaitsFit(Unfinished(blocks'), current', waits, n - 1)
  <2>1. WaitsFit(Unfinished(blocks) \ {current}, Last(pending).next, waits, n - 1)
    BY <1>1, <1>6, CloseFits
  <2> QED
    BY <1>1, <1>4, <2>1
<1>7. /\ loopTargets' \in Seq(LoopTarget)
      /\ Len(loopTargets') = Len(loopTargets) - Loops(body, Opened[n])
      /\ \A k \in 1 .. Len(loopTargets') : loopTargets'[k] = loopTargets[k]
  BY <1>1, <1>3, LengthFacts DEF Walking, Stacks
<1>8. current' \in 0 .. Len(blocks') - 1 /\ stage' = "lowering"
  BY <1>1, <1>2, <1>4 DEF LoweringAt
<1> QED
  BY <1>1, <1>4, <1>5, <1>6, <1>7, <1>8, PopKeeps

(* The loop that is closed has a target.                                   *)
LEMMA LoopOpen ==
  ASSUME Analyzed, Walking, LoweringAt("close"), Last(pending).kind = "while"
  PROVE  /\ loopTargets # << >> /\ loopTargets \in Seq(LoopTarget)
         /\ Len(loopTargets) = Depth(Seen, Len(pending))
<1> DEFINE n == Len(pending)
<1>1. /\ n \in Nat \ {0} /\ Last(pending).kind = body[Opened[n]].kind
      /\ at <= Len(body) /\ at \in 1 .. Len(body) /\ Len(Opened) = n
  BY MarkFacts
<1>2. Len(loopTargets) = Depth(Seen, n) /\ loopTargets \in Seq(LoopTarget)
  BY DEF Walking, Stacks
<1>3. Depth(Seen, n) = Depth(Seen, n - 1) + 1
  <2>1. n \in 1 .. Len(Opened) /\ Loops(body, Opened[n]) = 1
    BY <1>1 DEF Loops
  <2>2. Depth(Seen, n) = Depth(Seen, n - 1) + Loops(body, Opened[n])
    BY <1>1, <2>1, HereFacts DEF Nested, Opened, Seen
  <2> QED
    BY <2>1, <2>2
<1>4. Depth(Seen, n - 1) \in Nat
  <2>1. Seen.depths \in Seq(Nat)
    BY <1>1, OuterKept, WalkFacts DEF Analyzed, Seen, WalkState
  <2>2. Len(Seen.depths) = n
    BY <1>1, HereFacts
  <2> QED
    BY <1>1, <2>1, <2>2, LengthFacts DEF Depth
<1> QED
  BY <1>2, <1>3, <1>4, LengthFacts

(* The end of a loop: its body goes back to the condition, and code goes   *)
(* to the exit block next.                                                 *)
LEMMA CloseWhileKeeps ==
  ASSUME Analyzed, Walking, CloseWhile, UNCHANGED <<body, returnType>>
  PROVE  Walking'
<1> DEFINE n == Len(pending)
<1>1. /\ LoweringAt("close") /\ Last(pending).kind = "while" /\ Pop
      /\ loopTargets' = Front(loopTargets)
      /\ blocks' = FallsTo(Last(pending).else)
      /\ current' = Last(pending).next
      /\ UNCHANGED <<skipping, nextValueId, locals, stage>>
  BY DEF CloseWhile
<1>2. /\ n \in Nat \ {0} /\ Last(pending).next \in 0 .. Len(blocks) - 1
      /\ Last(pending).else \in 0 .. Len(blocks) - 1
      /\ Last(pending).kind = body[Opened[n]].kind
      /\ at <= Len(body) /\ at \in 1 .. Len(body) /\ Len(Opened) = n
  BY <1>1, MarkFacts
<1>3. Loops(body, Opened[n]) = 1
  BY <1>1, <1>2 DEF Loops
<1>4. /\ BlocksFine(blocks', nextValueId, Len(locals))
      /\ Len(blocks') = Len(blocks)
      /\ Unfinished(blocks') = Unfinished(blocks) \ {current}
  BY <1>1, <1>2, FallKeeps
<1>5. Code'
  BY <1>1, <1>4, CodeThere
<1>6. ASSUME NEW waits, \A k \in 1 .. n - 1 : waits[k] = Waits[k]
      PROVE  WaitsFit(Unfinished(blocks'), current', waits, n - 1)
  <2>1. WaitsFit(Unfinished(blocks) \ {current}, Last(pending).next, waits, n - 1)
    BY <1>1, <1>6, CloseFits
  <2> QED
    BY <1>1, <1>4, <2>1
<1>7. loopTargets # << >> /\ loopTargets \in Seq(LoopTarget)
  BY <1>1, LoopOpen
<1>8. /\ loopTargets' \in Seq(LoopTarget)
      /\ Len(loopTargets') = Len(loopTargets) - Loops(body, Opened[n])
      /\ \A k \in 1 .. Len(loopTargets') : loopTargets'[k] = loopTargets[k]
  BY <1>1, <1>3, <1>7, FrontFacts
<1>9. current' \in 0 .. Len(blocks') - 1 /\ stage' = "lowering"
  BY <1>1, <1>2, <1>4 DEF LoweringAt
<1> QED
  BY <1>1, <1>4, <1>5, <1>6, <1>8, <1>9, PopKeeps

(* At the end of the function no statement is open, and no block is left   *)
(* but the current one.                                                    *)
LEMMA EndFacts ==
  ASSUME Analyzed, Walking, at > Len(body)
  PROVE  Unfinished(blocks) \subseteq {current}
<1>1. Len(body) \in Nat
  BY LengthFacts DEF Analyzed
<1>2. at = Len(body) + 1
  BY <1>1 DEF Walking, Stacks
<1>3. at - 1 = Len(body)
  BY <1>1, <1>2
<1>4. Opened = << >>
  BY <1>3, WellFormedFacts DEF Analyzed, Opened
<1>5. Len(Opened) = 0
  BY <1>4
<1>6. Len(pending) = 0
  <2>1. Len(pending) \in Nat /\ skipping \in Nat /\ Len(Opened) = Len(pending) + skipping
    BY LengthFacts DEF Walking, Stacks
  <2> QED
    BY <1>5, <2>1
<1>7. WaitsFit(Unfinished(blocks), current, Waits, 0)
  BY <1>6 DEF Walking, Graph
<1> QED
  BY <1>7 DEF WaitsFit

(* The end of the function gives the last block a terminator: a return     *)
(* when there is nothing to return.                                        *)
LEMMA FinishKeeps ==
  ASSUME Analyzed, Walking, FinishFunction, UNCHANGED <<body, returnType>>
  PROVE  Built'
<1> DEFINE term == IF returnType = "void" THEN Return(None) ELSE Unreachable
<1>1. /\ at > Len(body) /\ stage' = "lowered"
      /\ blocks' = IF HasTerminator(current) THEN blocks ELSE Ended(blocks, current, term)
      /\ UNCHANGED <<nextValueId, locals, current>>
  BY DEF FinishFunction
<1>2. current \in 0 .. Len(blocks) - 1 /\ BlocksFine(blocks, nextValueId, Len(locals))
      /\ Len(blocks) \in Nat /\ blocks \in Seq(Block)
  BY LengthFacts DEF Walking, Graph, Code, BlocksFine
<1>3. Unfinished(blocks) \subseteq {current}
  BY <1>1, EndFacts
<1>4. /\ TermFine(term, blocks[current + 1].code, Len(blocks))
      /\ term.kind # "missing"
  <2>1. /\ Return(None) \in Terminator /\ Return(None).kind = "return"
        /\ Return(None).value = None /\ Targets(Return(None)) = {}
        /\ Unreachable \in Terminator /\ Unreachable.kind = "unreachable"
        /\ Unreachable.value = None /\ Targets(Unreachable) = {}
    <3>1. None \in Int /\ 0 \in Nat
      BY DEF None
    <3> QED
      BY <3>1, TermFacts
  <2>2. CASE returnType = "void"
    <3>1. term = Return(None)
      BY <2>2
    <3> QED
      BY <2>1, <2>2, <3>1 DEF TermFine
  <2>3. CASE returnType # "void"
    <3>1. term = Unreachable
      BY <2>3
    <3> QED
      BY <2>1, <2>3, <3>1 DEF TermFine
  <2> QED
    BY <2>2, <2>3
<1> HIDE DEF term
<1>5. /\ BlocksFine(blocks', nextValueId, Len(locals))
      /\ Len(blocks') = Len(blocks)
      /\ Unfinished(blocks') = {}
  <2>1. CASE HasTerminator(current)
    <3>1. blocks' = blocks /\ current \notin Unfinished(blocks)
      BY <1>1, <1>2, <2>1, TerminatorFacts
    <3> QED
      BY <1>2, <1>3, <3>1
  <2>2. CASE ~ HasTerminator(current)
    <3>1. blocks' = Ended(blocks, current, term)
      BY <1>1, <2>2
    <3> QED
      BY <1>2, <1>3, <1>4, <3>1, EndKeeps
  <2> QED
    BY <2>1, <2>2
<1>6. Code'
  BY <1>1, <1>5, CodeThere
<1>7. blocks' # << >>
  BY <1>2, <1>5
<1> QED
  BY <1>1, <1>5, <1>6, <1>7 DEF Built

-----------------------------------------------------------------------------
(* Every step of lowering an analyzed function keeps the invariant.        *)
LEMMA StepKeeps ==
  ASSUME Analyzed, LInv, LoweringStep, UNCHANGED <<body, returnType>>
  PROVE  LInv'
<1>1. CASE StartFunction
  <2>1. LoweringInit
    BY <1>1 DEF LInv, StartFunction, Walking, Built
  <2> QED
    BY <1>1, <2>1, StartKeeps DEF LInv
<1>2. CASE stage # "lowering"
  <2>1. StartFunction
    BY <1>2 DEF LoweringStep, LowerDeclare, LowerAssign, LowerPrint, LowerReturn, LowerJump,
       LowerBlock, LowerIf, LowerElse, LowerWhile, CloseBlock, CloseIf, CloseWhile, SkipDead,
       FinishFunction, Lower, LoweringAt
  <2> QED
    BY <1>1, <2>1
<1>3. CASE stage = "lowering"
  <2>1. Walking
    BY <1>3 DEF LInv, LoweringInit, Built
  <2>2. CASE LowerDeclare
    BY <2>1, <2>2, DeclareKeeps DEF LInv
  <2>3. CASE LowerAssign
    BY <2>1, <2>3, AssignKeeps DEF LInv
  <2>4. CASE LowerPrint
    BY <2>1, <2>4, PrintKeeps DEF LInv
  <2>5. CASE LowerReturn
    BY <2>1, <2>5, ReturnKeeps DEF LInv
  <2>6. CASE LowerJump
    BY <2>1, <2>6, JumpKeeps DEF LInv
  <2>7. CASE LowerBlock
    BY <2>1, <2>7, BlockKeeps DEF LInv
  <2>8. CASE LowerIf
    BY <2>1, <2>8, IfKeeps DEF LInv
  <2>9. CASE LowerElse
    BY <2>1, <2>9, ElseKeeps DEF LInv
  <2>10. CASE LowerWhile
    BY <2>1, <2>10, WhileKeeps DEF LInv
  <2>11. CASE CloseBlock
    BY <2>1, <2>11, CloseBlockKeeps DEF LInv
  <2>12. CASE CloseIf
    BY <2>1, <2>12, CloseIfKeeps DEF LInv
  <2>13. CASE CloseWhile
    BY <2>1, <2>13, CloseWhileKeeps DEF LInv
  <2>14. CASE SkipDead
    BY <2>1, <2>14, SkipKeeps DEF LInv
  <2>15. CASE FinishFunction
    BY <2>1, <2>15, FinishKeeps DEF LInv
  <2> QED
    BY <1>1, <2>2, <2>3, <2>4, <2>5, <2>6, <2>7, <2>8, <2>9, <2>10, <2>11, <2>12, <2>13,
       <2>14, <2>15 DEF LoweringStep
<1> QED
  BY <1>2, <1>3

(* What semantic analysis established does not depend on lowering.         *)
LEMMA AnalyzedStays ==
  ASSUME UNCHANGED <<body, returnType>>
  PROVE  Analyzed' <=> Analyzed
BY DEF Analyzed, Resolved

(* Doing nothing keeps the invariant.                                      *)
LEMMA StutterKeeps ==
  ASSUME LInv, UNCHANGED lowerVars, UNCHANGED <<body, returnType>>
  PROVE  LInv'
<1>1. UNCHANGED <<at, skipping, blocks, current, nextValueId, locals, slots, loopTargets,
                  pending, stage, body, returnType>>
  BY DEF lowerVars
<1>2. CASE LoweringInit
  <2>1. LoweringInit'
    BY <1>1, <1>2 DEF LoweringInit
  <2> QED
    BY <2>1 DEF LInv
<1>3. Code' <=> Code
  BY <1>1 DEF Code, BlocksFine, TermFine
<1>4. CASE Walking
  <2>1. Opened' = Opened /\ Seen' = Seen
    BY <1>1 DEF Opened, Seen
  <2>2. HasTerminator(current)' <=> HasTerminator(current)
    BY <1>1 DEF HasTerminator
  <2>3. Stacks'
    BY <1>1, <1>4, <2>1, <2>2 DEF Walking, Stacks
  <2>4. Waits' = Waits
    <3>1. \A f, j, i : WaitOf(f, j, i)' = WaitOf(f, j, i)
      BY <1>1 DEF WaitOf, Passed
    <3> QED
      BY <1>1, <2>1, <3>1 DEF Waits
  <2>5. Graph'
    BY <1>1, <1>4, <2>1, <2>4 DEF Walking, Graph
  <2>6. Agreement'
    BY <1>1, <1>4, <2>1, <2>2 DEF Walking, Agreement, Used, SlotsBelow, SameScope
  <2> QED
    BY <1>1, <1>3, <1>4, <2>3, <2>5, <2>6 DEF Walking, LInv
<1>5. CASE Built
  BY <1>1, <1>3, <1>5 DEF Built, LInv
<1> QED
  BY <1>2, <1>4, <1>5 DEF LInv

-----------------------------------------------------------------------------
(***************************************************************************)
(* The missing-return check.  R are statements that always return, S are   *)
(* blocks that stay closed under branches.  A position is dead when a      *)
(* statement of R is over there; Live says that a block which will get     *)
(* code at a dead position is not in S, so that the Unreachable which ends *)
(* the function never gets into S.                                         *)
(***************************************************************************)

(* The statements open around position i.                                  *)
Around(bd, i) == ToSet(Open(bd)[i - 1])

(* Statement s is directly in the (first) body of the one opened at j, or  *)
(* in its else-body.                                                       *)
InFirst(bd, s, j) ==
  bd[s].kind \notin {"else", "close"} /\ OpenerOf(bd, s) = j /\ ~ Passed(bd, j, s)
InSecond(bd, s, j) ==
  bd[s].kind \notin {"else", "close"} /\ OpenerOf(bd, s) = j /\ Passed(bd, j, s)

Returning(bd, R) ==
  /\ R \subseteq 1 .. Len(bd)
  /\ \A i \in R :
       \/ bd[i].kind = "return"
       \/ bd[i].kind = "block" /\ \E s \in R : InFirst(bd, s, i)
       \/ /\ bd[i].kind = "if" /\ bd[i].hasElse
          /\ \E s \in R : InFirst(bd, s, i)
          /\ \E s \in R : InSecond(bd, s, i)

(* Statement s is over at position i, which is later in the same list of   *)
(* statements or inside a later statement of that list.                    *)
Over(bd, s, i) ==
  /\ s \in 1 .. i - 1
  /\ s \notin Around(bd, i)
  /\ OpenerOf(bd, s) \in Around(bd, i) \cup {0}
  /\ \A e \in s + 1 .. i - 1 : bd[e].kind = "else" => OpenerOf(bd, e) # OpenerOf(bd, s)

Dead(bd, R, i) == \E s \in R : Over(bd, s, i)

(* S contains the entry block and where its blocks go, and none of them    *)
(* ends with Unreachable.                                                  *)
Sealed(bs, S) ==
  /\ 0 \in S /\ S \subseteq 0 .. Len(bs) - 1
  /\ \A id \in S : Targets(bs[id + 1].term) \subseteq S
  /\ \A id \in S : bs[id + 1].term.kind # "unreachable"

(* The blocks that the statement opened at j will continue in are in S     *)
(* just when the code there is not dead.                                   *)
Marked(R, S, frame, j) ==
  frame.kind # "block" =>
    /\ frame.next \in S <=> ~ Dead(body, R, j) /\ j \notin R
    /\ frame.else \in S <=> ~ Dead(body, R, j)

(* The loop targets are those of the open loops.                           *)
LoopsKnown ==
  \A k \in 1 .. Len(loopTargets) : \E m \in 1 .. Len(pending) :
    /\ pending[m].kind = "while" /\ Depth(Seen, m) = k
    /\ loopTargets[k] = [continue |-> pending[m].else, break |-> pending[m].next]

Live(R, S) ==
  /\ Sealed(blocks, S)
  /\ HasTerminator(current) \/ (Dead(body, R, at) => current \notin S)
  /\ \A k \in 1 .. Len(pending) : Marked(R, S, pending[k], Opened[k])
  /\ LoopsKnown

(* What is open at a position, from one position to the next.              *)
LEMMA AroundFacts ==
  ASSUME NEW bd, bd \in Seq(Stmt), WellFormed(bd), NEW i \in 1 .. Len(bd) + 1
  PROVE  /\ \A x \in Around(bd, i) : x \in 1 .. i - 1 /\ bd[x].kind \in Openers
         /\ OpenerOf(bd, i) \in Around(bd, i) \cup {0}
         /\ \A x \in Around(bd, i) : x <= OpenerOf(bd, i)
<1> DEFINE open == Open(bd)[i - 1]
<1> DEFINE n == Len(open)
<1>1. i - 1 \in 0 .. Len(bd) /\ Len(bd) \in Nat
  BY LengthFacts
<1>2. open \in Seq(1 .. Len(bd)) /\ Nested(bd, i - 1)
  BY <1>1, OpenFacts, AllNested
<1>3. n \in Nat /\ DOMAIN open = 1 .. n
  BY <1>2, LengthFacts
<1>4. \A k \in 1 .. n : open[k] \in 1 .. i - 1 /\ bd[open[k]].kind \in Openers
  BY <1>2 DEF Nested
<1>5. \A j, k \in 1 .. n : j < k => open[j] < open[k]
  BY <1>2 DEF Nested
<1>6. OpenerOf(bd, i) = IF open = << >> THEN 0 ELSE open[n]
  BY DEF OpenerOf, Parents, Last
<1>7. open = << >> <=> n = 0
  BY <1>2, LengthFacts
<1>8. \A x : x \in Around(bd, i) <=> \E k \in 1 .. n : open[k] = x
  BY <1>3 DEF Around, ToSet
<1> HIDE DEF open, n
<1>9. \A x \in Around(bd, i) : x \in 1 .. i - 1 /\ bd[x].kind \in Openers
  BY <1>4, <1>8
<1>10. OpenerOf(bd, i) \in Around(bd, i) \cup {0}
  BY <1>3, <1>6, <1>7, <1>8
<1>11. ASSUME NEW x \in Around(bd, i)
       PROVE  x <= OpenerOf(bd, i)
  <2>1. PICK k \in 1 .. n : open[k] = x
    BY <1>8
  <2>2. n \in 1 .. n /\ open[n] \in Int /\ open[k] \in Int /\ OpenerOf(bd, i) = open[n]
    BY <1>3, <1>4, <1>6, <1>7, <2>1
  <2>3. k < n => open[k] < open[n]
    BY <1>5, <2>2
  <2> QED
    BY <1>3, <2>1, <2>2, <2>3
<1> QED
  BY <1>9, <1>10, <1>11

LEMMA AroundNext ==
  ASSUME NEW bd, bd \in Seq(Stmt), WellFormed(bd), NEW i \in 1 .. Len(bd)
  PROVE  Around(bd, i + 1) =
           IF bd[i].kind \in Openers THEN Around(bd, i) \cup {i}
           ELSE IF bd[i].kind = "close" THEN Around(bd, i) \ {OpenerOf(bd, i)}
           ELSE Around(bd, i)
<1> DEFINE open == Open(bd)[i - 1]
<1> DEFINE n == Len(open)
<1>1. i - 1 \in 0 .. Len(bd) /\ (i + 1) - 1 = i
  BY LengthFacts
<1>2. /\ open \in Seq(1 .. Len(bd)) /\ Nested(bd, i - 1)
      /\ Open(bd)[i] = IF bd[i].kind \in Openers THEN Append(open, i)
                       ELSE IF bd[i].kind = "close" THEN Front(open) ELSE open
  BY <1>1, OpenFacts, AllNested
<1>3. Around(bd, i) = ToSet(open) /\ Around(bd, i + 1) = ToSet(Open(bd)[i])
  BY <1>1 DEF Around
<1>4. CASE bd[i].kind \in Openers
  <2>1. Open(bd)[i] = Append(open, i)
    BY <1>2, <1>4
  <2>2. ToSet(Append(open, i)) = ToSet(open) \cup {i}
    <3>1. /\ Append(open, i) \in Seq(1 .. Len(bd))
          /\ Len(Append(open, i)) = n + 1
          /\ \A k \in 1 .. n : Append(open, i)[k] = open[k]
          /\ Append(open, i)[n + 1] = i
      BY <1>2, AppendFacts
    <3>2. DOMAIN open = 1 .. n /\ DOMAIN Append(open, i) = 1 .. n + 1 /\ n \in Nat
      BY <1>2, <3>1, LengthFacts
    <3>3. \A k : k \in 1 .. n + 1 <=> k \in 1 .. n \/ k = n + 1
      BY <3>2
    <3> HIDE DEF open, n
    <3> QED
      BY <3>1, <3>2, <3>3 DEF ToSet
  <2> QED
    BY <1>3, <1>4, <2>1, <2>2
<1>5. CASE bd[i].kind = "close"
  <2>1. Open(bd)[i] = Front(open) /\ open # << >> /\ OpenerOf(bd, i) = Last(open)
    BY <1>2, <1>5, WellFormedFacts DEF Openers
  <2>2. ToSet(open) = ToSet(Front(open)) \cup {Last(open)}
    BY <1>2, <2>1, FrontElements
  <2>3. Last(open) \notin ToSet(Front(open))
    <3>1. /\ Front(open) \in Seq(1 .. Len(bd))
          /\ Len(Front(open)) = n - 1
          /\ \A k \in 1 .. n - 1 : Front(open)[k] = open[k]
          /\ n \in Nat \ {0}
      BY <1>2, <2>1, FrontFacts
    <3>2. DOMAIN Front(open) = 1 .. n - 1
      BY <3>1, LengthFacts
    <3>3. \A k \in 1 .. n - 1 : open[k] < open[n] /\ open[n] \in Nat
      <4>1. \A j, k \in 1 .. n : j < k => open[j] < open[k]
        BY <1>2 DEF Nested
      <4>2. n \in 1 .. n /\ open[n] \in Nat
        BY <1>2, <3>1
      <4>3. \A k \in 1 .. n - 1 : k \in 1 .. n /\ k < n
        BY <3>1
      <4> HIDE DEF open, n
      <4> QED
        BY <4>1, <4>2, <4>3
    <3>4. Last(open) = open[n]
      BY DEF Last
    <3>5. \A k \in 1 .. n - 1 : open[k] # open[n]
      <4>1. \A k \in 1 .. n - 1 : open[k] \in Nat
        <5>1. \A k \in 1 .. n : open[k] \in 1 .. Len(bd)
          BY <1>2, LengthFacts
        <5>2. \A k \in 1 .. n - 1 : k \in 1 .. n
          BY <3>1
        <5> HIDE DEF open, n
        <5> QED
          BY <5>1, <5>2
      <4> HIDE DEF open, n
      <4> QED
        BY <3>3, <4>1
    <3> HIDE DEF open, n
    <3> QED
      BY <3>1, <3>2, <3>4, <3>5 DEF ToSet
  <2> HIDE DEF open
  <2>4. Around(bd, i + 1) = Around(bd, i) \ {OpenerOf(bd, i)}
    BY <1>3, <2>1, <2>2, <2>3
  <2>5. bd[i].kind \notin Openers
    BY <1>5 DEF Openers
  <2> QED
    BY <1>5, <2>4, <2>5
<1>6. CASE bd[i].kind \notin Openers \cup {"close"}
  BY <1>2, <1>3, <1>6
<1> QED
  BY <1>4, <1>5, <1>6

(* Between an open statement and a position inside it, the statement and   *)
(* what is around it stay open.                                            *)
LEMMA Inside ==
  ASSUME NEW bd, bd \in Seq(Stmt), WellFormed(bd), NEW i \in 1 .. Len(bd) + 1,
         NEW j \in Around(bd, i), NEW k \in j + 1 .. i
  PROVE  /\ j \in 1 .. i - 1 /\ j \in Around(bd, k)
         /\ Around(bd, j) \subseteq Around(bd, k)
         /\ \A x \in Around(bd, k) : x < j => x \in Around(bd, j)
<1> DEFINE Fine(l) == /\ Around(bd, j) \subseteq Around(bd, l)
                      /\ \A x \in Around(bd, l) : x < j => x \in Around(bd, j)
<1> DEFINE Q(m) == j \in Around(bd, m) => \A l \in j + 1 .. m : j \in Around(bd, l) /\ Fine(l)
<1> DEFINE P == {d \in Nat : j + 1 + d <= Len(bd) + 1 => Q(j + 1 + d)}
<1>1. Len(bd) \in Nat /\ j \in 1 .. i - 1 /\ bd[j].kind \in Openers
  BY LengthFacts, AroundFacts
<1>2. j \in 1 .. Len(bd) /\ j + 1 \in 1 .. Len(bd) + 1
  BY <1>1
<1>3. \A x \in Around(bd, j) : x \in 1 .. j - 1
  <2>1. j \in 1 .. Len(bd) + 1
    BY <1>2
  <2> QED
    BY <2>1, AroundFacts
<1>4. Around(bd, j + 1) = Around(bd, j) \cup {j}
  BY <1>1, <1>2, AroundNext
<1>5. 0 \in P
  <2>1. Fine(j + 1)
    BY <1>1, <1>4
  <2>2. \A l \in j + 1 .. j + 1 : l = j + 1
    BY <1>1
  <2> HIDE DEF Fine
  <2>3. Q(j + 1)
    BY <2>1, <2>2
  <2>4. j + 1 + 0 = j + 1
    BY <1>1
  <2> QED
    BY <2>3, <2>4
<1>6. ASSUME NEW d \in Nat, d \in P
      PROVE  d + 1 \in P
  <2> SUFFICES ASSUME j + 1 + (d + 1) <= Len(bd) + 1
               PROVE  Q(j + 1 + (d + 1))
    OBVIOUS
  <2> DEFINE m == j + 1 + d
  <2>1. /\ m \in 1 .. Len(bd) /\ j + 1 + (d + 1) = m + 1 /\ m \in 1 .. Len(bd) + 1
        /\ m \in Nat /\ j < m /\ m \in j + 1 .. m
    BY <1>1
  <2>2. Q(m)
    BY <1>6, <2>1
  <2> HIDE DEF m
  <2> SUFFICES ASSUME j \in Around(bd, m + 1)
               PROVE  \A l \in j + 1 .. m + 1 : j \in Around(bd, l) /\ Fine(l)
    BY <2>1
  <2>3. /\ OpenerOf(bd, m) \in Around(bd, m) \cup {0}
        /\ \A x \in Around(bd, m) : x <= OpenerOf(bd, m) /\ x \in 1 .. m - 1
    BY <2>1, AroundFacts
  <2>4. Around(bd, m + 1) = IF bd[m].kind \in Openers THEN Around(bd, m) \cup {m}
                            ELSE IF bd[m].kind = "close" THEN Around(bd, m) \ {OpenerOf(bd, m)}
                            ELSE Around(bd, m)
    BY <2>1, AroundNext
  <2>5. j \in Around(bd, m)
    BY <1>1, <2>1, <2>4
  <2>6. Fine(m) /\ \A l \in j + 1 .. m : j \in Around(bd, l) /\ Fine(l)
    BY <2>1, <2>2, <2>5
  <2>7. Fine(m + 1)
    <3>1. CASE bd[m].kind = "close" /\ bd[m].kind \notin Openers
      <4>1. Around(bd, m + 1) = Around(bd, m) \ {OpenerOf(bd, m)}
        BY <2>4, <3>1
      <4>2. OpenerOf(bd, m) # j
        BY <4>1
      <4>3. OpenerOf(bd, m) \in Nat /\ j \in Nat
        <5>1. \A x \in Around(bd, m) : x \in Nat
          BY <2>1, <2>3
        <5>2. 0 \in Nat /\ j \in Nat
          BY <1>1
        <5> QED
          BY <2>3, <5>1, <5>2, Zenon
      <4>4. j <= OpenerOf(bd, m)
        BY <2>3, <2>5
      <4>5. OpenerOf(bd, m) \notin 1 .. j - 1
        BY <4>2, <4>3, <4>4
      <4>6. OpenerOf(bd, m) \notin Around(bd, j)
        BY <1>3, <4>5
      <4> QED
        BY <2>6, <4>1, <4>6
    <3>2. CASE bd[m].kind \in Openers
      BY <1>1, <2>1, <2>4, <2>6, <3>2
    <3>3. CASE bd[m].kind \notin Openers \cup {"close"}
      BY <2>4, <2>6, <3>3
    <3> QED
      BY <3>1, <3>2, <3>3
  <2>8. \A l \in j + 1 .. m + 1 : l \in j + 1 .. m \/ l = m + 1
    BY <2>1
  <2> HIDE DEF Fine
  <2> QED
    BY <2>6, <2>7, <2>8
<1>7. Nat \subseteq P
  <2> HIDE DEF P
  <2> QED
    BY <1>5, <1>6, Induction
<1>8. i - (j + 1) \in Nat /\ j + 1 + (i - (j + 1)) = i /\ i <= Len(bd) + 1
  BY <1>1
<1>9. i - (j + 1) \in P
  <2> HIDE DEF P
  <2> QED
    BY <1>7, <1>8
<1> HIDE DEF Fine
<1>10. Q(i)
  BY <1>8, <1>9
<1> QED
  BY <1>1, <1>10 DEF Fine

(* What is over at the mark of an else or a close, and not in its own      *)
(* statement, was over when that statement was opened.                     *)
LEMMA OverBefore ==
  ASSUME NEW bd, bd \in Seq(Stmt), WellFormed(bd), NEW i \in 1 .. Len(bd) + 1,
         NEW s, Over(bd, s, i), NEW j \in Around(bd, i), j = OpenerOf(bd, i),
         OpenerOf(bd, s) # j
  PROVE  Over(bd, s, j)
<1> DEFINE o == OpenerOf(bd, s)
<1>1. Len(bd) \in Nat /\ j \in 1 .. i - 1 /\ s \in 1 .. i - 1 /\ s \in 1 .. Len(bd) + 1
      /\ i \in Nat
  BY LengthFacts, AroundFacts DEF Over
<1>2. /\ s \notin Around(bd, i) /\ o \in Around(bd, i) \cup {0}
      /\ \A e \in s + 1 .. i - 1 : bd[e].kind = "else" => OpenerOf(bd, e) # o
  BY DEF Over
<1>3. /\ \A x \in Around(bd, s) : x \in 1 .. s - 1 /\ x <= o
      /\ o \in Around(bd, s) \cup {0}
  BY <1>1, AroundFacts
<1>4. \A x \in Around(bd, i) : x <= j
  BY AroundFacts
<1>5. o \in Nat /\ o < s
  <2>1. \A x \in Around(bd, s) : x \in Nat /\ x < s
    BY <1>1, <1>3
  <2>2. 0 \in Nat /\ 0 < s
    BY <1>1
  <2> HIDE DEF o
  <2> QED
    BY <1>3, <2>1, <2>2, Zenon
<1>6. s < j
  <2>1. s # j
    BY <1>2
  <2>2. ASSUME s > j
        PROVE  FALSE
    <3>1. s \in j + 1 .. i
      BY <1>1, <2>2
    <3>2. j \in Around(bd, s)
      BY <3>1, Inside
    <3>3. j <= o
      BY <1>3, <3>2
    <3>4. o \in Around(bd, i)
      BY <1>1, <1>2, <3>3
    <3>5. o <= j
      BY <1>4, <3>4
    <3> HIDE DEF o
    <3> QED
      BY <1>1, <1>5, <3>3, <3>5 DEF o
  <2> QED
    BY <1>1, <2>1, <2>2
<1>7. i \in j + 1 .. i
  BY <1>1
<1>8. /\ Around(bd, j) \subseteq Around(bd, i)
      /\ \A x \in Around(bd, i) : x < j => x \in Around(bd, j)
  BY <1>7, Inside
<1>9. o < j
  BY <1>1, <1>5, <1>6
<1>10. o \in Around(bd, j) \cup {0}
  BY <1>2, <1>8, <1>9
<1>11. s \in 1 .. j - 1 /\ s \notin Around(bd, j)
  BY <1>1, <1>2, <1>6, <1>8
<1>12. \A e \in s + 1 .. j - 1 : e \in s + 1 .. i - 1
  BY <1>1
<1> QED
  BY <1>2, <1>10, <1>11, <1>12 DEF Over

(* What was over when a statement was opened is over everywhere inside it. *)
LEMMA OverInside ==
  ASSUME NEW bd, bd \in Seq(Stmt), WellFormed(bd), NEW i \in 1 .. Len(bd) + 1,
         NEW j \in Around(bd, i), NEW s, Over(bd, s, j)
  PROVE  Over(bd, s, i)
<1> DEFINE o == OpenerOf(bd, s)
<1>1. Len(bd) \in Nat /\ j \in 1 .. i - 1 /\ bd[j].kind \in Openers /\ i \in Nat
      /\ j \in 1 .. Len(bd) + 1
  BY LengthFacts, AroundFacts
<1>2. /\ s \in 1 .. j - 1
      /\ s \notin Around(bd, j) /\ o \in Around(bd, j) \cup {0}
      /\ \A e \in s + 1 .. j - 1 : bd[e].kind = "else" => OpenerOf(bd, e) # o
  BY DEF Over
<1>3. i \in j + 1 .. i
  BY <1>1
<1>4. /\ Around(bd, j) \subseteq Around(bd, i)
      /\ \A x \in Around(bd, i) : x < j => x \in Around(bd, j)
  BY <1>3, Inside
<1>5. s \in 1 .. i - 1 /\ s < j
  BY <1>1, <1>2
<1>6. o \in Nat /\ o < j
  <2>1. \A x \in Around(bd, j) : x \in 1 .. j - 1
    BY <1>1, AroundFacts
  <2>2. \A x \in Around(bd, j) : x \in Nat /\ x < j
    BY <1>1, <2>1
  <2>3. 0 \in Nat /\ 0 < j
    BY <1>1
  <2> HIDE DEF o
  <2> QED
    BY <1>2, <2>2, <2>3, Zenon
<1>7. ASSUME NEW e \in s + 1 .. i - 1, bd[e].kind = "else"
      PROVE  OpenerOf(bd, e) # o
  <2>1. CASE e < j
    <3>1. e \in s + 1 .. j - 1
      BY <1>1, <1>5, <2>1
    <3> QED
      BY <1>2, <1>7, <3>1
  <2>2. CASE e = j
    BY <1>1, <1>7, <2>2 DEF Openers
  <2>3. CASE e > j
    <3>1. e \in j + 1 .. i /\ e \in 1 .. Len(bd) + 1
      BY <1>1, <1>5, <2>3
    <3>2. j \in Around(bd, e)
      BY <3>1, Inside
    <3>3. j <= OpenerOf(bd, e)
      BY <3>1, <3>2, AroundFacts
    <3> QED
      BY <1>1, <1>6, <3>3
  <2> QED
    BY <1>1, <1>5, <2>1, <2>2, <2>3
<1> QED
  BY <1>2, <1>4, <1>5, <1>7 DEF Over

LEMMA DeadInside ==
  ASSUME NEW bd, bd \in Seq(Stmt), WellFormed(bd), NEW i \in 1 .. Len(bd) + 1,
         NEW j \in Around(bd, i), NEW R, Dead(bd, R, j)
  PROVE  Dead(bd, R, i)
BY OverInside DEF Dead

(* What can make the code after statement i dead: a return, or what made   *)
(* the code around it dead; for the two marks, the statement they belong   *)
(* to.                                                                     *)
LEMMA DeadNext ==
  ASSUME NEW bd, bd \in Seq(Stmt), WellFormed(bd), NEW i \in 1 .. Len(bd),
         NEW R, Returning(bd, R), Dead(bd, R, i + 1)
  PROVE  /\ bd[i].kind \notin {"else", "close"} => Dead(bd, R, i) \/ bd[i].kind = "return"
         /\ bd[i].kind = "else" => Dead(bd, R, OpenerOf(bd, i))
         /\ bd[i].kind = "close" => Dead(bd, R, OpenerOf(bd, i)) \/ OpenerOf(bd, i) \in R
<1> DEFINE j == OpenerOf(bd, i)
<1>1. Len(bd) \in Nat /\ i \in Nat \ {0} /\ i \in 1 .. Len(bd) + 1 /\ (i + 1) - 1 = i
  BY LengthFacts
<1>2. PICK s \in R : Over(bd, s, i + 1)
  BY DEF Dead
<1> DEFINE o == OpenerOf(bd, s)
<1>3. /\ s \in 1 .. i
      /\ s \notin Around(bd, i + 1) /\ o \in Around(bd, i + 1) \cup {0}
      /\ \A e \in s + 1 .. i : bd[e].kind = "else" => OpenerOf(bd, e) # o
  BY <1>1, <1>2 DEF Over
<1>4. Around(bd, i + 1) = IF bd[i].kind \in Openers THEN Around(bd, i) \cup {i}
                          ELSE IF bd[i].kind = "close" THEN Around(bd, i) \ {j}
                          ELSE Around(bd, i)
  BY AroundNext
<1>5. \A e \in s + 1 .. i - 1 : e \in s + 1 .. i
  BY <1>1, <1>3
<1>6. bd[s].kind \in {"return", "block", "if"}
  BY DEF Returning
<1>7. s # i => s \in 1 .. i - 1
  BY <1>1, <1>3
<1>8. /\ \A x \in Around(bd, s) : x \in 1 .. s - 1
      /\ o \in Around(bd, s) \cup {0}
  <2>1. s \in 1 .. Len(bd) + 1
    BY <1>1, <1>3
  <2> QED
    BY <2>1, AroundFacts
<1>9. o # i
  BY <1>1, <1>3, <1>8
<1>10. CASE bd[i].kind \notin {"else", "close"}
  <2>1. CASE s = i
    <3>1. bd[i].kind \notin Openers
      BY <1>3, <1>4, <2>1
    <3> QED
      BY <1>6, <1>10, <2>1, <3>1 DEF Openers
  <2>2. CASE s # i
    <3>1. s \notin Around(bd, i) /\ o \in Around(bd, i) \cup {0}
      BY <1>3, <1>4, <1>9, <1>10
    <3>2. Over(bd, s, i)
      BY <1>3, <1>5, <1>7, <2>2, <3>1 DEF Over
    <3> QED
      BY <1>10, <3>2 DEF Dead
  <2> QED
    BY <2>1, <2>2
<1>11. CASE bd[i].kind \in {"else", "close"}
  <2>1. s # i /\ bd[i].kind \notin Openers
    BY <1>6, <1>11 DEF Openers
  <2>2. j \in Around(bd, i)
    <3>1. j \in 1 .. Len(bd) /\ j # 0
      BY <1>1, <1>11, WellFormedFacts
    <3>2. j \in Around(bd, i) \cup {0}
      BY <1>1, AroundFacts
    <3> QED
      BY <3>1, <3>2
  <2>3. CASE s = j
    <3>1. bd[i].kind = "close"
      BY <1>3, <1>4, <1>11, <2>1, <2>2, <2>3
    <3> QED
      BY <2>3, <3>1
  <2>4. CASE s # j
    <3>1. s \notin Around(bd, i) /\ o \in Around(bd, i) \cup {0}
      BY <1>3, <1>4, <2>1, <2>4
    <3>2. o # j
      <4>1. CASE bd[i].kind = "else"
        <5>1. i \in s + 1 .. i
          BY <1>1, <1>3, <2>1
        <5> QED
          BY <1>3, <4>1, <5>1
      <4>2. CASE bd[i].kind = "close"
        <5>1. j # 0
          BY <1>1, <1>11, WellFormedFacts
        <5> QED
          BY <1>3, <1>4, <2>1, <4>2, <5>1
      <4> QED
        BY <1>11, <4>1, <4>2
    <3>3. Over(bd, s, i)
      BY <1>3, <1>5, <1>7, <2>1, <3>1 DEF Over
    <3>4. Over(bd, s, j)
      BY <1>1, <2>2, <3>2, <3>3, OverBefore
    <3> QED
      BY <1>11, <3>4 DEF Dead
  <2> QED
    BY <2>3, <2>4
<1> QED
  BY <1>10, <1>11

(* A returning statement of a body is over at the end of that body: at     *)
(* the mark of its statement that ends it.                                 *)
LEMMA OverAtMark ==
  ASSUME NEW bd, bd \in Seq(Stmt), WellFormed(bd), NEW i \in 1 .. Len(bd),
         bd[i].kind \in {"else", "close"}, NEW s \in 1 .. Len(bd),
         IF bd[i].kind = "else" \/ ~ bd[OpenerOf(bd, i)].hasElse
         THEN InFirst(bd, s, OpenerOf(bd, i)) ELSE InSecond(bd, s, OpenerOf(bd, i))
  PROVE  Over(bd, s, i)
<1> DEFINE j == OpenerOf(bd, i)
<1>1. Len(bd) \in Nat /\ i \in Nat \ {0} /\ i \in 1 .. Len(bd) + 1
      /\ s \in Nat \ {0} /\ s \in 1 .. Len(bd) + 1
  BY LengthFacts
<1>2. bd[s].kind \notin {"else", "close"} /\ OpenerOf(bd, s) = j
  BY DEF InFirst, InSecond
<1>3. j \in 1 .. Len(bd) /\ j # 0
  BY <1>1, WellFormedFacts
<1>4. j \in Around(bd, i) /\ j \in Around(bd, s)
  BY <1>1, <1>2, <1>3, AroundFacts
<1>5. j \in 1 .. s - 1 /\ \A x \in Around(bd, i) : x <= j /\ x \in 1 .. i - 1
  BY <1>1, <1>4, AroundFacts
<1>6. s < i
  <2>1. s # i
    BY <1>2
  <2>2. ASSUME s > i
        PROVE  FALSE
    <3>1. CASE bd[i].kind = "close"
      <4>1. s - 1 \in i .. Len(bd)
        BY <1>1, <2>2
      <4>2. \A m \in 1 .. Len(Open(bd)[s - 1]) : Open(bd)[s - 1][m] # j
        BY <3>1, <4>1, ClosedForGood
      <4>3. Open(bd)[s - 1] \in Seq(1 .. Len(bd))
        <5>1. s - 1 \in 0 .. Len(bd)
          BY <1>1
        <5> QED
          BY <5>1, OpenFacts
      <4>4. DOMAIN Open(bd)[s - 1] = 1 .. Len(Open(bd)[s - 1])
        BY <4>3, LengthFacts
      <4> QED
        BY <1>4, <4>2, <4>4 DEF Around, ToSet
    <3>2. CASE bd[i].kind = "else"
      <4>1. i \in 1 .. s
        BY <1>1, <2>2
      <4>2. Passed(bd, j, s)
        BY <3>2, <4>1 DEF Passed
      <4> QED
        BY <3>2, <4>2 DEF InFirst
    <3> QED
      BY <3>1, <3>2
  <2> QED
    BY <1>1, <2>1, <2>2
<1>7. s \notin Around(bd, i)
  BY <1>1, <1>5
<1>8. ASSUME NEW e \in s + 1 .. i - 1, bd[e].kind = "else", OpenerOf(bd, e) = j
      PROVE  FALSE
  <2>1. e \in 1 .. Len(bd) /\ e # i /\ e > s
    BY <1>1, <1>8
  <2>2. CASE bd[i].kind = "else"
    BY <1>8, <2>1, <2>2, WellFormedFacts
  <2>3. CASE bd[i].kind = "close" /\ ~ bd[j].hasElse
    BY <1>8, <2>1, <2>3, WellFormedFacts
  <2>4. CASE bd[i].kind = "close" /\ bd[j].hasElse
    <3>1. Passed(bd, j, s)
      BY <2>4 DEF InSecond
    <3>2. PICK k \in 1 .. s : bd[k].kind = "else" /\ OpenerOf(bd, k) = j
      BY <3>1 DEF Passed
    <3>3. k \in 1 .. Len(bd) /\ k # e
      BY <1>1, <2>1
    <3> QED
      BY <1>8, <2>1, <3>2, <3>3, WellFormedFacts
  <2> QED
    BY <2>2, <2>3, <2>4
<1>9. s \in 1 .. i - 1
  BY <1>1, <1>6
<1> QED
  BY <1>2, <1>4, <1>7, <1>8, <1>9 DEF Over

(* A statement that always returns leaves its end dead, and that of its    *)
(* then-body.                                                              *)
LEMMA DeadAtMark ==
  ASSUME NEW bd, bd \in Seq(Stmt), WellFormed(bd), NEW i \in 1 .. Len(bd),
         bd[i].kind \in {"else", "close"}, NEW R, Returning(bd, R), OpenerOf(bd, i) \in R
  PROVE  Dead(bd, R, i)
<1> DEFINE j == OpenerOf(bd, i)
<1>1. \A s \in R : s \in 1 .. Len(bd)
  BY DEF Returning
<1>2. j \in 1 .. Len(bd) /\ bd[j] \in Stmt /\ bd[j].kind \in Openers
  <2>1. Len(bd) \in Nat /\ i \in 1 .. Len(bd) + 1 /\ j \in 1 .. Len(bd) /\ j # 0
    BY LengthFacts, WellFormedFacts
  <2>2. j \in Around(bd, i)
    BY <2>1, AroundFacts
  <2> QED
    BY <2>1, <2>2, AroundFacts, LengthFacts
<1>3. PICK s \in R : IF bd[i].kind = "else" \/ ~ bd[j].hasElse
                     THEN InFirst(bd, s, j) ELSE InSecond(bd, s, j)
  <2>1. CASE bd[j].kind = "block"
    <3>1. ~ bd[j].hasElse
      BY <1>2, <2>1, StmtFacts
    <3> QED
      BY <2>1, <3>1 DEF Returning
  <2>2. CASE bd[j].kind = "if"
    BY <2>2 DEF Returning
  <2>3. CASE bd[j].kind = "return"
    BY <1>2, <2>3 DEF Openers
  <2> QED
    BY <2>1, <2>2, <2>3 DEF Returning
<1> QED
  BY <1>1, <1>3, OverAtMark DEF Dead

(* The end of a function that always returns is dead.                      *)
LEMMA DeadAtEnd ==
  ASSUME NEW bd, bd \in Seq(Stmt), WellFormed(bd), NEW R, Returning(bd, R),
         NEW s \in R, OpenerOf(bd, s) = 0
  PROVE  Dead(bd, R, Len(bd) + 1)
<1>1. Len(bd) \in Nat /\ s \in 1 .. Len(bd) /\ (Len(bd) + 1) - 1 = Len(bd)
  BY LengthFacts DEF Returning
<1>2. Around(bd, Len(bd) + 1) = {}
  <2>1. Open(bd)[Len(bd)] = << >>
    BY WellFormedFacts
  <2> QED
    BY <1>1, <2>1 DEF Around, ToSet
<1>3. \A e \in s + 1 .. Len(bd) : bd[e].kind = "else" => OpenerOf(bd, e) # 0
  <2>1. \A e \in s + 1 .. Len(bd) : e \in 1 .. Len(bd)
    BY <1>1
  <2>2. \A e \in 1 .. Len(bd) : bd[e].kind = "else" => OpenerOf(bd, e) \in 1 .. Len(bd)
    BY WellFormedFacts
  <2> QED
    BY <2>1, <2>2
<1>4. Over(bd, s, Len(bd) + 1)
  BY <1>1, <1>2, <1>3 DEF Over
<1> QED
  BY <1>4 DEF Dead

-----------------------------------------------------------------------------
(* Blocks whose terminators have not changed.                              *)
LEMMA SealedSame ==
  ASSUME NEW bs, bs \in Seq(Block), NEW t, Len(t) = Len(bs),
         \A i \in 1 .. Len(bs) : t[i].term = bs[i].term, NEW S, Sealed(bs, S)
  PROVE  Sealed(t, S)
<1>1. Len(bs) \in Nat
  BY LengthFacts
<1>2. \A id \in S : id + 1 \in 1 .. Len(bs)
  BY <1>1 DEF Sealed
<1> QED
  BY <1>2 DEF Sealed

(* A block of S gets a terminator.                                         *)
LEMMA SealedEnds ==
  ASSUME NEW bs, bs \in Seq(Block), NEW S, Sealed(bs, S), NEW id \in 0 .. Len(bs) - 1,
         NEW term \in Terminator,
         id \in S => Targets(term) \subseteq S /\ term.kind # "unreachable"
  PROVE  Sealed(Ended(bs, id, term), S)
<1> DEFINE t == Ended(bs, id, term)
<1>1. /\ Len(t) = Len(bs)
      /\ \A i \in 1 .. Len(bs) : t[i].term = IF i = id + 1 THEN term ELSE bs[i].term
  BY EndedFacts
<1>2. Len(bs) \in Nat
  BY LengthFacts
<1> HIDE DEF t
<1>3. ASSUME NEW x \in S
      PROVE  Targets(t[x + 1].term) \subseteq S /\ t[x + 1].term.kind # "unreachable"
  <2>1. x + 1 \in 1 .. Len(bs) /\ x \in Nat
    BY <1>2 DEF Sealed
  <2>2. CASE x = id
    BY <1>1, <2>1, <2>2
  <2>3. CASE x # id
    <3>1. x + 1 # id + 1
      BY <2>1, <2>3
    <3>2. t[x + 1].term = bs[x + 1].term
      BY <1>1, <2>1, <3>1
    <3> QED
      BY <3>2 DEF Sealed
  <2> QED
    BY <2>2, <2>3
<1>4. 0 \in S /\ S \subseteq 0 .. Len(t) - 1
  BY <1>1 DEF Sealed
<1>5. Sealed(t, S)
  BY <1>3, <1>4 DEF Sealed
<1> QED
  BY <1>5 DEF t

(* New blocks, some of them in S.                                          *)
LEMMA SealedGrows ==
  ASSUME NEW bs, bs \in Seq(Block), NEW S, Sealed(bs, S), NEW k \in Nat,
         NEW new, new \subseteq NewIds(Len(bs), k)
  PROVE  Sealed(bs \o NewBlocks(Len(bs), k), S \cup new)
<1> DEFINE n == Len(bs)
<1> DEFINE t == bs \o NewBlocks(n, k)
<1>1. /\ Len(t) = n + k
      /\ \A i \in 1 .. n + k :
           t[i] = IF i <= n THEN bs[i] ELSE [id |-> i - 1, code |-> << >>, term |-> NoTerminator]
  BY GrownFacts
<1>2. n \in Nat
  BY LengthFacts
<1>3. Targets(NoTerminator) = {} /\ NoTerminator.kind # "unreachable"
  BY DEF Targets, NoTerminator
<1>4. /\ 0 \in S /\ S \subseteq 0 .. n - 1
      /\ \A id \in S : Targets(bs[id + 1].term) \subseteq S /\ bs[id + 1].term.kind # "unreachable"
  BY DEF Sealed
<1> HIDE DEF t
<1>5. \A id \in S : t[id + 1] = bs[id + 1]
  <2>1. \A id \in S : id + 1 \in 1 .. n + k /\ id + 1 <= n
    BY <1>2, <1>4
  <2> QED
    BY <1>1, <2>1
<1>6. \A id \in new : t[id + 1].term = NoTerminator
  <2>1. \A id \in new : id + 1 \in 1 .. n + k /\ ~ (id + 1 <= n)
    BY <1>2 DEF NewIds
  <2> QED
    BY <1>1, <2>1
<1>7. S \cup new \subseteq 0 .. n + k - 1
  BY <1>2, <1>4 DEF NewIds
<1>8. ASSUME NEW id \in S \cup new
      PROVE  Targets(t[id + 1].term) \subseteq S \cup new /\ t[id + 1].term.kind # "unreachable"
  BY <1>3, <1>4, <1>5, <1>6
<1>9. Sealed(t, S \cup new)
  BY <1>1, <1>4, <1>7, <1>8 DEF Sealed
<1> QED
  BY <1>9 DEF t, n

(* The open statements that hold frames are around the one at "at".        *)
LEMMA FramesOpen ==
  ASSUME Analyzed, Walking
  PROVE  /\ body \in Seq(Stmt) /\ WellFormed(body) /\ Len(body) \in Nat
         /\ at \in 1 .. Len(body) + 1 /\ Len(pending) \in Nat
         /\ \A k \in 1 .. Len(pending) :
              /\ k \in 1 .. Len(Opened)
              /\ Opened[k] \in Around(body, at)
              /\ pending[k].kind = body[Opened[k]].kind
<1>1. body \in Seq(Stmt) /\ WellFormed(body) /\ Len(body) \in Nat /\ at \in 1 .. Len(body) + 1
  BY LengthFacts DEF Analyzed, Walking, Stacks
<1>2. Opened \in Seq(1 .. Len(body))
  <2>1. at - 1 \in 0 .. Len(body)
    BY <1>1
  <2> QED
    BY <1>1, <2>1, OpenFacts DEF Opened
<1>3. Len(pending) \in Nat /\ skipping \in Nat /\ Len(Opened) = Len(pending) + skipping
  BY LengthFacts DEF Walking, Stacks
<1>4. \A k \in 1 .. Len(pending) : k \in 1 .. Len(Opened)
  BY <1>3
<1>5. \A k \in 1 .. Len(Opened) : Opened[k] \in Around(body, at)
  BY <1>2, LengthFacts DEF Around, Opened, ToSet
<1>6. \A k \in 1 .. Len(pending) : pending[k].kind = body[Opened[k]].kind
  BY DEF Walking, Stacks
<1> QED
  BY <1>1, <1>3, <1>4, <1>5, <1>6

(* The parts of the invariant after a step.                                *)
LEMMA LiveThere ==
  ASSUME NEW R, NEW S, UNCHANGED body, Sealed(blocks', S),
         HasTerminator(current)' \/ (Dead(body, R, at') => current' \notin S),
         \A k \in 1 .. Len(pending') : Marked(R, S, pending'[k], Opened'[k]),
         LoopsKnown'
  PROVE  Live(R, S)'
BY DEF Live, Marked

(* Loops stay known when only other frames are dropped.                    *)
LEMMA LoopsStay ==
  ASSUME LoopsKnown, UNCHANGED loopTargets,
         \A m \in 1 .. Len(pending) : pending[m].kind = "while" =>
           m \in 1 .. Len(pending') /\ pending'[m] = pending[m] /\ Depth(Seen', m) = Depth(Seen, m)
  PROVE  LoopsKnown'
<1> SUFFICES ASSUME NEW k \in 1 .. Len(loopTargets)
             PROVE  \E m \in 1 .. Len(pending') :
                      /\ pending'[m].kind = "while" /\ Depth(Seen', m) = k
                      /\ loopTargets[k] = [continue |-> pending'[m].else, break |-> pending'[m].next]
  BY DEF LoopsKnown
<1>1. PICK m \in 1 .. Len(pending) :
        /\ pending[m].kind = "while" /\ Depth(Seen, m) = k
        /\ loopTargets[k] = [continue |-> pending[m].else, break |-> pending[m].next]
  BY DEF LoopsKnown
<1> QED
  BY <1>1

(* A statement that opens and closes nothing: control falls through to the *)
(* next one, or the block has ended.                                       *)
LEMMA PlainLives ==
  ASSUME Analyzed, Walking, NEW R, Returning(body, R), NEW S, Live(R, S),
         at <= Len(body), body[at].kind \notin Openers \cup {"close", "else"},
         at' = at + 1, UNCHANGED <<body, pending, loopTargets, current>>,
         Sealed(blocks', S),
         HasTerminator(current)' \/ (~ HasTerminator(current) /\ body[at].kind # "return")
  PROVE  Live(R, S)'
<1>1. at \in 1 .. Len(body) /\ (at + 1) - 1 = at /\ Here = body[at]
  BY HereFacts DEF Here
<1>2. Opened' = Opened /\ Seen'.depths = Seen.depths
  <2>1. CASE body[at].kind = "declare"
    BY <1>1, <2>1, ScopeNext
  <2>2. CASE body[at].kind # "declare"
    BY <1>1, <2>2, PlainStep DEF Opened, Seen, Analyzed
  <2> QED
    BY <2>1, <2>2
<1>3. HasTerminator(current)' \/ (Dead(body, R, at') => current' \notin S)
  <2> SUFFICES ASSUME ~ HasTerminator(current), body[at].kind # "return", Dead(body, R, at + 1)
               PROVE  current \notin S
    OBVIOUS
  <2>1. Dead(body, R, at)
    BY <1>1, DeadNext DEF Analyzed
  <2> QED
    BY <2>1 DEF Live
<1>4. \A k \in 1 .. Len(pending') : Marked(R, S, pending'[k], Opened'[k])
  BY <1>2 DEF Live
<1>5. LoopsKnown'
  <2>1. \A m : Depth(Seen', m) = Depth(Seen, m)
    BY <1>2 DEF Depth
  <2> QED
    BY <2>1, LoopsStay DEF Live
<1> QED
  BY <1>3, <1>4, <1>5, LiveThere

(* More code changes no terminator.                                        *)
LEMMA ExtendedTerms ==
  ASSUME NEW bs, bs \in Seq(Block), NEW id \in 0 .. Len(bs) - 1, NEW code,
         Extended(bs, id, code) \in Seq(Block)
  PROVE  /\ Len(Extended(bs, id, code)) = Len(bs)
         /\ \A i \in 1 .. Len(bs) : Extended(bs, id, code)[i].term = bs[i].term
<1> DEFINE b == [bs[id + 1] EXCEPT !.code = @ \o code]
<1> DEFINE t == [bs EXCEPT ![id + 1] = b]
<1>1. Len(bs) \in Nat /\ DOMAIN bs = 1 .. Len(bs) /\ \A i \in 1 .. Len(bs) : bs[i] \in Block
  BY LengthFacts
<1>2. id + 1 \in 1 .. Len(bs)
  BY <1>1
<1>3. b.term = bs[id + 1].term
  BY <1>1, <1>2 DEF Block
<1>4. Extended(bs, id, code) = t
  BY <1>1, <1>2 DEF Extended
<1> HIDE DEF b
<1>5. DOMAIN t = 1 .. Len(bs) /\ \A i \in 1 .. Len(bs) : t[i] = IF i = id + 1 THEN b ELSE bs[i]
  BY <1>1, <1>2
<1>6. t \in Seq(Block)
  BY <1>4
<1> HIDE DEF t
<1>7. DOMAIN t = 1 .. Len(t) /\ Len(t) \in Nat
  BY <1>6, LengthFacts
<1>8. Len(t) = Len(bs)
  BY <1>1, <1>5, <1>7
<1> QED
  BY <1>3, <1>4, <1>5, <1>8

(* A statement that only adds code.                                        *)
LEMMA EmitLives ==
  ASSUME Analyzed, Walking, Walking', NEW R, Returning(body, R), NEW S, Live(R, S),
         at <= Len(body), ~ HasTerminator(current),
         body[at].kind \in {"declare", "assign", "print"},
         at' = at + 1, UNCHANGED <<body, pending, loopTargets, current>>,
         NEW code, blocks' = Extended(blocks, current, code)
  PROVE  Live(R, S)'
<1>1. /\ blocks \in Seq(Block) /\ blocks' \in Seq(Block) /\ current \in 0 .. Len(blocks) - 1
  BY DEF Walking, Code, BlocksFine, Graph
<1>2. Len(blocks') = Len(blocks) /\ \A i \in 1 .. Len(blocks) : blocks'[i].term = blocks[i].term
  BY <1>1, ExtendedTerms
<1>3. Sealed(blocks', S)
  BY <1>1, <1>2, SealedSame DEF Live
<1>4. body[at].kind \notin Openers \cup {"close", "else"} /\ body[at].kind # "return"
  BY DEF Openers
<1> QED
  BY <1>3, <1>4, PlainLives

LEMMA DeclareLives ==
  ASSUME Analyzed, Walking, Walking', NEW R, Returning(body, R), NEW S, Live(R, S),
         LowerDeclare, UNCHANGED <<body, returnType>>
  PROVE  Live(R, S)'
<1>1. /\ at <= Len(body) /\ ~ HasTerminator(current) /\ body[at].kind = "declare" /\ at' = at + 1
      /\ UNCHANGED <<current, loopTargets, pending>>
  BY DEF LowerDeclare, Lower, LoweringAt
<1>2. PICK code : blocks' = Extended(blocks, current, code)
  BY DEF LowerDeclare
<1> QED
  BY <1>1, <1>2, EmitLives

LEMMA AssignLives ==
  ASSUME Analyzed, Walking, Walking', NEW R, Returning(body, R), NEW S, Live(R, S),
         LowerAssign, UNCHANGED <<body, returnType>>
  PROVE  Live(R, S)'
<1>1. /\ at <= Len(body) /\ ~ HasTerminator(current) /\ body[at].kind = "assign" /\ at' = at + 1
      /\ UNCHANGED <<current, loopTargets, pending>>
  BY DEF LowerAssign, Lower, LoweringAt
<1>2. PICK code : blocks' = Extended(blocks, current, code)
  BY DEF LowerAssign
<1> QED
  BY <1>1, <1>2, EmitLives

LEMMA PrintLives ==
  ASSUME Analyzed, Walking, Walking', NEW R, Returning(body, R), NEW S, Live(R, S),
         LowerPrint, UNCHANGED <<body, returnType>>
  PROVE  Live(R, S)'
<1>1. /\ at <= Len(body) /\ ~ HasTerminator(current) /\ body[at].kind = "print" /\ at' = at + 1
      /\ UNCHANGED <<current, loopTargets, pending>>
  BY DEF LowerPrint, Lower, LoweringAt
<1>2. PICK code : blocks' = Extended(blocks, current, code)
  BY DEF LowerPrint
<1> QED
  BY <1>1, <1>2, EmitLives

(* A statement that ends the current block and does nothing else to the    *)
(* graph.                                                                  *)
LEMMA EndLives ==
  ASSUME Analyzed, Walking, NEW R, Returning(body, R), NEW S, Live(R, S),
         at <= Len(body), body[at].kind \in {"return", "break", "continue"},
         at' = at + 1, UNCHANGED <<body, pending, loopTargets, current>>,
         NEW bs, bs \in Seq(Block), Len(bs) = Len(blocks), Sealed(bs, S),
         NEW term \in Terminator, term.kind # "missing",
         current \in S => Targets(term) \subseteq S /\ term.kind # "unreachable",
         blocks' = Ended(bs, current, term)
  PROVE  Live(R, S)'
<1>1. current \in 0 .. Len(bs) - 1 /\ Len(bs) \in Nat
  BY LengthFacts DEF Walking, Graph
<1>2. Sealed(blocks', S)
  BY <1>1, SealedEnds
<1>3. current + 1 \in 1 .. Len(bs)
  BY <1>1
<1>4. blocks'[current + 1].term = term
  BY <1>1, <1>3, EndedFacts
<1>5. HasTerminator(current)'
  BY <1>4 DEF HasTerminator
<1>6. body[at].kind \notin Openers \cup {"close", "else"}
  BY DEF Openers
<1> QED
  BY <1>2, <1>5, <1>6, PlainLives

LEMMA ReturnLives ==
  ASSUME Analyzed, Walking, NEW R, Returning(body, R), NEW S, Live(R, S),
         LowerReturn, UNCHANGED <<body, returnType>>
  PROVE  Live(R, S)'
<1> DEFINE value == ValueOf(Here.expr, nextValueId)
<1> DEFINE code == ExprCode(Here.expr, nextValueId, slots)
<1> DEFINE some == Here.expr # NoExpr
<1> DEFINE bs == Extended(blocks, current, code)
<1>1. /\ blocks' = IF some THEN Ended(bs, current, Return(value))
                   ELSE Ended(blocks, current, Return(None))
      /\ UNCHANGED <<current, loopTargets, pending>>
  BY DEF LowerReturn
<1>2. /\ at <= Len(body) /\ skipping = 0 /\ ~ HasTerminator(current)
      /\ Here.kind = "return" /\ body[at].kind = "return" /\ Here = body[at]
      /\ at' = at + 1
  BY DEF LowerReturn, Lower, LoweringAt, Here
<1>3. /\ current \in 0 .. Len(blocks) - 1 /\ blocks \in Seq(Block) /\ Sealed(blocks, S)
  BY DEF Walking, Graph, Code, BlocksFine, Live
<1>4. \A v \in Int : /\ Return(v) \in Terminator /\ Return(v).kind = "return"
                     /\ Targets(Return(v)) = {}
  <2>1. 0 \in Nat
    OBVIOUS
  <2> QED
    BY <2>1, TermFacts
<1>5. CASE some
  <2>1. Fresh(code, nextValueId, value + 1, Len(locals)) /\ value \in Nat
    BY <1>2, <1>5, ExprHere
  <2>2. code \in Seq(Instruction) /\ value \in Int
    BY <2>1 DEF Fresh, CodeFine
  <2> HIDE DEF code, value, some
  <2>3. /\ bs \in Seq(Block) /\ Len(bs) = Len(blocks)
        /\ \A i \in 1 .. Len(blocks) : bs[i].term = blocks[i].term
    BY <1>3, <2>2, ExtendedFacts
  <2> HIDE DEF bs
  <2>4. Sealed(bs, S)
    BY <1>3, <2>3, SealedSame
  <2>5. /\ Return(value) \in Terminator /\ Return(value).kind = "return"
        /\ Targets(Return(value)) = {}
    BY <1>4, <2>2
  <2>6. blocks' = Ended(bs, current, Return(value))
    BY <1>1, <1>5
  <2> QED
    BY <1>1, <1>2, <2>3, <2>4, <2>5, <2>6, EndLives
<1>6. CASE ~ some
  <2>1. /\ Return(None) \in Terminator /\ Return(None).kind = "return"
        /\ Targets(Return(None)) = {}
    BY <1>4 DEF None
  <2>2. blocks' = Ended(blocks, current, Return(None))
    BY <1>1, <1>6
  <2> QED
    BY <1>1, <1>2, <1>3, <2>1, <2>2, EndLives
<1> QED
  BY <1>5, <1>6

(* A jump is in a loop.                                                    *)
LEMMA InLoop ==
  ASSUME Analyzed, Walking, at <= Len(body), skipping = 0, ~ HasTerminator(current),
         body[at].kind \in {"break", "continue"}
  PROVE  /\ loopTargets # << >> /\ Len(loopTargets) \in 1 .. Len(loopTargets)
         /\ Last(loopTargets) = loopTargets[Len(loopTargets)]
<1>1. Resolved(body, at)
  BY HereFacts DEF Analyzed
<1>2. Depth(Seen, Len(Seen.depths)) > 0
  BY <1>1 DEF Resolved, Seen
<1>3. Len(Seen.depths) = Len(pending)
  BY LiveFacts, HereFacts
<1>4. Len(loopTargets) > 0
  BY <1>2, <1>3 DEF Walking, Stacks
<1> QED
  BY <1>4, LengthFacts DEF Walking, Stacks, Last

LEMMA JumpLives ==
  ASSUME Analyzed, Walking, NEW R, Returning(body, R), NEW S, Live(R, S),
         LowerJump, UNCHANGED <<body, returnType>>
  PROVE  Live(R, S)'
<1>1. /\ blocks' = IF loopTargets = << >> THEN blocks
                   ELSE Ended(blocks, current, Branch(JumpTarget))
      /\ UNCHANGED <<current, loopTargets, pending>>
  BY DEF LowerJump
<1>2. /\ at <= Len(body) /\ skipping = 0 /\ ~ HasTerminator(current)
      /\ body[at].kind \in {"break", "continue"}
      /\ at' = at + 1
  BY DEF LowerJump, Lower, LoweringAt
<1>3. /\ current \in 0 .. Len(blocks) - 1 /\ blocks \in Seq(Block) /\ Sealed(blocks, S)
      /\ Len(blocks) \in Nat
  BY LengthFacts DEF Walking, Graph, Code, BlocksFine, Live
<1>4. /\ loopTargets # << >> /\ Len(loopTargets) \in 1 .. Len(loopTargets)
      /\ Last(loopTargets) = loopTargets[Len(loopTargets)]
  BY <1>2, InLoop
<1>5. PICK m \in 1 .. Len(pending) :
        /\ pending[m].kind = "while"
        /\ loopTargets[Len(loopTargets)] =
             [continue |-> pending[m].else, break |-> pending[m].next]
  BY <1>4 DEF Live, LoopsKnown
<1>6. JumpTarget = pending[m].next \/ JumpTarget = pending[m].else
  BY <1>4, <1>5 DEF JumpTarget
<1>7. /\ Opened[m] \in Around(body, at) /\ body[Opened[m]].kind = "while"
      /\ body \in Seq(Stmt) /\ WellFormed(body) /\ at \in 1 .. Len(body) + 1
      /\ m \in 1 .. Len(pending)
  BY <1>5, FramesOpen
<1>8. Opened[m] \notin R
  BY <1>7 DEF Returning
<1>9. ASSUME current \in S
      PROVE  JumpTarget \in S
  <2>1. ~ Dead(body, R, at)
    BY <1>2, <1>9 DEF Live
  <2>2. ~ Dead(body, R, Opened[m])
    BY <1>7, <2>1, DeadInside
  <2>3. Marked(R, S, pending[m], Opened[m])
    BY DEF Live
  <2> QED
    BY <1>5, <1>6, <1>8, <2>2, <2>3 DEF Marked
<1>10. JumpTarget \in Nat
  <2>1. pending[m] \in Frame
    BY LengthFacts DEF Walking, Stacks
  <2> QED
    BY <1>6, <2>1 DEF Frame
<1>11. /\ Branch(JumpTarget) \in Terminator /\ Branch(JumpTarget).kind = "branch"
       /\ Targets(Branch(JumpTarget)) = {JumpTarget}
  <2>1. 0 \in Nat /\ 0 \in Int
    OBVIOUS
  <2> QED
    BY <1>10, <2>1, TermFacts
<1>12. blocks' = Ended(blocks, current, Branch(JumpTarget))
  BY <1>1, <1>4
<1> QED
  BY <1>1, <1>2, <1>3, <1>9, <1>11, <1>12, EndLives

(* A statement is opened: its blocks are in S just when the code there is  *)
(* not dead.                                                               *)
LEMMA OpenLives ==
  ASSUME Analyzed, Walking, NEW R, Returning(body, R), NEW S, Live(R, S),
         at <= Len(body), skipping = 0, Here.kind \in Openers,
         NEW frame \in Frame, frame.kind = Here.kind,
         pending' = Append(pending, frame), at' = at + 1, UNCHANGED body,
         loopTargets' = IF frame.kind = "while"
                        THEN Append(loopTargets, [continue |-> frame.else, break |-> frame.next])
                        ELSE loopTargets,
         NEW S1, \A id \in 0 .. Len(blocks) - 1 : id \in S1 <=> id \in S,
         Sealed(blocks', S1), Marked(R, S1, frame, at),
         HasTerminator(current)' \/ (Dead(body, R, at) => current' \notin S1)
  PROVE  Live(R, S1)'
<1> DEFINE n == Len(pending)
<1>1. /\ at \in 1 .. Len(body) /\ (at + 1) - 1 = at /\ Here = body[at]
      /\ n \in Nat /\ Len(Opened) = n /\ Len(blocks) \in Nat
  BY HereFacts DEF Here, Walking, Stacks
<1>2. /\ pending \in Seq(Frame) /\ loopTargets \in Seq(LoopTarget)
      /\ Len(loopTargets) = Depth(Seen, n) /\ Len(loopTargets) \in Nat
  BY LengthFacts DEF Walking, Stacks
<1>3. /\ \A k \in 1 .. n : Opened'[k] = Opened[k]
      /\ Opened'[n + 1] = at
      /\ \A k \in 0 .. n : Depth(Seen', k) = Depth(Seen, k)
      /\ Depth(Seen', n + 1) = Depth(Seen, n) + Loops(body, at)
  <2>1. /\ \A k \in 1 .. Len(Opened) : Opened'[k] = Opened[k]
        /\ Opened'[Len(Opened) + 1] = at
        /\ \A k \in 0 .. Len(Opened) : Depth(Seen', k) = Depth(Seen, k)
        /\ Depth(Seen', Len(Opened) + 1) = Depth(Seen, Len(Opened)) + Loops(body, at)
    BY OpenedNext
  <2> QED
    BY <1>1, <2>1
<1>4. /\ Len(pending') = n + 1
      /\ \A k \in 1 .. n : pending'[k] = pending[k]
      /\ pending'[n + 1] = frame
  BY <1>2, AppendFacts
<1>5. \A k : k \in 1 .. n + 1 <=> k \in 1 .. n \/ k = n + 1
  BY <1>1
<1>6. HasTerminator(current)' \/ (Dead(body, R, at') => current' \notin S1)
  <2> SUFFICES ASSUME Dead(body, R, at + 1)
               PROVE  Dead(body, R, at)
    OBVIOUS
  <2>1. body[at].kind \notin {"else", "close", "return"}
    BY <1>1 DEF Openers
  <2> QED
    BY <1>1, <2>1, DeadNext DEF Analyzed
<1>7. \A k \in 1 .. Len(pending') : Marked(R, S1, pending'[k], Opened'[k])
  <2>1. ASSUME NEW k \in 1 .. n
        PROVE  Marked(R, S1, pending[k], Opened[k])
    <3>1. Marked(R, S, pending[k], Opened[k])
      BY DEF Live
    <3>2. pending[k].next \in 0 .. Len(blocks) - 1 /\ pending[k].else \in 0 .. Len(blocks) - 1
      <4>1. pending[k] \in Frame
        BY <1>2, LengthFacts
      <4>2. pending[k].next < Len(blocks) /\ pending[k].else < Len(blocks)
        BY DEF Walking, Graph
      <4> QED
        BY <1>1, <4>1, <4>2 DEF Frame
    <3> QED
      BY <3>1, <3>2 DEF Marked
  <2> HIDE DEF n
  <2> QED
    BY <1>3, <1>4, <1>5, <2>1
<1>8. LoopsKnown'
  <2> DEFINE target == [continue |-> frame.else, break |-> frame.next]
  <2> DEFINE l == Len(loopTargets)
  <2>1. \A k \in 1 .. l : \E m \in 1 .. n :
          /\ pending[m].kind = "while" /\ Depth(Seen, m) = k
          /\ loopTargets[k] = [continue |-> pending[m].else, break |-> pending[m].next]
    BY DEF Live, LoopsKnown
  <2>2. \A k \in 1 .. l : \E m \in 1 .. n + 1 :
          /\ pending'[m].kind = "while" /\ Depth(Seen', m) = k
          /\ loopTargets[k] = [continue |-> pending'[m].else, break |-> pending'[m].next]
    <3>1. \A m \in 1 .. n : m \in 1 .. n + 1 /\ m \in 0 .. n
      BY <1>1
    <3> HIDE DEF l, n
    <3> QED
      BY <1>3, <1>4, <2>1, <3>1
  <2>3. CASE frame.kind # "while"
    <3>1. loopTargets' = loopTargets /\ Len(loopTargets') = l
      BY <2>3
    <3>2. Len(pending') = n + 1
      BY <1>4
    <3> HIDE DEF l, n
    <3>3. \A k \in 1 .. Len(loopTargets') : \E m \in 1 .. Len(pending') :
            /\ pending'[m].kind = "while" /\ Depth(Seen', m) = k
            /\ loopTargets'[k] = [continue |-> pending'[m].else, break |-> pending'[m].next]
      <4> SUFFICES ASSUME NEW k \in 1 .. Len(loopTargets')
                   PROVE  \E m \in 1 .. n + 1 :
                            /\ pending'[m].kind = "while" /\ Depth(Seen', m) = k
                            /\ loopTargets'[k] =
                                 [continue |-> pending'[m].else, break |-> pending'[m].next]
        BY <3>2, Zenon
      <4>1. k \in 1 .. l
        BY <3>1, Zenon
      <4>2. loopTargets'[k] = loopTargets[k]
        BY <3>1, Zenon
      <4> QED
        BY <2>2, <4>1, <4>2, Zenon
    <3> QED
      BY <3>3 DEF LoopsKnown
  <2>4. CASE frame.kind = "while"
    <3>1. /\ Len(loopTargets') = l + 1
          /\ \A k \in 1 .. l : loopTargets'[k] = loopTargets[k]
          /\ loopTargets'[l + 1] = target
      <4>1. target \in LoopTarget /\ loopTargets' = Append(loopTargets, target)
        BY <2>4 DEF LoopTarget, Frame
      <4> HIDE DEF target
      <4> QED
        BY <1>2, <4>1, AppendFacts
    <3>2. Depth(Seen', n + 1) = l + 1 /\ n + 1 \in 1 .. n + 1
      <4>1. Loops(body, at) = 1
        BY <1>1, <2>4 DEF Loops
      <4> QED
        BY <1>1, <1>2, <1>3, <4>1
    <3>3. \A k : k \in 1 .. l + 1 <=> k \in 1 .. l \/ k = l + 1
      <4>1. l \in Nat
        BY <1>2
      <4> HIDE DEF l
      <4> QED
        BY <4>1
    <3>4. \A k \in 1 .. l : \E m \in 1 .. n + 1 :
            /\ pending'[m].kind = "while" /\ Depth(Seen', m) = k
            /\ loopTargets'[k] = [continue |-> pending'[m].else, break |-> pending'[m].next]
      <4> HIDE DEF l, n
      <4> QED
        BY <2>2, <3>1
    <3>5. \E m \in 1 .. n + 1 :
            /\ pending'[m].kind = "while" /\ Depth(Seen', m) = l + 1
            /\ loopTargets'[l + 1] = [continue |-> pending'[m].else, break |-> pending'[m].next]
      <4> HIDE DEF l, n
      <4> QED
        BY <1>4, <2>4, <3>1, <3>2
    <3>6. Len(pending') = n + 1
      BY <1>4
    <3> HIDE DEF l, n, target
    <3>7. \A k \in 1 .. Len(loopTargets') : \E m \in 1 .. Len(pending') :
            /\ pending'[m].kind = "while" /\ Depth(Seen', m) = k
            /\ loopTargets'[k] = [continue |-> pending'[m].else, break |-> pending'[m].next]
      <4> SUFFICES ASSUME NEW k \in 1 .. Len(loopTargets')
                   PROVE  \E m \in 1 .. n + 1 :
                            /\ pending'[m].kind = "while" /\ Depth(Seen', m) = k
                            /\ loopTargets'[k] =
                                 [continue |-> pending'[m].else, break |-> pending'[m].next]
        BY <3>6, Zenon
      <4>1. k \in 1 .. l \/ k = l + 1
        BY <3>1, <3>3, Zenon
      <4> QED
        BY <3>4, <3>5, <4>1, Zenon
    <3> QED
      BY <3>7 DEF LoopsKnown
  <2> QED
    BY <2>3, <2>4
<1> QED
  BY <1>6, <1>7, <1>8, LiveThere

LEMMA BlockLives ==
  ASSUME Analyzed, Walking, NEW R, Returning(body, R), NEW S, Live(R, S),
         LowerBlock, UNCHANGED <<body, returnType>>
  PROVE  Live(R, S)'
<1> DEFINE frame == [kind |-> "block", next |-> current, else |-> current]
<1>1. /\ at <= Len(body) /\ skipping = 0 /\ ~ HasTerminator(current) /\ Here.kind = "block"
      /\ at' = at + 1 /\ pending' = Append(pending, frame)
      /\ UNCHANGED <<blocks, current, loopTargets>>
  BY DEF LowerBlock, Lower, LoweringAt, Push, Here
<1>2. frame \in Frame /\ frame.kind = "block"
  BY DEF Frame, Openers, Walking, Graph
<1> HIDE DEF frame
<1>3. Here.kind \in Openers /\ frame.kind # "while"
  BY <1>1, <1>2 DEF Openers
<1>4. Marked(R, S, frame, at)
  BY <1>2 DEF Marked
<1>5. Sealed(blocks', S) /\ (Dead(body, R, at) => current' \notin S)
  BY <1>1 DEF Live
<1>6. loopTargets' = IF frame.kind = "while"
                     THEN Append(loopTargets, [continue |-> frame.else, break |-> frame.next])
                     ELSE loopTargets
  BY <1>1, <1>3
<1> QED
  BY <1>1, <1>2, <1>3, <1>4, <1>5, <1>6, OpenLives

LEMMA IfLives ==
  ASSUME Analyzed, Walking, NEW R, Returning(body, R), NEW S, Live(R, S),
         LowerIf, UNCHANGED <<body, returnType>>
  PROVE  \E S1 : Live(R, S1)'
<1> DEFINE c == Len(blocks)
<1> DEFINE merge == c + 1
<1> DEFINE k == IF Here.hasElse THEN 3 ELSE 2
<1> DEFINE value == ValueOf(Here.expr, nextValueId)
<1> DEFINE code == ExprCode(Here.expr, nextValueId, slots)
<1> DEFINE else == IF Here.hasElse THEN c + 2 ELSE c + 1
<1> DEFINE frame == [kind |-> "if", next |-> merge, else |-> else]
<1> DEFINE term == CondBranch(value, c, else)
<1> DEFINE e == Extended(blocks, current, code)
<1> DEFINE g == e \o NewBlocks(c, k)
<1> DEFINE new == IF Dead(body, R, at) THEN {} ELSE IF at \in R THEN {c, else} ELSE {c, merge, else}
<1> DEFINE S1 == S \cup new
<1>1. /\ blocks' = Ended(e, current, term) \o NewBlocks(c, k)
      /\ current' = c
      /\ pending' = Append(pending, frame)
      /\ UNCHANGED <<locals, loopTargets>>
  BY DEF LowerIf, Push
<1>2. /\ at <= Len(body) /\ skipping = 0 /\ ~ HasTerminator(current)
      /\ Here.kind = "if" /\ body[at].kind = "if" /\ Here = body[at]
      /\ at' = at + 1
  BY DEF LowerIf, Lower, LoweringAt, Here
<1>3. Here.expr \in Expr /\ Here.expr # NoExpr /\ Here.hasElse \in BOOLEAN
  BY <1>2, HereFacts, StmtFacts, SomeExpr
<1>4. /\ current \in 0 .. c - 1 /\ c \in Nat /\ blocks \in Seq(Block) /\ Sealed(blocks, S)
  BY LengthFacts DEF Walking, Graph, Code, BlocksFine, Live
<1>5. Fresh(code, nextValueId, value + 1, Len(locals)) /\ value \in Nat
  BY <1>2, <1>3, ExprHere
<1>6. code \in Seq(Instruction) /\ value \in Int
  BY <1>5 DEF Fresh, CodeFine
<1>7. at \in R => Here.hasElse
  BY <1>2 DEF Returning
<1>8. /\ k \in Nat /\ c + k \in Nat /\ current \in 0 .. c + k - 1
      /\ Here.hasElse => merge # else
      /\ ~ Here.hasElse => merge = else
      /\ c # merge /\ c # else
      /\ NewIds(c, k) = {c, merge, else}
  BY <1>3, <1>4 DEF NewIds
<1>9. term \in Terminator /\ term.kind = "cond" /\ Targets(term) = {c, else}
  <2>1. c \in Nat /\ else \in Nat /\ value \in Int
    BY <1>3, <1>4, <1>6
  <2> HIDE DEF c, else, value
  <2> QED
    BY <2>1, TermFacts
<1>10. frame \in Frame /\ frame.kind = "if" /\ frame.next = merge /\ frame.else = else
  BY <1>3, <1>4 DEF Frame, Openers
<1>11. /\ S \subseteq 0 .. c - 1
       /\ \A id \in 0 .. c - 1 : id \notin {c, merge, else}
  BY <1>3, <1>4 DEF Sealed
<1> HIDE DEF value, code, c, k, else, term, merge, frame
<1>12. /\ e \in Seq(Block) /\ Len(e) = c
       /\ \A i \in 1 .. c : e[i].term = blocks[i].term
  BY <1>4, <1>6, ExtendedFacts DEF c
<1> HIDE DEF e
<1>13. Sealed(e, S)
  BY <1>4, <1>12, SealedSame DEF c
<1>14. new \subseteq NewIds(Len(e), k)
  BY <1>8, <1>12
<1>15. Sealed(g, S1)
  BY <1>8, <1>12, <1>13, <1>14, SealedGrows
<1>16. g \in Seq(Block) /\ Len(g) = c + k
  <2>1. /\ e \o NewBlocks(Len(e), k) \in Seq(Block)
        /\ Len(e \o NewBlocks(Len(e), k)) = Len(e) + k
    BY <1>8, <1>12, GrownFacts
  <2> QED
    BY <1>12, <2>1
<1>17. blocks' = Ended(g, current, term)
  <2>1. current \in 0 .. Len(e) - 1
    BY <1>4, <1>12
  <2>2. Ended(e, current, term) \o NewBlocks(Len(e), k) = Ended(e \o NewBlocks(Len(e), k), current, term)
    BY <1>8, <1>9, <1>12, <2>1, GrowThenEnd
  <2> QED
    BY <1>1, <1>12, <2>2
<1> HIDE DEF g
<1>18. Dead(body, R, at) => current \notin S
  BY <1>2 DEF Live
<1>19. current \in S1 => Targets(term) \subseteq S1 /\ term.kind # "unreachable"
  <2> SUFFICES ASSUME current \in S1
               PROVE  {c, else} \subseteq S1
    BY <1>9
  <2>1. current \in S
    BY <1>4, <1>11
  <2>2. ~ Dead(body, R, at)
    BY <1>18, <2>1
  <2> QED
    BY <2>2
<1>20. current \in 0 .. Len(g) - 1
  BY <1>4, <1>8, <1>16
<1>21. Sealed(blocks', S1)
  BY <1>9, <1>15, <1>16, <1>17, <1>19, <1>20, SealedEnds
<1>22. \A id \in 0 .. Len(blocks) - 1 : id \in S1 <=> id \in S
  BY <1>11 DEF c
<1>23. Marked(R, S1, frame, at)
  <2>1. c \notin S /\ merge \notin S /\ else \notin S
    BY <1>11
  <2>2. merge \in S1 <=> ~ Dead(body, R, at) /\ at \notin R
    BY <1>7, <1>8, <2>1
  <2>3. else \in S1 <=> ~ Dead(body, R, at)
    BY <2>1
  <2> HIDE DEF S1
  <2> QED
    BY <1>10, <2>2, <2>3 DEF Marked
<1>24. Dead(body, R, at) => current' \notin S1
  BY <1>1, <1>11
<1>25. Here.kind \in Openers /\ frame.kind # "while"
  BY <1>2, <1>10 DEF Openers
<1>26. loopTargets' = IF frame.kind = "while"
                      THEN Append(loopTargets, [continue |-> frame.else, break |-> frame.next])
                      ELSE loopTargets
  BY <1>1, <1>25
<1> HIDE DEF S1
<1>27. /\ frame.kind = Here.kind /\ UNCHANGED body
       /\ HasTerminator(current)' \/ (Dead(body, R, at) => current' \notin S1)
  BY <1>2, <1>10, <1>24
<1>28. PICK T : T = S1
  OBVIOUS
<1>29. Live(R, T)'
  BY <1>1, <1>2, <1>10, <1>21, <1>22, <1>23, <1>25, <1>26, <1>27, <1>28, OpenLives
<1> QED
  BY <1>29

LEMMA WhileLives ==
  ASSUME Analyzed, Walking, NEW R, Returning(body, R), NEW S, Live(R, S),
         LowerWhile, UNCHANGED <<body, returnType>>
  PROVE  \E S1 : Live(R, S1)'
<1> DEFINE c == Len(blocks)
<1> DEFINE k == 3
<1> DEFINE inner == c + 1
<1> DEFINE exit == c + 2
<1> DEFINE value == ValueOf(Here.expr, nextValueId)
<1> DEFINE code == ExprCode(Here.expr, nextValueId, slots)
<1> DEFINE frame == [kind |-> "while", next |-> exit, else |-> c]
<1> DEFINE jump == Branch(c)
<1> DEFINE term == CondBranch(value, inner, exit)
<1> DEFINE g == blocks \o NewBlocks(c, k)
<1> DEFINE e == Ended(g, current, jump)
<1> DEFINE x == Extended(e, c, code)
<1> DEFINE new == IF Dead(body, R, at) THEN {} ELSE {c, inner, exit}
<1> DEFINE S1 == S \cup new
<1>1. /\ blocks' = Ended(x, c, term)
      /\ current' = inner
      /\ loopTargets' = Append(loopTargets, [continue |-> c, break |-> exit])
      /\ pending' = Append(pending, frame)
  BY DEF LowerWhile, WithCondition, Push
<1>2. /\ at <= Len(body) /\ skipping = 0 /\ ~ HasTerminator(current)
      /\ Here.kind = "while" /\ body[at].kind = "while" /\ Here = body[at]
      /\ at' = at + 1
  BY DEF LowerWhile, Lower, LoweringAt, Here
<1>3. Here.expr \in Expr /\ Here.expr # NoExpr
  BY <1>2, HereFacts, StmtFacts, SomeExpr
<1>4. /\ current \in 0 .. c - 1 /\ c \in Nat /\ blocks \in Seq(Block) /\ Sealed(blocks, S)
  BY LengthFacts DEF Walking, Graph, Code, BlocksFine, Live
<1>5. Fresh(code, nextValueId, value + 1, Len(locals)) /\ value \in Nat
  BY <1>2, <1>3, ExprHere
<1>6. code \in Seq(Instruction) /\ value \in Int
  BY <1>5 DEF Fresh, CodeFine
<1>7. at \notin R
  BY <1>2 DEF Returning
<1>8. /\ k \in Nat /\ c + k \in Nat
      /\ c \in 0 .. c + k - 1 /\ current \in 0 .. c + k - 1
      /\ NewIds(c, k) = {c, inner, exit}
  BY <1>4 DEF NewIds
<1>9. /\ jump \in Terminator /\ jump.kind = "branch" /\ Targets(jump) = {c}
      /\ term \in Terminator /\ term.kind = "cond" /\ Targets(term) = {inner, exit}
  <2>1. c \in Nat /\ inner \in Nat /\ exit \in Nat /\ value \in Int /\ 0 \in Nat /\ 0 \in Int
    BY <1>4, <1>6
  <2> HIDE DEF c, inner, exit, value
  <2> QED
    BY <2>1, TermFacts
<1>10. frame \in Frame /\ frame.kind = "while" /\ frame.next = exit /\ frame.else = c
  BY <1>4 DEF Frame, Openers
<1>11. /\ S \subseteq 0 .. c - 1
       /\ \A id \in 0 .. c - 1 : id \notin {c, inner, exit}
  BY <1>4 DEF Sealed
<1> HIDE DEF value, code, c, k, inner, exit, jump, term, frame
<1>12. g \in Seq(Block) /\ Len(g) = c + k
  BY <1>4, <1>8, GrownFacts DEF c
<1>13. Sealed(g, S1)
  <2>1. new \subseteq NewIds(c, k)
    BY <1>8
  <2> QED
    BY <1>4, <1>8, <2>1, SealedGrows DEF c
<1> HIDE DEF g
<1>14. Dead(body, R, at) => current \notin S
  BY <1>2 DEF Live
<1>15. /\ current \in S1 => {c} \subseteq S1
       /\ c \in S1 => {inner, exit} \subseteq S1
  <2>1. current \in S1 => current \in S
    BY <1>4, <1>11
  <2>2. c \notin S
    BY <1>11
  <2> QED
    BY <1>14, <2>1, <2>2
<1>16. /\ c \notin S /\ exit \notin S /\ inner \notin S
       /\ c \in S1 <=> ~ Dead(body, R, at)
       /\ exit \in S1 <=> ~ Dead(body, R, at)
       /\ Dead(body, R, at) => inner \notin S1
  BY <1>11
<1>17. \A id \in 0 .. Len(blocks) - 1 : id \in S1 <=> id \in S
  BY <1>11 DEF c
<1> HIDE DEF new, S1
<1>18. current \in 0 .. Len(g) - 1
  BY <1>4, <1>8, <1>12
<1>19. e \in Seq(Block) /\ Len(e) = c + k
  BY <1>9, <1>12, <1>18, EndedFacts
<1>20. Sealed(e, S1)
  BY <1>9, <1>12, <1>13, <1>15, <1>18, SealedEnds
<1> HIDE DEF e
<1>21. c \in 0 .. Len(e) - 1
  BY <1>4, <1>8, <1>19
<1>22. /\ x \in Seq(Block) /\ Len(x) = Len(e)
       /\ \A i \in 1 .. Len(e) : x[i].term = e[i].term
  BY <1>6, <1>19, <1>21, ExtendedFacts
<1>23. Sealed(x, S1)
  BY <1>19, <1>20, <1>22, SealedSame
<1> HIDE DEF x
<1>24. Sealed(blocks', S1)
  BY <1>1, <1>9, <1>15, <1>21, <1>22, <1>23, SealedEnds
<1>25. Marked(R, S1, frame, at)
  BY <1>7, <1>10, <1>16 DEF Marked
<1>26. /\ Here.kind \in Openers /\ frame.kind = Here.kind /\ UNCHANGED body
       /\ HasTerminator(current)' \/ (Dead(body, R, at) => current' \notin S1)
  BY <1>1, <1>2, <1>10, <1>16 DEF Openers
<1>27. loopTargets' = IF frame.kind = "while"
                      THEN Append(loopTargets, [continue |-> frame.else, break |-> frame.next])
                      ELSE loopTargets
  BY <1>1, <1>10
<1>28. PICK T : T = S1
  OBVIOUS
<1>29. Live(R, T)'
  BY <1>1, <1>2, <1>10, <1>17, <1>24, <1>25, <1>26, <1>27, <1>28, OpenLives
<1> QED
  BY <1>29

(* Where control falls through to.                                         *)
LEMMA FallSealed ==
  ASSUME Walking, NEW S, Sealed(blocks, S), NEW d \in 0 .. Len(blocks) - 1,
         ~ HasTerminator(current) /\ current \in S => d \in S
  PROVE  Sealed(FallsTo(d), S)
<1>1. /\ current \in 0 .. Len(blocks) - 1 /\ blocks \in Seq(Block)
      /\ Len(blocks) \in Nat
  BY LengthFacts DEF Walking, Graph, Code, BlocksFine
<1>2. CASE HasTerminator(current)
  BY <1>2 DEF FallsTo
<1>3. CASE ~ HasTerminator(current)
  <2>1. Branch(d) \in Terminator /\ Branch(d).kind = "branch" /\ Targets(Branch(d)) = {d}
    <3>1. d \in Nat /\ 0 \in Nat /\ 0 \in Int
      BY <1>1
    <3> QED
      BY <3>1, TermFacts
  <2>2. Sealed(Ended(blocks, current, Branch(d)), S)
    BY <1>1, <1>3, <2>1, SealedEnds
  <2> QED
    BY <1>3, <2>2 DEF FallsTo
<1> QED
  BY <1>2, <1>3

(* At the end of a body: control falls through to the block that its       *)
(* statement continues in only when that block is in S.                    *)
LEMMA MarkLives ==
  ASSUME Analyzed, Walking, NEW R, Returning(body, R), NEW S, Live(R, S),
         NEW kind \in {"else", "close"}, LoweringAt(kind)
  PROVE  /\ Sealed(blocks, S)
         /\ Marked(R, S, Last(pending), Opened[Len(pending)])
         /\ ~ HasTerminator(current) /\ current \in S =>
              ~ Dead(body, R, Opened[Len(pending)]) /\ Opened[Len(pending)] \notin R
<1> DEFINE n == Len(pending)
<1> DEFINE j == Opened[n]
<1>1. /\ at \in 1 .. Len(body) /\ body[at].kind = kind /\ n \in Nat \ {0}
      /\ Last(pending) = pending[n] /\ OpenerOf(body, at) = j
  BY MarkFacts
<1>2. /\ body \in Seq(Stmt) /\ WellFormed(body) /\ at \in 1 .. Len(body) + 1
      /\ \A k \in 1 .. n : Opened[k] \in Around(body, at)
  BY FramesOpen
<1>3. n \in 1 .. n
  BY <1>1
<1>4. j \in Around(body, at)
  BY <1>2, <1>3
<1>5. Marked(R, S, Last(pending), j)
  BY <1>1, <1>3 DEF Live
<1>6. Dead(body, R, j) \/ j \in R => Dead(body, R, at)
  <2>1. Dead(body, R, j) => Dead(body, R, at)
    BY <1>2, <1>4, DeadInside
  <2>2. j \in R => Dead(body, R, at)
    BY <1>1, <1>2, DeadAtMark
  <2> QED
    BY <2>1, <2>2
<1> QED
  BY <1>5, <1>6 DEF Live

LEMMA ElseLives ==
  ASSUME Analyzed, Walking, NEW R, Returning(body, R), NEW S, Live(R, S),
         LowerElse, UNCHANGED <<body, returnType>>
  PROVE  Live(R, S)'
<1> DEFINE n == Len(pending)
<1> DEFINE frame == Last(pending)
<1>1. /\ LoweringAt("else") /\ blocks' = FallsTo(frame.next) /\ current' = frame.else
      /\ at' = at + 1 /\ UNCHANGED <<loopTargets, pending>>
  BY DEF LowerElse
<1>2. /\ at <= Len(body) /\ at \in 1 .. Len(body) /\ Here = body[at] /\ Here.kind = "else"
      /\ frame.next \in 0 .. Len(blocks) - 1
      /\ OpenerOf(body, at) = Opened[n] /\ frame.kind = body[Opened[n]].kind
      /\ body[Opened[n]] \in Stmt
  BY <1>1, MarkFacts
<1>3. /\ Sealed(blocks, S) /\ Marked(R, S, frame, Opened[n])
      /\ ~ HasTerminator(current) /\ current \in S => ~ Dead(body, R, Opened[n]) /\ Opened[n] \notin R
  BY <1>1, MarkLives
<1>4. frame.kind # "block"
  <2>1. body[OpenerOf(body, at)].hasElse
    BY <1>2, WellFormedFacts DEF Analyzed
  <2> QED
    BY <1>2, <2>1, StmtFacts
<1> HIDE DEF frame
<1>5. Sealed(blocks', S)
  <2>1. ~ HasTerminator(current) /\ current \in S => frame.next \in S
    BY <1>3, <1>4 DEF Marked
  <2> QED
    BY <1>1, <1>2, <1>3, <2>1, FallSealed
<1>6. Dead(body, R, at') => current' \notin S
  <2>1. Dead(body, R, at + 1) => Dead(body, R, Opened[n])
    BY <1>2, DeadNext DEF Analyzed
  <2> QED
    BY <1>1, <1>3, <1>4, <2>1 DEF Marked
<1>7. Opened' = Opened /\ Seen'.depths = Seen.depths
  BY <1>1, <1>2, ScopeNext
<1>8. \A k \in 1 .. Len(pending') : Marked(R, S, pending'[k], Opened'[k])
  BY <1>1, <1>7 DEF Live
<1>9. LoopsKnown'
  <2>1. \A m : Depth(Seen', m) = Depth(Seen, m)
    BY <1>7 DEF Depth
  <2> QED
    BY <1>1, <2>1, LoopsStay DEF Live
<1> QED
  BY <1>5, <1>6, <1>8, <1>9, LiveThere

(* A statement is closed.                                                  *)
LEMMA PopLives ==
  ASSUME Analyzed, Walking, NEW R, Returning(body, R), NEW S, Live(R, S),
         LoweringAt("close"), Pop, UNCHANGED body, Sealed(blocks', S),
         HasTerminator(current)' \/
           (Dead(body, R, Opened[Len(pending)]) \/ Opened[Len(pending)] \in R => current' \notin S),
         \/ Last(pending).kind # "while" /\ UNCHANGED loopTargets
         \/ Last(pending).kind = "while" /\ loopTargets' = Front(loopTargets)
  PROVE  Live(R, S)'
<1> DEFINE n == Len(pending)
<1>1. /\ at <= Len(body) /\ at \in 1 .. Len(body) /\ Here = body[at] /\ Here.kind = "close"
      /\ n \in Nat \ {0} /\ Len(Opened) = n /\ pending \in Seq(Frame)
      /\ Last(pending) = pending[n] /\ OpenerOf(body, at) = Opened[n]
  BY MarkFacts
<1>2. at' = at + 1 /\ pending' = Front(pending)
  BY DEF Pop
<1>3. /\ Len(pending') = n - 1
      /\ \A k \in 1 .. n - 1 : pending'[k] = pending[k]
  <2>1. pending # << >>
    BY <1>1, LengthFacts
  <2> QED
    BY <1>1, <1>2, <2>1, FrontFacts
<1>4. /\ \A k \in 1 .. n - 1 : Opened'[k] = Opened[k]
      /\ \A k \in 0 .. n - 1 : Depth(Seen', k) = Depth(Seen, k)
  <2>1. /\ \A k \in 1 .. Len(Opened) - 1 : Opened'[k] = Opened[k]
        /\ \A k \in 0 .. Len(Opened) - 1 : Depth(Seen', k) = Depth(Seen, k)
    BY <1>1, <1>2, ClosedNext
  <2> QED
    BY <1>1, <2>1
<1>5. /\ \A k \in 1 .. n - 1 : k \in 1 .. n /\ k \in 0 .. n - 1
      /\ \A k \in 1 .. n : k # n => k \in 1 .. n - 1
  BY <1>1
<1>6. HasTerminator(current)' \/ (Dead(body, R, at') => current' \notin S)
  <2>1. Dead(body, R, at + 1) => Dead(body, R, Opened[n]) \/ Opened[n] \in R
    BY <1>1, DeadNext DEF Analyzed
  <2> QED
    BY <1>2, <2>1
<1>7. \A k \in 1 .. Len(pending') : Marked(R, S, pending'[k], Opened'[k])
  <2>1. \A k \in 1 .. n : Marked(R, S, pending[k], Opened[k])
    BY DEF Live
  <2> HIDE DEF n
  <2> QED
    BY <1>3, <1>4, <1>5, <2>1
<1>8. LoopsKnown'
  <2>1. CASE Last(pending).kind # "while" /\ UNCHANGED loopTargets
    <3>1. ASSUME NEW m \in 1 .. Len(pending), pending[m].kind = "while"
          PROVE  /\ m \in 1 .. Len(pending') /\ pending'[m] = pending[m]
                 /\ Depth(Seen', m) = Depth(Seen, m)
      <4>1. m # n
        BY <1>1, <2>1, <3>1
      <4>2. m \in 1 .. n - 1 /\ m \in 0 .. n - 1
        BY <1>5, <4>1
      <4> HIDE DEF n
      <4> QED
        BY <1>3, <1>4, <4>2
    <3> QED
      BY <2>1, <3>1, LoopsStay DEF Live
  <2>2. CASE Last(pending).kind = "while" /\ loopTargets' = Front(loopTargets)
    <3> DEFINE l == Len(loopTargets)
    <3>1. /\ loopTargets # << >> /\ loopTargets \in Seq(LoopTarget) /\ l = Depth(Seen, n)
      BY <2>2, LoopOpen
    <3>2. /\ Len(loopTargets') = l - 1
          /\ \A k \in 1 .. l - 1 : loopTargets'[k] = loopTargets[k]
          /\ l \in Nat
      BY <2>2, <3>1, FrontFacts, LengthFacts
    <3>3. ASSUME NEW k \in 1 .. l - 1
          PROVE  \E m \in 1 .. n - 1 :
                   /\ pending'[m].kind = "while" /\ Depth(Seen', m) = k
                   /\ loopTargets'[k] =
                        [continue |-> pending'[m].else, break |-> pending'[m].next]
      <4>1. k \in 1 .. l /\ k # l
        BY <3>2
      <4>2. PICK m \in 1 .. n :
              /\ pending[m].kind = "while" /\ Depth(Seen, m) = k
              /\ loopTargets[k] = [continue |-> pending[m].else, break |-> pending[m].next]
        BY <4>1 DEF Live, LoopsKnown
      <4>3. m # n
        BY <3>1, <4>1, <4>2
      <4>4. m \in 1 .. n - 1 /\ m \in 0 .. n - 1
        BY <1>5, <4>3
      <4>5. pending'[m] = pending[m] /\ Depth(Seen', m) = Depth(Seen, m)
            /\ loopTargets'[k] = loopTargets[k]
        BY <1>3, <1>4, <3>2, <4>4
      <4> QED
        BY <4>2, <4>4, <4>5, Zenon
    <3> HIDE DEF l, n
    <3>4. \A k \in 1 .. Len(loopTargets') : \E m \in 1 .. Len(pending') :
            /\ pending'[m].kind = "while" /\ Depth(Seen', m) = k
            /\ loopTargets'[k] = [continue |-> pending'[m].else, break |-> pending'[m].next]
      BY <1>3, <3>2, <3>3, Zenon
    <3> QED
      BY <3>4 DEF LoopsKnown
  <2> QED
    BY <2>1, <2>2
<1> QED
  BY <1>6, <1>7, <1>8, LiveThere

LEMMA CloseBlockLives ==
  ASSUME Analyzed, Walking, NEW R, Returning(body, R), NEW S, Live(R, S),
         CloseBlock, UNCHANGED <<body, returnType>>
  PROVE  Live(R, S)'
<1> DEFINE j == Opened[Len(pending)]
<1>1. /\ LoweringAt("close") /\ Last(pending).kind = "block" /\ Pop
      /\ UNCHANGED <<blocks, current, loopTargets>>
  BY DEF CloseBlock
<1>2. /\ Sealed(blocks, S)
      /\ ~ HasTerminator(current) /\ current \in S => ~ Dead(body, R, j) /\ j \notin R
  BY <1>1, MarkLives
<1>3. HasTerminator(current)' <=> HasTerminator(current)
  BY <1>1 DEF HasTerminator
<1>4. HasTerminator(current)' \/ (Dead(body, R, j) \/ j \in R => current' \notin S)
  BY <1>1, <1>2, <1>3
<1> QED
  BY <1>1, <1>2, <1>4, PopLives

LEMMA CloseIfLives ==
  ASSUME Analyzed, Walking, NEW R, Returning(body, R), NEW S, Live(R, S),
         CloseIf, UNCHANGED <<body, returnType>>
  PROVE  Live(R, S)'
<1> DEFINE j == Opened[Len(pending)]
<1> DEFINE frame == Last(pending)
<1>1. /\ LoweringAt("close") /\ frame.kind = "if" /\ Pop
      /\ blocks' = FallsTo(frame.next) /\ current' = frame.next
      /\ UNCHANGED loopTargets
  BY DEF CloseIf
<1>2. frame.next \in 0 .. Len(blocks) - 1
  BY <1>1, MarkFacts
<1>3. /\ Sealed(blocks, S)
      /\ ~ HasTerminator(current) /\ current \in S => ~ Dead(body, R, j) /\ j \notin R
      /\ frame.next \in S <=> ~ Dead(body, R, j) /\ j \notin R
  BY <1>1, MarkLives DEF Marked
<1>4. Sealed(blocks', S)
  BY <1>1, <1>2, <1>3, FallSealed
<1>5. Dead(body, R, j) \/ j \in R => current' \notin S
  BY <1>1, <1>3
<1> QED
  BY <1>1, <1>4, <1>5, PopLives

LEMMA CloseWhileLives ==
  ASSUME Analyzed, Walking, NEW R, Returning(body, R), NEW S, Live(R, S),
         CloseWhile, UNCHANGED <<body, returnType>>
  PROVE  Live(R, S)'
<1> DEFINE j == Opened[Len(pending)]
<1> DEFINE frame == Last(pending)
<1>1. /\ LoweringAt("close") /\ frame.kind = "while" /\ Pop
      /\ blocks' = FallsTo(frame.else) /\ current' = frame.next
      /\ loopTargets' = Front(loopTargets)
  BY DEF CloseWhile
<1>2. frame.else \in 0 .. Len(blocks) - 1
  BY <1>1, MarkFacts
<1>3. /\ Sealed(blocks, S)
      /\ ~ HasTerminator(current) /\ current \in S => ~ Dead(body, R, j) /\ j \notin R
      /\ frame.next \in S <=> ~ Dead(body, R, j) /\ j \notin R
      /\ frame.else \in S <=> ~ Dead(body, R, j)
  BY <1>1, MarkLives DEF Marked
<1>4. Sealed(blocks', S)
  BY <1>1, <1>2, <1>3, FallSealed
<1>5. Dead(body, R, j) \/ j \in R => current' \notin S
  BY <1>1, <1>3
<1> QED
  BY <1>1, <1>4, <1>5, PopLives

LEMMA SkipLives ==
  ASSUME Analyzed, Walking, NEW R, NEW S, Live(R, S),
         SkipDead, UNCHANGED <<body, returnType>>
  PROVE  Live(R, S)'
<1> DEFINE n == Len(pending)
<1>1. /\ skipping > 0 \/ (Here.kind \notin {"else", "close"} /\ HasTerminator(current))
      /\ UNCHANGED <<blocks, current, loopTargets, pending>>
  BY DEF SkipDead
<1>2. HasTerminator(current)'
  BY <1>1 DEF Walking, Stacks, HasTerminator
<1>3. /\ \A k \in 1 .. n : Opened'[k] = Opened[k]
      /\ \A k \in 0 .. n : Depth(Seen', k) = Depth(Seen, k)
  BY SkipNext
<1>4. Sealed(blocks', S)
  BY <1>1 DEF Live
<1>5. \A k \in 1 .. Len(pending') : Marked(R, S, pending'[k], Opened'[k])
  BY <1>1, <1>3 DEF Live
<1>6. LoopsKnown'
  <2>1. n \in Nat
    BY LengthFacts DEF Walking, Stacks
  <2>2. \A m \in 1 .. n : m \in 0 .. n
    BY <2>1
  <2> QED
    BY <1>1, <1>3, <2>2, LoopsStay DEF Live
<1> QED
  BY <1>2, <1>4, <1>5, <1>6, LiveThere

(* At the start only the entry block is there.                             *)
LEMMA StartLives ==
  ASSUME Analyzed, LoweringInit, NEW R, StartFunction, UNCHANGED <<body, returnType>>
  PROVE  Live(R, {0})'
<1>1. /\ at' = 1 /\ current' = 0 /\ loopTargets' = << >> /\ pending' = << >>
      /\ blocks' = NewBlocks(0, 1) /\ body' = body
  BY DEF LoweringInit, StartFunction
<1>2. Sealed(blocks', {0})
  <2>1. /\ blocks'[1].term = NoTerminator /\ Len(blocks') = 1
    BY <1>1 DEF NewBlocks
  <2>2. Targets(NoTerminator) = {} /\ NoTerminator.kind # "unreachable"
    BY DEF Targets, NoTerminator
  <2>3. 0 + 1 = 1 /\ {0} \subseteq 0 .. 1 - 1
    OBVIOUS
  <2> QED
    BY <2>1, <2>2, <2>3 DEF Sealed
<1>3. ~ Dead(body, R, at')
  BY <1>1 DEF Dead, Over
<1>4. \A k \in 1 .. Len(pending') : Marked(R, {0}, pending'[k], Opened'[k])
  <2>1. Len(pending') = 0
    BY <1>1
  <2> QED
    BY <2>1
<1>5. LoopsKnown'
  <2>1. Len(loopTargets') = 0
    BY <1>1
  <2> QED
    BY <2>1 DEF LoopsKnown
<1> QED
  BY <1>1, <1>2, <1>3, <1>4, <1>5, LiveThere

(* R are the statements of the body that always return, and one of them is *)
(* in the function's own list of statements unless it returns nothing.     *)
CoveredBy(R) ==
  /\ Returning(body, R)
  /\ returnType = "void" \/ \E s \in R : OpenerOf(body, s) = 0

(* At the end of a function that returns a value the last block is not in  *)
(* S: it may be given an Unreachable.                                      *)
LEMMA FinishLives ==
  ASSUME Analyzed, Walking, NEW R, CoveredBy(R), NEW S, Live(R, S),
         FinishFunction, UNCHANGED <<body, returnType>>
  PROVE  Sealed(blocks', S)
<1> DEFINE term == IF returnType = "void" THEN Return(None) ELSE Unreachable
<1>1. /\ at > Len(body)
      /\ blocks' = IF HasTerminator(current) THEN blocks ELSE Ended(blocks, current, term)
  BY DEF FinishFunction
<1>2. /\ current \in 0 .. Len(blocks) - 1 /\ blocks \in Seq(Block) /\ Sealed(blocks, S)
  BY DEF Walking, Graph, Code, BlocksFine, Live
<1>3. CASE HasTerminator(current)
  BY <1>1, <1>2, <1>3
<1>4. CASE ~ HasTerminator(current)
  <2>1. /\ Return(None) \in Terminator /\ Return(None).kind = "return"
        /\ Targets(Return(None)) = {} /\ Unreachable \in Terminator
    <3>1. None \in Int /\ 0 \in Nat
      BY DEF None
    <3> QED
      BY <3>1, TermFacts
  <2>2. CASE returnType = "void"
    <3>1. term = Return(None)
      BY <2>2
    <3> QED
      BY <1>1, <1>2, <1>4, <2>1, <3>1, SealedEnds
  <2>3. CASE returnType # "void"
    <3>1. body \in Seq(Stmt) /\ WellFormed(body) /\ Returning(body, R)
      BY DEF Analyzed, CoveredBy
    <3>2. PICK s \in R : OpenerOf(body, s) = 0
      BY <2>3 DEF CoveredBy
    <3>3. at = Len(body) + 1
      <4>1. Len(body) \in Nat /\ at \in 1 .. Len(body) + 1
        BY FramesOpen
      <4> QED
        BY <1>1, <4>1
    <3>4. Dead(body, R, at)
      BY <3>1, <3>2, <3>3, DeadAtEnd
    <3>5. current \notin S
      BY <1>4, <3>4 DEF Live
    <3>6. term = Unreachable
      BY <2>3
    <3> QED
      BY <1>1, <1>2, <1>4, <2>1, <3>5, <3>6, SealedEnds
  <2> QED
    BY <2>2, <2>3
<1> QED
  BY <1>3, <1>4

(* While the function is lowered some set of blocks is live, and in the    *)
(* end no block of that set is Unreachable.                                *)
KInv(R) ==
  /\ stage = "lowering" => \E S : Live(R, S)
  /\ stage = "lowered" => \E S : Sealed(blocks, S)

LEMMA WalkingLives ==
  ASSUME Analyzed, Walking, NEW R, CoveredBy(R), NEW S, Live(R, S), LoweringStep,
         UNCHANGED <<body, returnType>>, ~ FinishFunction
  PROVE  \E S1 : Live(R, S1)'
<1>1. Returning(body, R)
  BY DEF CoveredBy
<1>2. ~ StartFunction
  BY DEF StartFunction, Walking
<1>3. CASE LowerDeclare
  <2>1. Live(R, S)'
    BY <1>1, <1>3, DeclareKeeps, DeclareLives
  <2> QED
    BY <2>1
<1>4. CASE LowerAssign
  <2>1. Live(R, S)'
    BY <1>1, <1>4, AssignKeeps, AssignLives
  <2> QED
    BY <2>1
<1>5. CASE LowerPrint
  <2>1. Live(R, S)'
    BY <1>1, <1>5, PrintKeeps, PrintLives
  <2> QED
    BY <2>1
<1>6. CASE LowerReturn
  BY <1>1, <1>6, ReturnLives
<1>7. CASE LowerJump
  BY <1>1, <1>7, JumpLives
<1>8. CASE LowerBlock
  BY <1>1, <1>8, BlockLives
<1>9. CASE LowerIf
  BY <1>1, <1>9, IfLives
<1>10. CASE LowerElse
  BY <1>1, <1>10, ElseLives
<1>11. CASE LowerWhile
  BY <1>1, <1>11, WhileLives
<1>12. CASE CloseBlock
  BY <1>1, <1>12, CloseBlockLives
<1>13. CASE CloseIf
  BY <1>1, <1>13, CloseIfLives
<1>14. CASE CloseWhile
  BY <1>1, <1>14, CloseWhileLives
<1>15. CASE SkipDead
  BY <1>15, SkipLives
<1> QED
  BY <1>2, <1>3, <1>4, <1>5, <1>6, <1>7, <1>8, <1>9, <1>10, <1>11, <1>12, <1>13, <1>14,
     <1>15 DEF LoweringStep

(* Every step of lowering keeps it.                                        *)
LEMMA StepLives ==
  ASSUME Analyzed, LInv, NEW R, CoveredBy(R), KInv(R), LoweringStep,
         UNCHANGED <<body, returnType>>
  PROVE  KInv(R)'
<1>1. CASE stage # "lowering"
  <2>1. StartFunction
    BY <1>1 DEF LoweringStep, LowerDeclare, LowerAssign, LowerPrint, LowerReturn, LowerJump,
       LowerBlock, LowerIf, LowerElse, LowerWhile, CloseBlock, CloseIf, CloseWhile, SkipDead,
       FinishFunction, Lower, LoweringAt
  <2>2. LoweringInit /\ stage' = "lowering"
    BY <2>1 DEF LInv, StartFunction, Walking, Built
  <2>3. Live(R, {0})'
    BY <2>1, <2>2, StartLives
  <2> QED
    BY <2>2, <2>3 DEF KInv
<1>2. CASE stage = "lowering"
  <2>1. Walking
    BY <1>2 DEF LInv, LoweringInit, Built
  <2>2. PICK S : Live(R, S)
    BY <1>2 DEF KInv
  <2>3. CASE FinishFunction
    <3>1. Sealed(blocks', S) /\ stage' = "lowered"
      BY <2>1, <2>2, <2>3, FinishLives DEF FinishFunction
    <3> QED
      BY <3>1 DEF KInv
  <2>4. CASE ~ FinishFunction
    <3>1. \E S1 : Live(R, S1)'
      BY <2>1, <2>2, <2>4, WalkingLives
    <3>2. stage' # "lowered"
      BY <1>2, <2>4 DEF LoweringStep, StartFunction, LowerDeclare, LowerAssign, LowerPrint,
         LowerReturn, LowerJump, LowerBlock, LowerIf, LowerElse, LowerWhile, CloseBlock, CloseIf,
         CloseWhile, SkipDead, Lower
    <3> QED
      BY <3>1, <3>2 DEF KInv
  <2> QED
    BY <2>3, <2>4
<1> QED
  BY <1>1, <1>2

(* So does a step of another stage.                                        *)
LEMMA StutterLives ==
  ASSUME NEW R, UNCHANGED lowerVars, UNCHANGED <<body, returnType>>
  PROVE  (CoveredBy(R)' <=> CoveredBy(R)) /\ (KInv(R)' <=> KInv(R))
<1>1. UNCHANGED <<at, blocks, current, loopTargets, pending, stage, body, returnType>>
  BY DEF lowerVars
<1>2. CoveredBy(R)' <=> CoveredBy(R)
  BY <1>1 DEF CoveredBy
<1>3. Opened' = Opened /\ Seen' = Seen
  BY <1>1 DEF Opened, Seen
<1>4. HasTerminator(current)' <=> HasTerminator(current)
  BY <1>1 DEF HasTerminator
<1>5. LoopsKnown' <=> LoopsKnown
  BY <1>1, <1>3 DEF LoopsKnown
<1>6. ASSUME NEW S
      PROVE  Live(R, S)' <=> Live(R, S)
  BY <1>1, <1>3, <1>4, <1>5 DEF Live, Marked
<1> QED
  BY <1>1, <1>2, <1>6 DEF KInv
=============================================================================
