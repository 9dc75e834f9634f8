----------------------------- MODULE MCVirPasses -----------------------------
(***************************************************************************)
(* Control-flow graphs for VirPasses.  Block i (id i - 1) defines value    *)
(* i - 1, a boolean constant or something unknown.                         *)
(*   Three    all graphs of three blocks whose branches test their own     *)
(*            value: constant or unknown, loops, joins, dead blocks;       *)
(*   Four     four blocks, unknown conditions only: deeper worklists;      *)
(*   Two      two blocks whose branches may test the other block's value,  *)
(*            which the verifier accepts, or lead to a block that does not *)
(*            exist, which it rejects.                                     *)
(***************************************************************************)
EXTENDS VirPasses

Numbered(parts) ==
  [blocks |-> [i \in DOMAIN parts |->
                 [id |-> i - 1, code |-> <<Constant(i - 1, parts[i].truth)>>,
                  term |-> parts[i].term]],
   locals |-> 0, void |-> TRUE]

Jumps(n) == {Return(None)} \cup {Branch(b) : b \in 0 .. n - 1}

Tests(v, n, truths) ==
  {[truth |-> t, term |-> CondBranch(v, p[1], p[2])] :
     t \in truths, p \in {q \in (0 .. n - 1) \X (0 .. n - 1) : q[1] # q[2]}}

Quiet(n) == [truth : {"other"}, term : Jumps(n)]

All == {"true", "false", "other"}

Three ==
  {Numbered(<<a, b, c>>) :
     a \in Quiet(3) \cup Tests(0, 3, All),
     b \in Quiet(3) \cup Tests(1, 3, All),
     c \in Quiet(3) \cup Tests(2, 3, All)}

Four ==
  {Numbered(<<a, b, c, d>>) :
     a \in {x \in Tests(0, 4, {"other"}) : x.term.then < x.term.else},
     b \in Quiet(4) \cup Tests(1, 4, {"other"}),
     c \in Quiet(4) \cup Tests(2, 4, {"other"}),
     d \in Quiet(4)}

Two ==
  {Numbered(<<a, b>>) :
     a \in [truth : All, term : Jumps(3) \cup {CondBranch(1, 0, 1), CondBranch(1, 1, 0),
                                              CondBranch(0, 1, 1)}],
     b \in [truth : All, term : Jumps(2) \cup {CondBranch(0, 0, 1), CondBranch(0, 1, 0),
                                              CondBranch(1, 0, 0)}]}

MCSources == Three \cup Four \cup Two
=============================================================================
