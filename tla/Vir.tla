--------------------------------- MODULE Vir ---------------------------------
(***************************************************************************)
(* The typed intermediate representation of voltisc (src/vir.h), cut down  *)
(* to what control flow, value numbering and the passes depend on.         *)
(*                                                                         *)
(* A function is [blocks, locals, void]: its blocks in vector order (the   *)
(* first is the entry block), the number of its local slots, and whether   *)
(* it returns nothing.  Value ids and block ids are the indices of ValueId *)
(* and BlockId.  Constants keep their value only when it is a boolean:     *)
(* no pass looks at any other one.                                         *)
(***************************************************************************)
EXTENDS Integers, FiniteSets, SequencesExt

None == -1      \* an absent std::optional of a value or local id

(* def is the result, uses the operands, slot the local that is loaded or  *)
(* stored, and truth tells a boolean constant from everything else.        *)
Instruction ==
  [op : {"constant", "load", "store", "operate", "call", "print"},
   def : Int, uses : SUBSET Nat, slot : Int,
   truth : {"true", "false", "other"}]

Terminator ==
  [kind : {"missing", "return", "branch", "cond", "unreachable"},
   value : Int, then : Nat, else : Nat]

Block == [id : Nat, code : Seq(Instruction), term : Terminator]

Function == [blocks : Seq(Block), locals : Nat, void : BOOLEAN]

NoTerminator == [kind |-> "missing", value |-> None, then |-> 0, else |-> 0]
Return(v) == [kind |-> "return", value |-> v, then |-> 0, else |-> 0]
Branch(b) == [kind |-> "branch", value |-> None, then |-> b, else |-> 0]
CondBranch(v, b, c) == [kind |-> "cond", value |-> v, then |-> b, else |-> c]
Unreachable == [kind |-> "unreachable", value |-> None, then |-> 0, else |-> 0]

Constant(v, truth) ==
  [op |-> "constant", def |-> v, uses |-> {}, slot |-> None, truth |-> truth]
Load(v, l) ==
  [op |-> "load", def |-> v, uses |-> {}, slot |-> l, truth |-> "other"]
Store(l, v) ==
  [op |-> "store", def |-> None, uses |-> {v}, slot |-> l, truth |-> "other"]
Operate(v, uses) ==
  [op |-> "operate", def |-> v, uses |-> uses, slot |-> None, truth |-> "other"]
Output(v) ==
  [op |-> "print", def |-> None, uses |-> {v}, slot |-> None, truth |-> "other"]

(* The blocks a terminator names.                                          *)
Targets(term) ==
  CASE term.kind = "branch" -> {term.then}
    [] term.kind = "cond" -> {term.then, term.else}
    [] OTHER -> {}

Ids(blocks) == {blocks[i].id : i \in DOMAIN blocks}

BlockWithId(blocks, id) == blocks[CHOOSE i \in DOMAIN blocks : blocks[i].id = id]

(* The ids the instructions of a sequence of blocks define.                *)
Defined(blocks) ==
  (UNION {{blocks[i].code[j].def : j \in DOMAIN blocks[i].code} :
            i \in DOMAIN blocks}) \ {None}
=============================================================================
