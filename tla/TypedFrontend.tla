---------------------------- MODULE TypedFrontend ----------------------------
(***************************************************************************)
(* Programs on their way through the scanner (src/lexer.cpp, tokenize) and *)
(* the parser (src/parser.cpp, parseProgram), and typed ones further       *)
(* through semantic analysis (src/sema.cpp, analyze) and lowering          *)
(* (src/lowering.cpp, run): token by token, declaration by declaration,    *)
(* and function by function, first all of them in analysis, then, if there *)
(* was no diagnostic, all of them in lowering.                             *)
(***************************************************************************)
EXTENDS TypedLowering, TypedMeaning, Parser

CONSTANTS
  Sources,     \* texts: characters or tokens, the tree they were written for, and their kind
  TypeNames,
  Fuel         \* a program may take 2^Fuel steps

Docs == INSTANCE Syntax

VARIABLES
  source,
  tokens,      \* what the scanner has read so far
  at,          \* the scanner's place in the text, then the parser's in the tokens
  program,     \* what it has read so far
  stage,       \* "scan", "parse", "syntax error", "parsed", "register", "analyze", "collect",
               \* "lower", "lowered", "rejected", "failed"
  known,       \* what analysis knows of the functions
  trees,       \* the functions analyzed so far
  signatures,  \* what lowering knows of the functions
  lowered,     \* the functions lowered so far
  fine         \* no diagnostic in this phase

vars == <<source, tokens, at, program, stage, known, trees, signatures, lowered, fine>>

Init ==
  /\ source \in Sources
  /\ tokens = source.tokens
  /\ at = 1
  /\ program = EmptyProgram
  /\ stage = IF source.kind = "text" THEN "scan" ELSE "parse"
  /\ known = << >>
  /\ trees = << >>
  /\ signatures = << >>
  /\ lowered = << >>
  /\ fine = TRUE

ScanNext ==
  /\ stage = "scan"
  /\ \E read \in {ScanToken(source.text, SkipWhitespace(source.text, at))} :
       /\ stage' = CASE read.at = 0 -> "syntax error"
                     [] read.x = <<"end">> -> "parse"
                     [] OTHER -> stage
       /\ tokens' = Append(tokens, read.x)
       /\ at' = IF stage' = stage THEN read.at ELSE 1
  /\ UNCHANGED <<source, program, known, trees, signatures, lowered, fine>>

(* Of the typed programs the later phases are modelled, of the others only *)
(* the parser.                                                             *)
ParseDeclaration ==
  /\ stage = "parse" /\ tokens[at] # <<"end">>
  /\ \E read \in {ParseTopLevel(tokens, at)} :
       IF read.at = 0
       THEN stage' = "syntax error" /\ UNCHANGED <<at, program>>
       ELSE /\ at' = read.at
            /\ program' = [program EXCEPT ![read.x.list] = Append(@, read.x.item)]
            /\ UNCHANGED stage
  /\ UNCHANGED <<source, tokens, known, trees, signatures, lowered, fine>>

FinishParsing ==
  /\ stage = "parse" /\ tokens[at] = <<"end">>
  /\ stage' = IF source.kind = "typed" THEN "register" ELSE "parsed"
  /\ UNCHANGED <<source, tokens, at, program, known, trees, signatures, lowered, fine>>

RegisterFunctions ==
  /\ stage = "register"
  /\ known' = Registered(program)
  /\ stage' = "analyze"
  /\ UNCHANGED <<source, tokens, at, program, trees, signatures, lowered, fine>>

AnalyzeFunction ==
  /\ stage = "analyze"
  /\ \E done \in {AnalyzedFunction(program.functions[Len(trees) + 1], known)} :
       /\ trees' = Append(trees, done.function)
       /\ known' = done.known
       /\ fine' = (fine /\ done.ok)
  /\ stage' = CASE Len(trees') < Len(program.functions) -> stage
                [] fine' -> "collect"
                [] OTHER -> "rejected"
  /\ UNCHANGED <<source, tokens, at, program, signatures, lowered>>

CollectFunctionSignatures ==
  /\ stage = "collect"
  /\ signatures' = SignaturesOf(trees, program.externs)
  /\ fine' = SignaturesKnown(trees, program.externs)
  /\ stage' = "lower"
  /\ UNCHANGED <<source, tokens, at, program, known, trees, lowered>>

LowerFunction ==
  /\ stage = "lower"
  /\ \E done \in {LoweredFunction(trees[Len(lowered) + 1], signatures)} :
       /\ lowered' = Append(lowered, done.function)
       /\ fine' = (fine /\ done.ok)
  /\ stage' = CASE Len(lowered') < Len(trees) -> stage
                [] fine' -> "lowered"
                [] OTHER -> "failed"
  /\ UNCHANGED <<source, tokens, at, program, known, trees, signatures>>

Next ==
  \/ ScanNext \/ ParseDeclaration \/ FinishParsing
  \/ RegisterFunctions \/ AnalyzeFunction \/ CollectFunctionSignatures \/ LowerFunction

Spec == Init /\ [][Next]_vars

(* What the scanner and the parser accept means what the comments, the     *)
(* grammar and the precedence of docs/spec/syntax.md say: a program that   *)
(* is written that way is read back as it was, and of a damaged sequence   *)
(* of tokens that is accepted nothing is lost.                             *)
ReadsWhatIsWritten ==
  /\ stage = "syntax error" => source.kind = "damaged"
  /\ stage \in {"parsed", "register"} =>
       IF source.kind = "damaged"
       THEN Docs!Bare(Docs!Written(program)) = Docs!Bare(source.tokens)
       ELSE program = source.tree

Module == [imports |-> program.imports, externs |-> program.externs, functions |-> lowered]

-----------------------------------------------------------------------------
(* The expressions of a body, and those inside of an expression.           *)
RECURSIVE Parts(_), Expressions(_)
Parts(e) ==
  {e} \cup CASE e.kind = "unary" -> Parts(e.right)
             [] e.kind = "binary" -> Parts(e.left) \cup Parts(e.right)
             [] e.kind = "member" -> Parts(e.object)
             [] e.kind = "call" -> UNION {Parts(a) : a \in ToSet(e.args)}
             [] OTHER -> {}
Expressions(body) ==
  UNION {CASE s.kind = "return" -> UNION {Parts(e) : e \in ToSet(s.expr)}
           [] s.kind = "if" -> Parts(s.expr) \cup Expressions(s.then) \cup Expressions(s.else)
           [] s.kind = "while" -> Parts(s.expr) \cup Expressions(s.body)
           [] OTHER -> Parts(s.expr) : s \in ToSet(body)}

CallsOf(f) == {e \in Expressions(f.body) : e.kind = "call" /\ IsNamed(program.functions, e.callee)}

(* A function's type is known from the start when it declares one, and to  *)
(* the functions after it, and to itself, in any case.                     *)
KnownInTime(k, name) ==
  \E i \in DOMAIN program.functions :
    /\ program.functions[i].name = name
    /\ program.functions[i].returns # Inferred \/ i < k

(* The type of a call is the type that its function turns out to return,   *)
(* unless that type was inferred only after the call was analyzed: a       *)
(* function without a return type counts as void until then.               *)
CallTypesAreFinal ==
  stage = "collect" =>
    \A k \in DOMAIN trees : \A e \in CallsOf(trees[k]) :
      KnownInTime(k, e.callee) => e.type = Named(trees, e.callee).returns

(* What semantic analysis accepts and lowering does not: types that only   *)
(* the front end knows, a comparison of two calls that return nothing, and *)
(* a call whose type was not known in time.                                *)
Unsupported ==
  \/ ~ SignaturesKnown(trees, program.externs)
  \/ \E k \in DOMAIN trees :
       \/ \E s \in ToSet(trees[k].body) : s.kind = "declare" /\ s.type \notin VirTypes
       \/ \E e \in Expressions(trees[k].body) :
            \/ e.type \notin VirTypes
            \/ e.kind = "binary" /\ "void" \in {e.left.type, e.right.type}
       \/ \E e \in CallsOf(trees[k]) : ~ KnownInTime(k, e.callee)

(* Lowering reports nothing for a program that semantic analysis accepts,  *)
(* the unsupported ones aside: in particular no conversion is missing.     *)
LoweringNeverFails == stage = "failed" => Unsupported

-----------------------------------------------------------------------------
(* The operands of an instruction have the types that it takes them for.   *)
WellTyped(fn, inst) ==
  LET type(v) == ValueType(fn, v)
      takes(params) == /\ Len(inst.args) = Len(params)
                       /\ \A k \in DOMAIN params : type(inst.args[k]) = params[k]
  IN  CASE inst.kind = "load" -> inst.type = fn.locals[inst.local + 1]
        [] inst.kind = "store" -> /\ inst.type = fn.locals[inst.local + 1]
                                  /\ type(inst.value) = inst.type
        [] inst.kind = "unary" -> type(inst.operand) = inst.type
        [] inst.kind = "binary" ->
             /\ type(inst.left) = type(inst.right)
             /\ inst.op \in {"+", "-", "*", "/", "and", "or"} => type(inst.left) = inst.type
             /\ inst.op \in {"==", "!=", "<", "<=", ">", ">="} => inst.type = "bool"
        [] inst.kind = "convert" -> type(inst.input) = inst.from
        [] inst.kind = "extern" -> takes(TheExtern(Module, inst.callee).params)
        [] inst.kind = "call" -> /\ takes(TheFunction(Module, inst.callee).params)
                                 /\ inst.returns = TheFunction(Module, inst.callee).returns
        [] OTHER -> TRUE

WellEnded(fn, term) ==
  CASE term.kind = "cond" -> ValueType(fn, term.value) = "bool"
    [] term.kind = "return" ->
         IF term.value = None THEN fn.returns = "void"
         ELSE ValueType(fn, term.value) = fn.returns
    [] OTHER -> term # Missing

(* Every instruction, call, condition and return of the VIR that lowering  *)
(* writes gets values of the type it takes them for: no conversion that    *)
(* semantic analysis relies on was forgotten (castTo, lowering.cpp).       *)
VirIsWellTyped ==
  stage = "lowered" =>
    \A f \in DOMAIN lowered : \A b \in DOMAIN lowered[f].blocks :
      LET block == lowered[f].blocks[b]
      IN  /\ \A k \in DOMAIN block.code : WellTyped(lowered[f], block.code[k])
          /\ WellEnded(lowered[f], block.term)

(* A program that gets through means as VIR what it means as source.       *)
SameMeaning ==
  stage = "lowered" /\ (\E f \in ToSet(trees) : f.name = Main /\ f.params = << >>) =>
    VirRun(Module, Fuel) = SourceRun([program EXCEPT !.functions = trees], Fuel)
=============================================================================
