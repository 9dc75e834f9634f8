-------------------------------- MODULE Lexer --------------------------------
(***************************************************************************)
(* The scanner (src/lexer.cpp).  A text is a sequence of characters, each  *)
(* a string of length 1.  A token is a tuple: its kind, which for keywords *)
(* and signs is their text, and for identifiers, numbers and strings what  *)
(* they say: <<"id", name>>, <<"text", s>>, and <<"number", <<type, x>>>>  *)
(* with the type and the value that analysis gives the digits.  The last   *)
(* token is <<"end">>.  Lines and columns only go into messages.           *)
(*                                                                         *)
(* A scanner takes the text and its place in it, and answers with the      *)
(* place after what it has read and the token; one that throws is Stuck.   *)
(***************************************************************************)
EXTENDS Integers, FiniteSetsExt, SequencesExt, TLC

Got(i, x) == [at |-> i, x |-> x]
Stuck == [at |-> 0, x |-> << >>]

Characters(s) == [k \in 1 .. Len(s) |-> SubSeq(s, k, k)]
WordOf(chars) == FoldLeft(LAMBDA s, c : s \o c, "", chars)

Letters == ToSet(Characters("abcdefghijklmnopqrstuvwxyzABCDEFGHIJKLMNOPQRSTUVWXYZ_"))
DigitsUp == Characters("0123456789")
DigitChars == ToSet(DigitsUp)
Blanks == {" ", "\t", "\n", "\r", "\f"}

Keywords ==
  {"public", "private", "protected", "internal", "static", "readonly", "const", "volatile",
   "unsafe", "fn", "type", "struct", "if", "else", "while", "break", "continue", "return",
   "import", "extern", "from", "true", "false", "and", "or", "not", "var", "int32", "float32",
   "float64", "string", "bool", "void"}
KeywordOf == [w \in Keywords |-> w]
             @@ "Import" :> "import" @@ "Extern" :> "extern" @@ "From" :> "from"
LongSigns == {"->", "==", "!=", "<=", ">="}
ShortSigns == ToSet(Characters("(){}[],;.+*/-=!&<>"))

(* What is at place i, "" after the end; and the first place from i on     *)
(* that has none of the given characters.                                  *)
CharAt(text, i) == IF i <= Len(text) THEN text[i] ELSE ""
EndOf(text, i, chars) == Min({j \in i .. Len(text) + 1 : CharAt(text, j) \notin chars})

-----------------------------------------------------------------------------
(* Over blanks and comments.  A comment that is never closed ends with the *)
(* text.                                                                   *)
LineEnd(text, i) == Min({j \in i .. Len(text) + 1 : CharAt(text, j) \in {"\n", ""}})
CommentEnd(text, i) ==
  Min({Len(text) + 1} \cup {j + 2 : j \in {k \in i + 2 .. Len(text) - 1 :
                                             text[k] = "*" /\ text[k + 1] = "/"}})

RECURSIVE SkipWhitespace(_, _), StringFrom(_, _, _)

SkipWhitespace(text, i) ==
  CASE CharAt(text, i) \in Blanks -> SkipWhitespace(text, i + 1)
    [] CharAt(text, i) = "/" /\ CharAt(text, i + 1) = "/" -> SkipWhitespace(text, LineEnd(text, i))
    [] CharAt(text, i) = "/" /\ CharAt(text, i + 1) = "*" -> SkipWhitespace(text, CommentEnd(text, i))
    [] OTHER -> i

IdentifierOrKeyword(text, i) ==
  LET end == EndOf(text, i, Letters \cup DigitChars)
      chars == SubSeq(text, i, end - 1)
  IN  Got(end, IF WordOf(chars) \in DOMAIN KeywordOf THEN <<KeywordOf[WordOf(chars)]>>
               ELSE <<"id", chars>>)

(* Digits as a number, and a number with at most one digit after the point *)
(* in halves.                                                              *)
DigitValue(c) == (CHOOSE d \in 1 .. 10 : DigitsUp[d] = c) - 1
IntegerOf(chars) == FoldLeft(LAMBDA n, c : 10 * n + DigitValue(c), 0, chars)
Halves(chars, fraction) == 2 * IntegerOf(chars) + (IF fraction = <<"5">> THEN 1 ELSE 0)

Number(text, i) ==
  LET point == EndOf(text, i, DigitChars)
      hasPoint == CharAt(text, point) = "." /\ CharAt(text, point + 1) \in DigitChars
      end == IF hasPoint THEN EndOf(text, point + 1, DigitChars) ELSE point
      whole == SubSeq(text, i, point - 1)
      fraction == SubSeq(text, point + 1, end - 1)
  IN  CASE CharAt(text, end) = "f" -> Got(end + 1, <<"number", <<"float32", Halves(whole, fraction)>>>>)
        [] CharAt(text, end) # "f" /\ hasPoint ->
             Got(end, <<"number", <<"float64", Halves(whole, fraction)>>>>)
        [] OTHER -> Got(end, <<"number", <<"int32", IntegerOf(whole)>>>>)

Escaped(c) ==
  CASE c = "n" -> "\n" [] c = "t" -> "\t" [] c = "r" -> "\r" [] OTHER -> c

StringFrom(text, i, value) ==
  CASE CharAt(text, i) = "" -> Stuck
    [] CharAt(text, i) = "\"" -> Got(i + 1, <<"text", value>>)
    [] CharAt(text, i) = "\\" /\ CharAt(text, i + 1) # "" ->
         StringFrom(text, i + 2, Append(value, Escaped(text[i + 1])))
    [] OTHER -> StringFrom(text, i + 1, Append(value, text[i]))

SignAt(text, i) ==
  CASE text[i] \o CharAt(text, i + 1) \in LongSigns -> Got(i + 2, <<text[i] \o text[i + 1]>>)
    [] text[i] \o CharAt(text, i + 1) \notin LongSigns /\ text[i] \in ShortSigns -> Got(i + 1, <<text[i]>>)
    [] OTHER -> Stuck

(* One round of tokenize, at a place that is not blank.                    *)
ScanToken(text, i) ==
  CASE CharAt(text, i) = "" -> Got(i, <<"end">>)
    [] CharAt(text, i) \in Letters -> IdentifierOrKeyword(text, i)
    [] CharAt(text, i) \in DigitChars -> Number(text, i)
    [] CharAt(text, i) = "\"" -> StringFrom(text, i + 1, << >>)
    [] OTHER -> SignAt(text, i)
=============================================================================
