----------------------------- MODULE ArrayText -----------------------------
(***************************************************************************)
(* valueMapper.parseArray and splitArrayElements, the one conversion of    *)
(* the value mapper that is a parser: PostgreSQL writes an array as text   *)
(* (array_out) and the mapper takes it apart again.  Each iteration of the *)
(* mapper's loops is a step; array_out writes one character per step.      *)
(*                                                                         *)
(* A text is a sequence of characters; those of the array syntax have      *)
(* names, "space" stands for the white space of ASCII (all of it is quoted *)
(* and trimmed alike), and the word NULL, in whatever case, counts as one. *)
(* Elements are texts: those of the other supported types hold no special  *)
(* character.                                                              *)
(***************************************************************************)
EXTENDS Integers, Sequences, FiniteSetsExt

CONSTANTS
  Letters,    \* characters that mean nothing to anybody
  Blanks,     \* white space to Go's unicode.IsSpace only (U+00A0, U+3000, ...)
  MaxLen,     \* bound: characters in an element
  MaxElems    \* bound: elements of an array

Special == {"lbrace", "rbrace", "comma", "quote", "backslash", "space"}

ASSUME LettersAssumption ==
  /\ Letters \cap (Special \cup {"NULL", "absent", "bounds"}) = {}
  /\ Blanks \cap (Letters \cup Special \cup {"NULL", "absent", "bounds"}) = {}
ASSUME BoundsAssumption == MaxLen \in Nat /\ MaxElems \in Nat

Null == <<"absent">>
Texts == UNION {[1 .. n -> Letters \cup Blanks \cup Special \cup {"NULL"}] : n \in 0 .. MaxLen}
Arrays == UNION {[1 .. n -> Texts \cup {Null}] : n \in 0 .. MaxElems}
Verbatim(x) == [array |-> FALSE, elems |-> x]
Array(x) == [array |-> TRUE, elems |-> x]

VARIABLES
  arr,      \* the elements a writer stored
  shape,    \* one dimension from 1 on ("flat"), a row of a matrix, or other bounds
  text,     \* what array_out has written
  role,     \* what each character of text stands for
  pc,       \* where the mapper is
  s, i,     \* splitArrayElements: its argument and position
  start,    \* ... the start of a plain element
  sb,       \* ... the quoted element being read
  elems,    \* ... the elements found
  result    \* what parseArray returns
stored == <<arr, shape>>
written == <<text, role>>
vars == <<arr, shape, text, role, pc, s, i, start, sb, elems, result>>
----------------------------------------------------------------------------
(* PostgreSQL's array_out.  The role of a character says which part of the *)
(* text it is, of which element k and for which character j of it.         *)

NeedsQuotes(e) == e \in {<<>>, <<"NULL">>} \/ \E x \in DOMAIN e : e[x] \in Special
Word(e) == IF e = Null THEN <<"NULL">> ELSE e
At(part, k, j) == [part |-> part, k |-> k, j |-> j]

First == IF shape = "flat" THEN At("brace", 0, 0) ELSE At("prefix", 0, 0)
Final(r) == r.part = IF shape = "nested" THEN "suffix" ELSE "end"

AfterElement(k) == IF k < Len(arr) THEN At("comma", k, 0) ELSE At("end", k, 0)
AtChar(k, j) ==
  IF j <= Len(Word(arr[k]))
    THEN At(IF NeedsQuotes(arr[k]) /\ Word(arr[k])[j] \in {"quote", "backslash"}
              THEN "esc" ELSE "char", k, j)
  ELSE IF NeedsQuotes(arr[k]) THEN At("close", k, 0)
  ELSE AfterElement(k)
AtElement(k) == IF NeedsQuotes(arr[k]) THEN At("open", k, 0) ELSE AtChar(k, 1)

\* What is written after a character with role r.
After(r) ==
  CASE r.part = "prefix" -> At("brace", 0, 0)
    [] r.part = "brace" -> IF arr = <<>> THEN At("end", 0, 0) ELSE AtElement(1)
    [] r.part = "comma" -> AtElement(r.k + 1)
    [] r.part = "open" -> AtChar(r.k, 1)
    [] r.part = "esc" -> At("char", r.k, r.j)
    [] r.part = "char" -> AtChar(r.k, r.j + 1)
    [] r.part = "close" -> AfterElement(r.k)
    [] OTHER -> At("suffix", 0, 0)

Glyph(r) ==
  CASE r.part = "prefix" -> IF shape = "nested" THEN "lbrace" ELSE "bounds"
    [] r.part = "brace" -> "lbrace"
    [] r.part = "comma" -> "comma"
    [] r.part \in {"open", "close"} -> "quote"
    [] r.part = "esc" -> "backslash"
    [] r.part = "char" -> Word(arr[r.k])[r.j]
    [] OTHER -> "rbrace"

array_out ==
  /\ pc = "write"
  /\ LET r == After(role[Len(role)]) IN
       /\ role' = Append(role, r)
       /\ text' = Append(text, Glyph(r))
       /\ pc' = IF Final(r) THEN "parse" ELSE "write"
  /\ UNCHANGED <<stored, s, i, start, sb, elems, result>>
----------------------------------------------------------------------------
(* The mapper.                                                             *)

White == {"space"} \cup Blanks

TrimSpace(x) ==
  LET ink == {p \in 1 .. Len(x) : x[p] \notin White}
  IN IF ink = {} THEN <<>> ELSE SubSeq(x, Min(ink), Max(ink))

\* The first position of x from p on that is not a space.
SkipSpaces(x, p) ==
  CHOOSE q \in p .. Len(x) + 1 :
    /\ \A y \in p .. q - 1 : x[y] = "space"
    /\ q <= Len(x) => x[q] # "space"
SkipComma(x, p) == IF p <= Len(x) /\ x[p] = "comma" THEN p + 1 ELSE p

Return(r) == result' = r /\ pc' = "done" /\ UNCHANGED <<s, i>>

\* A text that is not an array stays as it is.
parseArray ==
  /\ pc = "parse"
  /\ LET t == TrimSpace(text) IN
       IF Len(t) < 2 \/ t[1] # "lbrace" \/ t[Len(t)] # "rbrace"
         THEN Return(Verbatim(t))
         ELSE s' = SubSeq(t, 2, Len(t) - 1) /\ pc' = "inner" /\ UNCHANGED <<i, result>>
  /\ UNCHANGED <<stored, written, start, sb, elems>>

\* So does one of several dimensions.
parseInner ==
  /\ pc = "inner"
  /\ LET trimmed == TrimSpace(s) IN
       IF trimmed # <<>> /\ trimmed[1] = "lbrace" THEN Return(Verbatim(TrimSpace(text)))
       ELSE IF trimmed = <<>> THEN Return(Array(<<>>))
       ELSE i' = 1 /\ pc' = "split" /\ UNCHANGED <<s, result>>
  /\ UNCHANGED <<stored, written, start, sb, elems>>

\* The top of the loop over the elements.
NextElement ==
  /\ pc = "split"
  /\ LET p == SkipSpaces(s, i) IN
       \/ /\ p > Len(s)
          /\ i' = p /\ pc' = "map"
          /\ UNCHANGED <<start, sb>>
       \/ /\ p <= Len(s) /\ s[p] = "quote"
          /\ i' = p + 1 /\ sb' = <<>> /\ pc' = "quoted"
          /\ UNCHANGED start
       \/ /\ p <= Len(s) /\ s[p] # "quote"
          /\ i' = p /\ start' = p /\ pc' = "plain"
          /\ UNCHANGED sb
  /\ UNCHANGED <<stored, written, s, elems, result>>

\* Fault: a backslash in a quoted element is an ordinary character.
QuotedCharNoEscape ==
  /\ pc = "quoted" /\ i <= Len(s) /\ s[i] # "quote"
  /\ sb' = Append(sb, s[i]) /\ i' = i + 1
  /\ UNCHANGED <<stored, written, pc, s, start, elems, result>>

\* A backslash takes the next character as it is.
QuotedChar ==
  /\ pc = "quoted" /\ i <= Len(s)
  /\ \/ /\ s[i] = "backslash" /\ i + 1 <= Len(s)
        /\ sb' = Append(sb, s[i + 1]) /\ i' = i + 2
     \/ /\ s[i] # "quote" /\ ~ (s[i] = "backslash" /\ i + 1 <= Len(s))
        /\ sb' = Append(sb, s[i]) /\ i' = i + 1
  /\ UNCHANGED <<stored, written, pc, s, start, elems, result>>

QuotedEnd ==
  /\ pc = "quoted"
  /\ i <= Len(s) => s[i] = "quote"
  /\ elems' = Append(elems, sb)
  /\ i' = SkipComma(s, SkipSpaces(s, IF i <= Len(s) THEN i + 1 ELSE i))
  /\ pc' = "split"
  /\ UNCHANGED <<stored, written, s, start, sb, result>>

PlainChar ==
  /\ pc = "plain" /\ i <= Len(s) /\ s[i] # "comma"
  /\ i' = i + 1
  /\ UNCHANGED <<stored, written, pc, s, start, sb, elems, result>>

\* Fault: only a comma ends an element.
PlainEndAtComma ==
  /\ pc = "plain"
  /\ i <= Len(s) /\ s[i] = "comma"
  /\ elems' = Append(elems, TrimSpace(SubSeq(s, start, i - 1)))
  /\ i' = SkipComma(s, i)
  /\ pc' = "split"
  /\ UNCHANGED <<stored, written, s, start, sb, result>>

PlainEnd ==
  /\ pc = "plain"
  /\ i <= Len(s) => s[i] = "comma"
  /\ elems' = Append(elems, TrimSpace(SubSeq(s, start, i - 1)))
  /\ i' = SkipComma(s, i)
  /\ pc' = "split"
  /\ UNCHANGED <<stored, written, s, start, sb, result>>

\* The end of parseArray: whatever reads NULL is null.
MapElements ==
  /\ pc = "map"
  /\ Return(Array([x \in DOMAIN elems |-> IF elems[x] = <<"NULL">> THEN Null ELSE elems[x]]))
  /\ UNCHANGED <<stored, written, start, sb, elems>>
----------------------------------------------------------------------------
\* An empty array has no dimensions, and a matrix has at least one row.
Init ==
  /\ arr \in Arrays
  /\ shape \in IF arr = <<>> THEN {"flat"} ELSE {"flat", "nested", "bounded"}
  /\ role = <<First>> /\ text = <<Glyph(First)>>
  /\ pc = "write"
  /\ s = <<>> /\ i = 1 /\ start = 1 /\ sb = <<>> /\ elems = <<>>
  /\ result = Verbatim(<<>>)

Next ==
  \/ array_out
  \/ parseArray \/ parseInner \/ NextElement \/ MapElements
  \/ QuotedChar \/ QuotedEnd
  \/ PlainChar \/ PlainEnd

Spec == Init /\ [][Next]_vars
FairSpec == Spec /\ WF_vars(Next)
----------------------------------------------------------------------------
\* An element that array_out leaves unquoted although it begins or ends with
\* white space: PostgreSQL knows that of ASCII only, strings.TrimSpace all of it.
Frayed(e) == ~ NeedsQuotes(e) /\ (e[1] \in Blanks \/ e[Len(e)] \in Blanks)

\* What is expected to come out of an element: the text NULL is taken for a null.
Expected(e) == IF e = <<"NULL">> THEN Null ELSE e

\* README, "supported arrays become JSON arrays": the elements come out as they
\* went in, none is lost, split or joined, whatever quotes, commas, braces,
\* backslashes and spaces they hold; only an element with Unicode white space at
\* an end may come out trimmed, and alone it may be lost.  Arrays of other
\* dimensions come out as the text PostgreSQL wrote.
ElementsSurvive ==
  pc = "done" =>
    IF shape # "flat" THEN result = Verbatim(text)
    ELSE \/ Len(arr) = 1 /\ Frayed(arr[1])
         \/ /\ result.array /\ DOMAIN result.elems = DOMAIN arr
            /\ \A k \in DOMAIN arr :
                 Frayed(arr[k]) \/ result.elems[k] = Expected(arr[k])

\* The loops of the mapper come to an end: each takes a character or leaves.
ParserReturns == <>(pc = "done")
=============================================================================
