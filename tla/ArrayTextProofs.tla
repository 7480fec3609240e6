-------------------------- MODULE ArrayTextProofs --------------------------
(***************************************************************************)
(* The array parser gives back what array_out was given, for any alphabet  *)
(* and arrays of any size.  The invariant follows both programs: each      *)
(* character of the text has the role that follows from the one before it, *)
(* and at each position of the splitter the role found there is that of    *)
(* the next character of the element in hand.                              *)
(***************************************************************************)
EXTENDS ArrayText, TLAPS, SequenceTheorems, WellFoundedInduction, NaturalsInduction

\* Every character there is.
Chars == Letters \cup Blanks \cup Special \cup {"NULL", "absent", "bounds"}

Parts == {"prefix", "brace", "comma", "open", "esc", "char", "close", "end", "suffix"}

\* A role that array_out can give: it names an element and a character there are.
Placed(r) ==
  /\ r \in [part : Parts, k : Nat, j : Nat]
  /\ r.part = "prefix" => shape # "flat"
  /\ r.part = "comma" => r.k \in 1 .. Len(arr) - 1
  /\ r.part \in {"open", "esc", "char", "close"} => r.k \in 1 .. Len(arr)
  /\ r.part \in {"open", "esc", "close"} => NeedsQuotes(arr[r.k])
  /\ r.part \in {"esc", "char"} => r.j \in 1 .. Len(Word(arr[r.k]))
  /\ r.part = "end" => r.k = Len(arr)
  /\ r.part = "suffix" => shape = "nested"

\* The text so far: each character is the one its role asks for, and each role
\* follows from the one before it.
RoleInv ==
  /\ role \in Seq([part : Parts, k : Nat, j : Nat])
  /\ Len(role) >= 1 /\ role[1] = First
  /\ \A p \in 1 .. Len(role) : Placed(role[p])
  /\ \A p \in 1 .. Len(role) - 1 : role[p + 1] = After(role[p]) /\ ~ Final(role[p])
TextInv ==
  /\ text \in Seq(Chars)
  /\ Len(text) = Len(role)
  /\ \A p \in 1 .. Len(role) : text[p] = Glyph(role[p])

\* Between two elements there is a comma, and a quoted one has an opening quote.
OpenInv ==
  \A p \in 1 .. Len(role) :
    role[p].part \in {"esc", "char", "close"} /\ NeedsQuotes(arr[role[p].k])
      => \E q \in 1 .. p - 1 : role[q].part = "open"
CommaInv ==
  shape = "flat" /\ role[Len(role)].k >= 2
    => \E q \in 1 .. Len(role) - 1 : role[q].part = "comma"

StoredInv ==
  /\ arr \in Arrays
  /\ shape \in {"flat", "nested", "bounded"}
  /\ shape # "flat" => arr # <<>>
WriteInv == (pc = "write") <=> ~ Final(role[Len(role)])

Reading == {"split", "quoted", "plain", "map"}
InnerInv ==
  /\ pc \in {"inner"} \cup Reading => s = SubSeq(text, 2, Len(text) - 1)
  /\ pc = "inner" => shape # "bounded"
  /\ pc \in Reading => shape = "flat" /\ i \in 1 .. Len(s) + 1
  /\ pc \in {"write", "parse", "inner"} => elems = <<>>

\* es are the first elements of the array.
Found(es) ==
  /\ es \in Seq(Seq(Chars))
  /\ Len(es) <= Len(arr)
  /\ \A x \in 1 .. Len(es) : Frayed(arr[x]) \/ es[x] = Word(arr[x])

\* At p, after the elements es, another element or the end of the text begins.
SplitAt(p, es) ==
  role[p + 1] = IF Len(es) < Len(arr) THEN AtElement(Len(es) + 1) ELSE At("end", Len(arr), 0)

\* At p, the part b of a quoted element has been read.
QuotedAt(p, b, k) ==
  /\ k \in 1 .. Len(arr) /\ NeedsQuotes(arr[k])
  /\ b \in Seq(Chars) /\ Len(b) <= Len(Word(arr[k]))
  /\ \A x \in 1 .. Len(b) : b[x] = Word(arr[k])[x]
  /\ role[p + 1] = AtChar(k, Len(b) + 1)

\* At p, the part from st on of a plain element has been passed.
PlainAt(p, st, k) ==
  /\ k \in 1 .. Len(arr) /\ ~ NeedsQuotes(arr[k])
  /\ st \in 1 .. p /\ p - st <= Len(Word(arr[k]))
  /\ \A x \in 1 .. p - st : s[st + x - 1] = Word(arr[k])[x]
  /\ role[p + 1] = AtChar(k, p - st + 1)

FoundInv == Found(elems)
SplitInv == pc = "split" => SplitAt(i, elems)
QuotedInv == pc = "quoted" => QuotedAt(i, sb, Len(elems) + 1)
PlainInv == pc = "plain" => PlainAt(i, start, Len(elems) + 1)
MapInv == pc = "map" => Len(elems) = Len(arr)

PcInv == pc \in {"write", "parse", "inner", "done"} \cup Reading

WrittenInv == StoredInv /\ RoleInv /\ TextInv /\ OpenInv /\ CommaInv
ReadInv == PcInv /\ WriteInv /\ InnerInv /\ FoundInv
           /\ SplitInv /\ QuotedInv /\ PlainInv /\ MapInv
IInv == WrittenInv /\ ReadInv /\ ElementsSurvive
----------------------------------------------------------------------------
(* The operators.                                                          *)

\* Every nonempty set of positions has a first and a last one.
LEMMA FirstInk ==
  ASSUME NEW S \in SUBSET Nat, S # {}
  PROVE  Min(S) \in S /\ \A p \in S : Min(S) <= p
<1>1. PICK m \in S : \A p \in S : <<p, m>> \notin OpToRel(<, Nat)
  BY WFMin, NatLessThanWellFounded, Zenon
<1>2. \A p \in S : ~ (p < m)
  BY <1>1, Zenon DEF OpToRel
<1>3. \A p \in S : m <= p
  BY <1>2
<1>4. QED BY <1>3, Zenon DEF Min

\* ... counted from the end.
LEMMA LastInk ==
  ASSUME NEW n \in Nat, NEW S \in SUBSET (1 .. n), S # {}
  PROVE  Max(S) \in S /\ \A p \in S : Max(S) >= p
<1>1. PICK R : R = {q \in Nat : n - q \in S}
  OBVIOUS
<1>2. R \in SUBSET Nat /\ \A p \in S : n - p \in R
  BY <1>1
<1>3. R # {}
  BY <1>2
<1>4. Min(R) \in R /\ \A q \in R : Min(R) <= q
  BY <1>2, <1>3, FirstInk
<1>5. n - Min(R) \in S /\ \A p \in S : n - Min(R) >= p
  BY <1>1, <1>2, <1>4
<1>6. QED BY <1>5, Zenon DEF Max

\* A piece of a text.
LEMMA Piece ==
  ASSUME NEW x \in Seq(Chars), NEW a \in 1 .. Len(x) + 1, NEW b \in 0 .. Len(x)
  PROVE  /\ SubSeq(x, a, b) \in Seq(Chars)
         /\ Len(SubSeq(x, a, b)) = IF a <= b THEN b - a + 1 ELSE 0
         /\ \A q \in 1 .. b - a + 1 : SubSeq(x, a, b)[q] = x[a + q - 1]
<1>1. Len(x) \in Nat /\ \A q \in a .. b : x[q] \in Chars
  BY LenProperties, ElementOfSeq
<1>2. a \in Int /\ b \in Int
  BY <1>1
<1>3. QED BY <1>1, <1>2, SubSeqProperties

\* strings.TrimSpace: nothing is left of white space alone; otherwise what is
\* left begins with the first character that is not white.
LEMMA Ink ==
  ASSUME NEW x \in Seq(Chars)
  PROVE  \/ TrimSpace(x) = <<>> /\ \A p \in 1 .. Len(x) : x[p] \in White
         \/ \E a \in 1 .. Len(x), b \in 1 .. Len(x) :
              /\ a <= b
              /\ TrimSpace(x) = SubSeq(x, a, b)
              /\ x[a] \notin White /\ x[b] \notin White
              /\ \A p \in 1 .. Len(x) : x[p] \notin White => p \in a .. b
<1>1. Len(x) \in Nat
  BY LenProperties
<1>2. PICK ink : ink = {p \in 1 .. Len(x) : x[p] \notin White}
  OBVIOUS
<1>3. TrimSpace(x) = IF ink = {} THEN <<>> ELSE SubSeq(x, Min(ink), Max(ink))
  BY <1>2, Zenon DEF TrimSpace
<1>4. ink \in SUBSET Nat /\ ink \in SUBSET (1 .. Len(x))
  BY <1>1, <1>2
<1>5. ASSUME ink # {}
      PROVE  \E a \in 1 .. Len(x), b \in 1 .. Len(x) :
              /\ a <= b
              /\ TrimSpace(x) = SubSeq(x, a, b)
              /\ x[a] \notin White /\ x[b] \notin White
              /\ \A p \in 1 .. Len(x) : x[p] \notin White => p \in a .. b
  <2>1. PICK a \in ink : a = Min(ink) /\ \A p \in ink : a <= p
    BY <1>4, <1>5, FirstInk
  <2>2. PICK b \in ink : b = Max(ink) /\ \A p \in ink : b >= p
    BY <1>1, <1>4, <1>5, LastInk
  <2>3. TrimSpace(x) = SubSeq(x, a, b)
    BY <1>3, <1>5, <2>1, <2>2
  <2>4. a \in 1 .. Len(x) /\ b \in 1 .. Len(x) /\ a <= b
    BY <1>1, <1>4, <2>1, <2>2
  <2>5. \A p \in 1 .. Len(x) : x[p] \notin White => p \in a .. b
    BY <1>1, <1>2, <2>1, <2>2, <2>4
  <2>6. QED BY <1>2, <2>3, <2>4, <2>5
<1>6. QED BY <1>2, <1>3, <1>5

\* Nothing is left only of white space.
LEMMA TrimEmpty ==
  ASSUME NEW x \in Seq(Chars), TrimSpace(x) = <<>>
  PROVE  \A p \in 1 .. Len(x) : x[p] \in White
<1>1. SUFFICES ASSUME NEW a \in 1 .. Len(x), NEW b \in 1 .. Len(x), a <= b,
                      TrimSpace(x) = SubSeq(x, a, b)
               PROVE  FALSE
  BY Ink
<1>2. Len(x) \in Nat
  BY LenProperties
<1>3. Len(SubSeq(x, a, b)) = b - a + 1 /\ b - a + 1 >= 1
  BY <1>1, <1>2, Piece
<1>4. Len(<<>>) = 0
  BY EmptySeq
<1>5. QED BY <1>1, <1>2, <1>3, <1>4

\* What is left begins with the first character that is not white.
LEMMA TrimFirst ==
  ASSUME NEW x \in Seq(Chars), TrimSpace(x) # <<>>
  PROVE  \E a \in 1 .. Len(x) :
           /\ TrimSpace(x)[1] = x[a] /\ x[a] \notin White
           /\ \A p \in 1 .. Len(x) : x[p] \notin White => a <= p
<1>1. PICK a \in 1 .. Len(x), b \in 1 .. Len(x) :
        /\ a <= b
        /\ TrimSpace(x) = SubSeq(x, a, b)
        /\ x[a] \notin White
        /\ \A p \in 1 .. Len(x) : x[p] \notin White => p \in a .. b
  BY Ink
<1>2. Len(x) \in Nat
  BY LenProperties
<1>3. \A q \in 1 .. b - a + 1 : SubSeq(x, a, b)[q] = x[a + q - 1]
  BY <1>2, Piece
<1>4. SubSeq(x, a, b)[1] = x[a]
  BY <1>1, <1>2, <1>3
<1>5. QED BY <1>1, <1>2, <1>4

\* What is left is a text.
LEMMA TrimIsText ==
  ASSUME NEW x \in Seq(Chars)
  PROVE  TrimSpace(x) \in Seq(Chars)
<1>1. CASE TrimSpace(x) = <<>>
  BY <1>1, EmptySeq
<1>2. ASSUME NEW a \in 1 .. Len(x), NEW b \in 1 .. Len(x), TrimSpace(x) = SubSeq(x, a, b)
      PROVE  TrimSpace(x) \in Seq(Chars)
  <2>1. Len(x) \in Nat
    BY LenProperties
  <2>2. a \in 1 .. Len(x) + 1 /\ b \in 0 .. Len(x)
    BY <2>1
  <2>3. QED BY <1>2, <2>2, Piece
<1>3. QED BY <1>1, <1>2, Ink

\* A text that begins and ends with ink is left alone.
LEMMA TrimNothing ==
  ASSUME NEW x \in Seq(Chars), Len(x) >= 1, x[1] \notin White, x[Len(x)] \notin White
  PROVE  TrimSpace(x) = x
<1>1. Len(x) \in Nat
  BY LenProperties
<1>2. PICK a \in 1 .. Len(x), b \in 1 .. Len(x) :
        /\ a <= b
        /\ TrimSpace(x) = SubSeq(x, a, b)
        /\ \A p \in 1 .. Len(x) : x[p] \notin White => p \in a .. b
  BY <1>1, Ink
<1>3. a = 1 /\ b = Len(x)
  BY <1>1, <1>2
<1>4. QED BY <1>2, <1>3, SubSeqFull

\* There is no space to skip in front of another character, or at the end.
LEMMA SkipNothing ==
  ASSUME NEW x \in Seq(Chars), NEW p \in 1 .. Len(x) + 1, p <= Len(x) => x[p] # "space"
  PROVE  SkipSpaces(x, p) = p
<1> DEFINE Stop(q) == /\ \A y \in p .. q - 1 : x[y] = "space"
                      /\ q <= Len(x) => x[q] # "space"
<1>0. Len(x) \in Nat
  BY LenProperties
<1>1. p \in p .. Len(x) + 1 /\ Stop(p)
  BY <1>0
<1>2. \A q \in p .. Len(x) + 1 : Stop(q) => q = p
  <2>1. SUFFICES ASSUME NEW q \in p .. Len(x) + 1, Stop(q), q # p PROVE FALSE
    OBVIOUS
  <2>2. p \in p .. q - 1 /\ p <= Len(x)
    BY <1>0, <2>1
  <2>3. QED BY <2>1, <2>2
<1>3. SkipSpaces(x, p) = CHOOSE q \in p .. Len(x) + 1 : Stop(q)
  BY DEF SkipSpaces
<1> HIDE DEF Stop
<1>4. (CHOOSE q \in p .. Len(x) + 1 : Stop(q)) \in p .. Len(x) + 1
      /\ Stop(CHOOSE q \in p .. Len(x) + 1 : Stop(q))
  BY <1>1, Zenon
<1>5. QED BY <1>2, <1>3, <1>4
----------------------------------------------------------------------------
(* What array_out writes.                                                  *)

\* The marks of the syntax are not white space, and differ from each other.
LEMMA Marks ==
  /\ "lbrace" \notin White /\ "rbrace" \notin White /\ "comma" \notin White
  /\ "quote" \notin White /\ "backslash" \notin White
  /\ "NULL" \notin White /\ "absent" \notin White /\ "bounds" \notin White
BY LettersAssumption DEF White, Special

\* The characters, the texts and the two ways to write an absent element.
LEMMA Alphabet ==
  /\ {"lbrace", "rbrace", "comma", "quote", "backslash", "NULL", "bounds"} \subseteq Chars
  /\ Texts \subseteq Seq(Chars) /\ Null \in Seq(Chars) /\ Len(Null) = 1 /\ Null[1] = "absent"
  /\ <<"NULL">> \in Seq(Chars) /\ Len(<<"NULL">>) = 1 /\ <<"NULL">>[1] = "NULL"
<1>1. {"lbrace", "rbrace", "comma", "quote", "backslash", "NULL", "bounds", "absent"}
        \subseteq Chars
  BY DEF Chars, Special
<1>2. Texts \subseteq Seq(Chars)
  <2>1. SUFFICES ASSUME NEW n \in 0 .. MaxLen,
                        NEW x \in [1 .. n -> Letters \cup Blanks \cup Special \cup {"NULL"}]
                 PROVE  x \in Seq(Chars)
    BY DEF Texts
  <2>2. n \in Nat
    BY BoundsAssumption
  <2>3. x \in [1 .. n -> Chars]
    BY DEF Chars
  <2>4. QED BY <2>2, <2>3
<1>3. QED BY <1>1, <1>2 DEF Null

\* What a writer stored is a sequence of elements.
LEMMA StoredSeq ==
  ASSUME StoredInv
  PROVE  /\ arr \in Seq(Texts \cup {Null}) /\ Len(arr) \in Nat
         /\ (arr = <<>>) <=> (Len(arr) = 0)
<1>1. arr \in Seq(Texts \cup {Null})
  <2>1. PICK n \in 0 .. MaxElems : arr \in [1 .. n -> Texts \cup {Null}]
    BY DEF StoredInv, Arrays
  <2>2. n \in Nat
    BY BoundsAssumption
  <2>3. QED BY <2>1, <2>2
<1>2. QED BY <1>1

\* An element that is not quoted has a character, and no special one.
LEMMA Words ==
  ASSUME StoredInv, NEW k \in 1 .. Len(arr)
  PROVE  /\ arr[k] \in Seq(Chars)
         /\ Word(arr[k]) \in Seq(Chars) /\ Len(Word(arr[k])) \in Nat
         /\ ~ NeedsQuotes(arr[k]) =>
              /\ Len(Word(arr[k])) >= 1
              /\ \A j \in 1 .. Len(Word(arr[k])) : Word(arr[k])[j] \notin Special
<1>1. arr[k] \in Texts \cup {Null}
  BY StoredSeq, ElementOfSeq
<1>2. arr[k] \in Seq(Chars) /\ Word(arr[k]) \in Seq(Chars)
  BY <1>1, Alphabet DEF Word
<1>3. Len(Word(arr[k])) \in Nat /\ DOMAIN arr[k] = 1 .. Len(arr[k]) /\ Len(arr[k]) \in Nat
  BY <1>2, LenProperties
<1>4. ASSUME ~ NeedsQuotes(arr[k]), arr[k] = Null
      PROVE  /\ Len(Word(arr[k])) >= 1
             /\ \A j \in 1 .. Len(Word(arr[k])) : Word(arr[k])[j] \notin Special
  <2>1. Word(arr[k]) = <<"NULL">>
    BY <1>4 DEF Word
  <2>2. "NULL" \notin Special
    BY DEF Special
  <2>3. QED BY <2>1, <2>2, Alphabet
<1>5. ASSUME ~ NeedsQuotes(arr[k]), arr[k] # Null
      PROVE  /\ Len(Word(arr[k])) >= 1
             /\ \A j \in 1 .. Len(Word(arr[k])) : Word(arr[k])[j] \notin Special
  <2>1. Word(arr[k]) = arr[k]
    BY <1>5 DEF Word
  <2>2. arr[k] # <<>> /\ \A j \in DOMAIN arr[k] : arr[k][j] \notin Special
    BY <1>5 DEF NeedsQuotes
  <2>3. QED BY <1>2, <1>3, <2>1, <2>2, EmptySeq
<1>6. QED BY <1>2, <1>3, <1>4, <1>5

\* What is written next at the j-th character of element k.
LEMMA CharRole ==
  ASSUME StoredInv, NEW k \in 1 .. Len(arr), NEW j \in 1 .. Len(Word(arr[k])) + 1
  PROVE  \/ /\ j <= Len(Word(arr[k])) /\ NeedsQuotes(arr[k])
            /\ Word(arr[k])[j] \in {"quote", "backslash"}
            /\ AtChar(k, j) = At("esc", k, j)
         \/ /\ j <= Len(Word(arr[k]))
            /\ Word(arr[k])[j] \notin {"quote", "backslash"}
            /\ AtChar(k, j) = At("char", k, j)
         \/ /\ j = Len(Word(arr[k])) + 1 /\ NeedsQuotes(arr[k])
            /\ AtChar(k, j) = At("close", k, 0)
         \/ /\ j = Len(Word(arr[k])) + 1 /\ ~ NeedsQuotes(arr[k])
            /\ AtChar(k, j) = AfterElement(k)
<1>1. Len(Word(arr[k])) \in Nat /\ ~ NeedsQuotes(arr[k]) =>
              \A x \in 1 .. Len(Word(arr[k])) : Word(arr[k])[x] \notin Special
  BY Words
<1>2. QED BY <1>1, Words DEF AtChar, Special

\* After an element comes a comma, or the closing brace after the last.
LEMMA EndRole ==
  ASSUME StoredInv, NEW k \in 1 .. Len(arr)
  PROVE  \/ k < Len(arr) /\ AfterElement(k) = At("comma", k, 0)
         \/ k = Len(arr) /\ AfterElement(k) = At("end", Len(arr), 0)
BY StoredSeq DEF AfterElement

\* An element begins with its opening quote or with its first character.
LEMMA ElementRole ==
  ASSUME StoredInv, NEW k \in 1 .. Len(arr)
  PROVE  \/ NeedsQuotes(arr[k]) /\ AtElement(k) = At("open", k, 0)
         \/ ~ NeedsQuotes(arr[k]) /\ AtElement(k) = At("char", k, 1)
<1>1. ASSUME ~ NeedsQuotes(arr[k]) PROVE AtChar(k, 1) = At("char", k, 1)
  <2>1. Len(Word(arr[k])) \in Nat /\ Len(Word(arr[k])) >= 1
    BY <1>1, Words
  <2>2. QED BY <1>1, <2>1 DEF AtChar
<1>2. QED BY <1>1 DEF AtElement

\* After and Glyph, part by part.
LEMMA AfterParts ==
  ASSUME NEW r
  PROVE  /\ r.part = "prefix" => After(r) = At("brace", 0, 0)
         /\ r.part = "brace" => After(r) = IF arr = <<>> THEN At("end", 0, 0) ELSE AtElement(1)
         /\ r.part = "comma" => After(r) = AtElement(r.k + 1)
         /\ r.part = "open" => After(r) = AtChar(r.k, 1)
         /\ r.part = "esc" => After(r) = At("char", r.k, r.j)
         /\ r.part = "char" => After(r) = AtChar(r.k, r.j + 1)
         /\ r.part = "close" => After(r) = AfterElement(r.k)
         /\ r.part = "end" => After(r) = At("suffix", 0, 0)
BY DEF After

LEMMA GlyphParts ==
  ASSUME NEW r
  PROVE  /\ r.part = "prefix" => Glyph(r) = IF shape = "nested" THEN "lbrace" ELSE "bounds"
         /\ r.part = "brace" => Glyph(r) = "lbrace"
         /\ r.part = "comma" => Glyph(r) = "comma"
         /\ r.part = "open" => Glyph(r) = "quote"
         /\ r.part = "esc" => Glyph(r) = "backslash"
         /\ r.part = "char" => Glyph(r) = Word(arr[r.k])[r.j]
         /\ r.part = "close" => Glyph(r) = "quote"
         /\ r.part \in {"end", "suffix"} => Glyph(r) = "rbrace"
BY DEF Glyph

\* The parts of a role.
LEMMA AtFields ==
  ASSUME NEW part, NEW k, NEW j
  PROVE  /\ At(part, k, j).part = part /\ At(part, k, j).k = k /\ At(part, k, j).j = j
         /\ part \in Parts /\ k \in Nat /\ j \in Nat
              => At(part, k, j) \in [part : Parts, k : Nat, j : Nat]
BY DEF At

\* The roles that lead to an element, through it and away from it are placed.
LEMMA PlacedAtEnd ==
  ASSUME StoredInv, NEW k \in 1 .. Len(arr)
  PROVE  Placed(AfterElement(k))
<1>1. Len(arr) \in Nat
  BY StoredSeq
<1>2. QED BY <1>1, EndRole, AtFields DEF Placed, Parts

LEMMA PlacedAtChar ==
  ASSUME StoredInv, NEW k \in 1 .. Len(arr), NEW j \in 1 .. Len(Word(arr[k])) + 1
  PROVE  Placed(AtChar(k, j))
<1>1. Len(arr) \in Nat /\ Len(Word(arr[k])) \in Nat
  BY StoredSeq, Words
<1>2. CASE AtChar(k, j) = AfterElement(k)
  BY <1>2, PlacedAtEnd
<1>3. CASE /\ j <= Len(Word(arr[k])) /\ NeedsQuotes(arr[k])
           /\ AtChar(k, j) = At("esc", k, j)
  BY <1>1, <1>3, AtFields DEF Placed, Parts
<1>4. CASE /\ j <= Len(Word(arr[k])) /\ AtChar(k, j) = At("char", k, j)
  BY <1>1, <1>4, AtFields DEF Placed, Parts
<1>5. CASE NeedsQuotes(arr[k]) /\ AtChar(k, j) = At("close", k, 0)
  BY <1>1, <1>5, AtFields DEF Placed, Parts
<1>6. QED BY <1>2, <1>3, <1>4, <1>5, CharRole

LEMMA PlacedAtElement ==
  ASSUME StoredInv, NEW k \in 1 .. Len(arr)
  PROVE  Placed(AtElement(k))
<1>1. Len(arr) \in Nat /\ Len(Word(arr[k])) \in Nat
      /\ (~ NeedsQuotes(arr[k]) => Len(Word(arr[k])) >= 1)
  BY StoredSeq, Words
<1>2. QED BY <1>1, ElementRole, AtFields DEF Placed, Parts

\* What follows a placed role is placed.
LEMMA PlacedAfter ==
  ASSUME StoredInv, NEW r, Placed(r), ~ Final(r)
  PROVE  Placed(After(r))
<1>1. Len(arr) \in Nat /\ r.k \in Nat /\ r.j \in Nat /\ r.part \in Parts
  BY StoredSeq DEF Placed
<1>2. CASE r.part = "prefix"
  BY <1>2, AfterParts, AtFields DEF Placed, Parts
<1>3. CASE r.part = "brace"
  <2>1. CASE arr = <<>>
    BY <1>3, <2>1, AfterParts, AtFields, StoredSeq DEF Placed, Parts
  <2>2. CASE arr # <<>>
    <3>1. 1 \in 1 .. Len(arr)
      BY <1>1, <2>2, StoredSeq
    <3>2. QED BY <1>3, <2>2, <3>1, AfterParts, PlacedAtElement
  <2>3. QED BY <2>1, <2>2
<1>4. CASE r.part = "comma"
  <2>1. r.k + 1 \in 1 .. Len(arr)
    BY <1>1, <1>4 DEF Placed
  <2>2. QED BY <1>4, <2>1, AfterParts, PlacedAtElement
<1>5. CASE r.part \in {"open", "esc", "char"}
  <2>1. r.k \in 1 .. Len(arr) /\ Len(Word(arr[r.k])) \in Nat
    BY <1>5, Words DEF Placed
  <2>2. CASE r.part = "open"
    BY <2>1, <2>2, AfterParts, PlacedAtChar
  <2>3. CASE r.part = "char"
    <3>1. r.j + 1 \in 1 .. Len(Word(arr[r.k])) + 1
      BY <2>1, <2>3 DEF Placed
    <3>2. QED BY <2>1, <2>3, <3>1, AfterParts, PlacedAtChar
  <2>4. CASE r.part = "esc"
    <3>1. r.j \in 1 .. Len(Word(arr[r.k])) /\ After(r) = At("char", r.k, r.j)
      BY <2>4, AfterParts DEF Placed
    <3>2. QED BY <1>1, <2>1, <3>1, AtFields DEF Placed, Parts
  <2>5. QED BY <1>5, <2>2, <2>3, <2>4
<1>6. CASE r.part = "close"
  BY <1>6, AfterParts, PlacedAtEnd DEF Placed
<1>7. CASE r.part = "end"
  <2>1. shape = "nested"
    BY <1>7 DEF Final
  <2>2. QED BY <1>7, <2>1, AfterParts, AtFields DEF Placed, Parts
<1>8. CASE r.part = "suffix"
  BY <1>8 DEF Final, Placed
<1>9. QED BY <1>1, <1>2, <1>3, <1>4, <1>5, <1>6, <1>7, <1>8 DEF Parts

\* What is written is a character.
LEMMA GlyphIsChar ==
  ASSUME StoredInv, NEW r, Placed(r)
  PROVE  Glyph(r) \in Chars
<1>1. CASE r.part = "char"
  <2>1. r.k \in 1 .. Len(arr) /\ r.j \in 1 .. Len(Word(arr[r.k]))
    BY <1>1 DEF Placed
  <2>2. QED BY <1>1, <2>1, GlyphParts, Words, ElementOfSeq
<1>2. CASE r.part # "char"
  <2>1. r.part \in Parts
    BY DEF Placed
  <2>2. QED BY <1>2, <2>1, GlyphParts, Alphabet DEF Parts
<1>3. QED BY <1>1, <1>2

\* The array does not change, and the roles with it.
LEMMA SameRoles ==
  ASSUME UNCHANGED stored, NEW r
  PROVE  /\ Placed(r)' <=> Placed(r)
         /\ After(r)' = After(r) /\ Glyph(r)' = Glyph(r)
         /\ Final(r)' <=> Final(r)
BY DEF stored, Placed, After, Glyph, Final, AtElement, AtChar, AfterElement
\* Within an element its number stays.
LEMMA SameElement ==
  ASSUME StoredInv, NEW k \in 1 .. Len(arr), NEW j \in 1 .. Len(Word(arr[k])) + 1
  PROVE  AtChar(k, j).k = k /\ AfterElement(k).k = k
<1>1. AfterElement(k).k = k
  BY EndRole, AtFields
<1>2. /\ At("esc", k, j).k = k /\ At("char", k, j).k = k /\ At("close", k, 0).k = k
  BY AtFields
<1>3. QED BY <1>1, <1>2, CharRole

\* A character of a quoted element follows one of the same element, or its
\* opening quote.
LEMMA OpenStep ==
  ASSUME StoredInv, NEW r, Placed(r), ~ Final(r),
         After(r).part \in {"esc", "char", "close"}, NeedsQuotes(arr[After(r).k])
  PROVE  \/ r.part = "open"
         \/ r.part \in {"esc", "char"} /\ NeedsQuotes(arr[r.k])
<1>1. Len(arr) \in Nat /\ r.k \in Nat /\ r.j \in Nat /\ r.part \in Parts
  BY StoredSeq DEF Placed
<1>2. ASSUME NEW k \in 1 .. Len(arr), After(r) = AtElement(k) PROVE FALSE
  BY <1>2, ElementRole, AtFields
<1>3. ASSUME NEW k \in 1 .. Len(arr), After(r) = AfterElement(k) PROVE FALSE
  BY <1>3, EndRole, AtFields
<1>4. r.part # "prefix" /\ r.part # "end" /\ r.part # "suffix"
  BY AfterParts, AtFields DEF Final, Placed
<1>5. ASSUME r.part = "brace" PROVE FALSE
  <2>1. arr # <<>> /\ After(r) = AtElement(1)
    BY <1>5, AfterParts, AtFields
  <2>2. 1 \in 1 .. Len(arr)
    BY <1>1, <2>1, StoredSeq
  <2>3. QED BY <1>2, <2>1, <2>2
<1>6. ASSUME r.part = "comma" PROVE FALSE
  <2>1. After(r) = AtElement(r.k + 1) /\ r.k + 1 \in 1 .. Len(arr)
    BY <1>1, <1>6, AfterParts DEF Placed
  <2>2. QED BY <1>2, <2>1
<1>7. ASSUME r.part = "close" PROVE FALSE
  <2>1. After(r) = AfterElement(r.k) /\ r.k \in 1 .. Len(arr)
    BY <1>7, AfterParts DEF Placed
  <2>2. QED BY <1>3, <2>1
<1>8. ASSUME r.part = "esc" PROVE NeedsQuotes(arr[r.k])
  BY <1>8 DEF Placed
<1>9. ASSUME r.part = "char" PROVE NeedsQuotes(arr[r.k])
  <2>1. /\ After(r) = AtChar(r.k, r.j + 1) /\ r.k \in 1 .. Len(arr)
        /\ r.j \in 1 .. Len(Word(arr[r.k]))
    BY <1>9, AfterParts DEF Placed
  <2>2. r.j + 1 \in 1 .. Len(Word(arr[r.k])) + 1
    BY <1>1, <2>1, Words
  <2>3. AtChar(r.k, r.j + 1).k = r.k \/ AtChar(r.k, r.j + 1) = AfterElement(r.k)
    BY <2>1, <2>2, CharRole, AtFields
  <2>4. QED BY <1>3, <2>1, <2>3
<1>10. QED BY <1>1, <1>4, <1>5, <1>6, <1>7, <1>8, <1>9 DEF Parts

\* The number of the element changes at a comma only.
LEMMA CommaStep ==
  ASSUME StoredInv, shape = "flat", NEW r, Placed(r), ~ Final(r), After(r).k >= 2
  PROVE  r.part = "comma" \/ (r.part # "comma" /\ r.k >= 2)
<1>1. Len(arr) \in Nat /\ r.k \in Nat /\ r.j \in Nat /\ r.part \in Parts
  BY StoredSeq DEF Placed
<1>2. r.part # "prefix" /\ r.part # "end" /\ r.part # "suffix"
  BY DEF Final, Placed
<1>3. ASSUME r.part = "brace" PROVE FALSE
  <2>1. CASE arr = <<>>
    BY <1>3, <2>1, AfterParts, AtFields
  <2>2. CASE arr # <<>>
    <3>1. 1 \in 1 .. Len(arr)
      BY <1>1, <2>2, StoredSeq
    <3>2. After(r).k = 1
      BY <1>3, <2>2, <3>1, AfterParts, ElementRole, AtFields
    <3>3. QED BY <3>2
  <2>3. QED BY <2>1, <2>2
<1>4. ASSUME r.part \in {"open", "esc", "char", "close"} PROVE After(r).k = r.k
  <2>1. r.k \in 1 .. Len(arr) /\ Len(Word(arr[r.k])) \in Nat
    BY <1>4, Words DEF Placed
  <2>2. AfterElement(r.k).k = r.k
    BY <2>1, EndRole, AtFields
  <2>3. ASSUME NEW j \in 1 .. Len(Word(arr[r.k])) + 1 PROVE AtChar(r.k, j).k = r.k
    BY <2>1, SameElement
  <2>4. CASE r.part = "open"
    BY <2>1, <2>3, <2>4, AfterParts
  <2>5. CASE r.part = "esc"
    BY <2>5, AfterParts, AtFields
  <2>6. CASE r.part = "char"
    <3>1. r.j + 1 \in 1 .. Len(Word(arr[r.k])) + 1
      BY <2>1, <2>6 DEF Placed
    <3>2. QED BY <2>3, <2>6, <3>1, AfterParts
  <2>7. CASE r.part = "close"
    BY <2>2, <2>7, AfterParts
  <2>8. QED BY <1>4, <2>4, <2>5, <2>6, <2>7
<1>5. QED BY <1>1, <1>2, <1>3, <1>4 DEF Parts

\* A step of array_out keeps what is known of the text.
LEMMA WriterStep ==
  ASSUME WrittenInv, ReadInv, array_out
  PROVE  WrittenInv'
<1> DEFINE n == Len(role)
           r == After(role[n])
<1>1. n \in Nat /\ n >= 1 /\ Placed(role[n]) /\ ~ Final(role[n])
  BY LenProperties DEF WrittenInv, RoleInv, ReadInv, WriteInv, array_out
<1>2. Placed(r) /\ Glyph(r) \in Chars
  BY <1>1, PlacedAfter, GlyphIsChar DEF WrittenInv
<1>3. UNCHANGED stored /\ arr' = arr /\ shape' = shape
  BY DEF array_out, stored
<1>4. /\ role' \in Seq([part : Parts, k : Nat, j : Nat])
      /\ Len(role') = n + 1 /\ role'[n + 1] = r
      /\ \A p \in 1 .. n : role'[p] = role[p]
  <2>1. r \in [part : Parts, k : Nat, j : Nat]
    BY <1>2 DEF Placed
  <2>2. role' = Append(role, r)
    BY DEF array_out
  <2>3. QED BY <2>1, <2>2, AppendProperties DEF WrittenInv, RoleInv
<1>5. /\ text' \in Seq(Chars) /\ Len(text') = n + 1
      /\ text'[n + 1] = Glyph(r) /\ \A p \in 1 .. n : text'[p] = text[p]
  <2>1. text' = Append(text, Glyph(r))
    BY DEF array_out
  <2>2. QED BY <1>2, <2>1, AppendProperties DEF WrittenInv, TextInv
<1> HIDE DEF n, r
<1>6. ASSUME NEW p \in 1 .. n PROVE Placed(role[p]) /\ text[p] = Glyph(role[p])
  BY DEF n, WrittenInv, RoleInv, TextInv
<1>7. StoredInv'
  BY <1>3 DEF WrittenInv, StoredInv
<1>8. RoleInv'
  <2>1. role'[1] = First'
    <3>1. First' = First /\ role[1] = First
      BY <1>3 DEF First, WrittenInv, RoleInv
    <3>2. QED BY <1>1, <1>4, <3>1
  <2>2. ASSUME NEW p \in 1 .. n + 1 PROVE Placed(role'[p]) 
    BY <1>1, <1>2, <1>4, <1>6
  <2>3. ASSUME NEW p \in 1 .. n PROVE role'[p + 1] = After(role'[p]) /\ ~ Final(role'[p])
    <3>1. CASE p = n
      BY <1>1, <1>4, <3>1 DEF r
    <3>2. CASE p # n
      <4>1. p \in 1 .. n - 1 /\ p + 1 \in 1 .. n
        BY <1>1, <3>2
      <4>2. role[p + 1] = After(role[p]) /\ ~ Final(role[p])
        BY <4>1 DEF n, WrittenInv, RoleInv
      <4>3. QED BY <1>4, <4>1, <4>2
    <3>3. QED BY <3>1, <3>2
  <2>4. \A x : /\ Placed(x)' <=> Placed(x)
               /\ After(x)' = After(x) /\ (Final(x)' <=> Final(x))
    BY <1>3, SameRoles
  <2>5. \A p \in 1 .. n + 1 : Placed(role[p])'
    BY <2>2, <2>4
  <2>6. \A p \in 1 .. n : (role[p + 1] = After(role[p]) /\ ~ Final(role[p]))'
    BY <2>3, <2>4
  <2>7. Len(role') >= 1 /\ Len(role') - 1 = n
    BY <1>1, <1>4
  <2>8. QED BY <1>4, <2>1, <2>5, <2>6, <2>7 DEF RoleInv
<1>9. TextInv'
  <2>1. \A p \in 1 .. n + 1 : text'[p] = Glyph(role'[p])
    BY <1>1, <1>4, <1>5, <1>6
  <2>2. \A x : Glyph(x)' = Glyph(x)
    BY <1>3, SameRoles
  <2>3. \A p \in 1 .. n + 1 : (text[p] = Glyph(role[p]))'
    BY <2>1, <2>2
  <2>4. QED BY <1>4, <1>5, <2>3 DEF TextInv
<1>10. OpenInv'
  <2>1. SUFFICES ASSUME NEW p \in 1 .. n + 1,
                        role'[p].part \in {"esc", "char", "close"},
                        NeedsQuotes(arr[role'[p].k])
                 PROVE  \E q \in 1 .. p - 1 : role'[q].part = "open"
    BY <1>3, <1>4 DEF OpenInv
  <2>2. ASSUME NEW p1 \in 1 .. n, role[p1].part \in {"esc", "char", "close"},
               NeedsQuotes(arr[role[p1].k])
        PROVE  \E q \in 1 .. p1 - 1 : role'[q].part = "open"
    <3>1. PICK q \in 1 .. p1 - 1 : role[q].part = "open"
      BY <2>2 DEF n, WrittenInv, OpenInv
    <3>2. q \in 1 .. n
      BY <1>1
    <3>3. QED BY <1>4, <3>1, <3>2
  <2>3. CASE p # n + 1
    <3>1. p \in 1 .. n /\ role'[p] = role[p]
      BY <1>1, <1>4, <2>3
    <3>2. QED BY <2>1, <2>2, <3>1
  <2>4. CASE p = n + 1
    <3>1. r.part \in {"esc", "char", "close"} /\ NeedsQuotes(arr[r.k])
      BY <1>4, <2>1, <2>4
    <3>2. \/ role[n].part = "open"
          \/ role[n].part \in {"esc", "char"} /\ NeedsQuotes(arr[role[n].k])
      BY <1>1, <3>1, OpenStep DEF r, WrittenInv
    <3>3. n \in 1 .. n /\ n \in 1 .. p - 1
      BY <1>1, <2>4
    <3>4. CASE role[n].part = "open"
      BY <1>4, <3>3, <3>4
    <3>5. CASE role[n].part \in {"esc", "char"} /\ NeedsQuotes(arr[role[n].k])
      <4>1. PICK q \in 1 .. n - 1 : role'[q].part = "open"
        BY <2>2, <3>3, <3>5
      <4>2. q \in 1 .. p - 1
        BY <1>1, <2>4
      <4>3. QED BY <4>1, <4>2
    <3>6. QED BY <3>2, <3>4, <3>5
  <2>5. QED BY <2>3, <2>4
<1>11. CommaInv'
  <2>1. SUFFICES ASSUME shape = "flat", r.k >= 2
                 PROVE  \E q \in 1 .. n : role'[q].part = "comma"
    <3>1. Len(role') - 1 = n
      BY <1>1, <1>4
    <3>2. QED BY <1>3, <1>4, <3>1 DEF CommaInv
  <2>2. n \in 1 .. n
    BY <1>1
  <2>3. CASE role[n].part = "comma"
    BY <1>4, <2>2, <2>3
  <2>4. CASE role[n].part # "comma" /\ role[n].k >= 2
    <3>1. PICK q \in 1 .. n - 1 : role[q].part = "comma"
      BY <2>1, <2>4 DEF n, WrittenInv, CommaInv
    <3>2. q \in 1 .. n
      BY <1>1
    <3>3. QED BY <1>4, <3>1, <3>2
  <2>5. QED BY <1>1, <2>1, <2>3, <2>4, CommaStep DEF r, WrittenInv
<1>12. QED BY <1>7, <1>8, <1>9, <1>10, <1>11 DEF WrittenInv
----------------------------------------------------------------------------
(* What the mapper reads.                                                  *)

\* array_out is through.
Whole == WrittenInv /\ Final(role[Len(role)])

\* A finished text begins and ends with a brace, unless it shows its bounds, and
\* TrimSpace leaves it alone.
LEMMA WholeText ==
  ASSUME Whole
  PROVE  /\ text \in Seq(Chars) /\ Len(text) \in Nat /\ Len(role) = Len(text)
         /\ Len(text) >= 2 /\ text[Len(text)] = "rbrace"
         /\ text[1] = IF shape = "bounded" THEN "bounds" ELSE "lbrace"
         /\ TrimSpace(text) = text
<1>1. text \in Seq(Chars) /\ Len(text) \in Nat /\ Len(role) = Len(text) /\ Len(text) >= 1
  BY LenProperties DEF Whole, WrittenInv, TextInv, RoleInv
<1>2. /\ text[1] = Glyph(role[1]) /\ text[Len(text)] = Glyph(role[Len(text)])
      /\ role[1] = First
  <2>1. 1 \in 1 .. Len(role) /\ Len(text) \in 1 .. Len(role)
    BY <1>1
  <2>2. QED BY <2>1 DEF Whole, WrittenInv, TextInv, RoleInv
<1>3. First.part = IF shape = "flat" THEN "brace" ELSE "prefix"
  BY AtFields DEF First
<1>4. shape \in {"flat", "nested", "bounded"}
  BY DEF Whole, WrittenInv, StoredInv
<1>5. text[1] = IF shape = "bounded" THEN "bounds" ELSE "lbrace"
  BY <1>2, <1>3, <1>4, GlyphParts
<1>6. ~ Final(First)
  BY <1>3, <1>4 DEF Final
<1>7. Len(text) # 1
  BY <1>1, <1>2, <1>6 DEF Whole
<1>8. text[Len(text)] = "rbrace"
  BY <1>1, <1>2, GlyphParts DEF Whole, Final
<1>9. TrimSpace(text) = text
  BY <1>1, <1>5, <1>8, TrimNothing, Marks
<1>10. QED BY <1>1, <1>5, <1>7, <1>8, <1>9

\* The argument of splitArrayElements is the text without its first and last
\* character: position q of it has the role of position q + 1 of the text.
\* ... and the splitter has the text between the braces.
Within == Whole /\ s = SubSeq(text, 2, Len(text) - 1)

\* What parseArray hands to the splitter is the text without its outer braces.
LEMMA InnerText ==
  ASSUME Within
  PROVE  /\ s \in Seq(Chars) /\ Len(s) \in Nat /\ Len(role) = Len(s) + 2
         /\ \A q \in 1 .. Len(s) :
              /\ s[q] = Glyph(role[q + 1]) /\ role[q + 2] = After(role[q + 1])
              /\ ~ Final(role[q + 1])
         /\ role[2] = After(role[1])
         /\ \A q \in 1 .. Len(role) : Placed(role[q])
<1>1. text \in Seq(Chars) /\ Len(text) \in Nat /\ Len(role) = Len(text) /\ Len(text) >= 2
  BY WholeText DEF Within
<1>2. 2 \in 1 .. Len(text) + 1 /\ Len(text) - 1 \in 0 .. Len(text)
  BY <1>1
<1>3. /\ s \in Seq(Chars)
      /\ Len(s) = IF 2 <= Len(text) - 1 THEN Len(text) - 1 - 2 + 1 ELSE 0
      /\ \A q \in 1 .. Len(text) - 1 - 2 + 1 : s[q] = text[2 + q - 1]
  BY <1>1, <1>2, Piece DEF Within
<1>4. Len(s) \in Nat /\ Len(role) = Len(s) + 2
  BY <1>1, <1>3
<1>5. ASSUME NEW q \in 1 .. Len(s)
      PROVE  /\ s[q] = Glyph(role[q + 1]) /\ role[q + 2] = After(role[q + 1])
             /\ ~ Final(role[q + 1])
  <2>1. s[q] = text[q + 1]
    BY <1>1, <1>3, <1>4
  <2>2. q + 1 \in 1 .. Len(role) - 1 /\ q + 1 \in 1 .. Len(role) /\ (q + 1) + 1 = q + 2
    BY <1>4
  <2>3. QED BY <2>1, <2>2 DEF Within, Whole, WrittenInv, TextInv, RoleInv
<1>6. 1 \in 1 .. Len(role) - 1 /\ 1 + 1 = 2
  BY <1>1
<1>7. QED BY <1>3, <1>4, <1>5, <1>6 DEF Within, Whole, WrittenInv, RoleInv

\* In a flat array the position past the end, and no other, is the closing brace.
LEMMA AtPosition ==
  ASSUME Within, shape = "flat", NEW q \in 1 .. Len(s) + 1
  PROVE  /\ role[q + 1].part = "end" => q = Len(s) + 1
         /\ role[q + 1].part # "end" =>
              /\ q \in 1 .. Len(s) /\ q + 1 \in 1 .. Len(s) + 1
              /\ s[q] = Glyph(role[q + 1]) /\ role[q + 2] = After(role[q + 1])
         /\ Placed(role[q + 1])
<1>1. Len(s) \in Nat /\ Len(role) = Len(s) + 2
  BY InnerText
<1>2. role[Len(s) + 2].part = "end"
  BY <1>1 DEF Within, Whole, Final
<1>3. q + 1 \in 1 .. Len(role)
  BY <1>1
<1>4. CASE q = Len(s) + 1
  <2>1. q + 1 = Len(s) + 2
    BY <1>1, <1>4
  <2>2. QED BY <1>2, <1>3, <1>4, <2>1, InnerText
<1>5. CASE q # Len(s) + 1
  <2>1. q \in 1 .. Len(s) /\ q + 1 \in 1 .. Len(s) + 1
    BY <1>1, <1>5
  <2>2. QED BY <1>3, <2>1, InnerText DEF Final
<1>6. QED BY <1>4, <1>5

\* The mapper changes neither the array nor its text.
LEMMA SameText ==
  ASSUME WrittenInv, UNCHANGED <<stored, written>>
  PROVE  WrittenInv'
BY DEF WrittenInv, StoredInv, RoleInv, TextInv, OpenInv, CommaInv, stored, written,
       First, Placed, After, Glyph, Final, AtElement, AtChar, AfterElement

\* While the text stands, what is known of a position in it stands.
LEMMA SameReading ==
  ASSUME UNCHANGED <<stored, written, s>>, NEW p, NEW a, NEW b
  PROVE  /\ WriteInv /\ pc # "write" /\ pc' # "write" => WriteInv'
         /\ SplitAt(p, a)' <=> SplitAt(p, a)
         /\ QuotedAt(p, a, b)' <=> QuotedAt(p, a, b)
         /\ PlainAt(p, a, b)' <=> PlainAt(p, a, b)
         /\ Found(a)' <=> Found(a)
<1>1. arr' = arr /\ shape' = shape /\ text' = text /\ role' = role /\ s' = s
  BY DEF stored, written
<1>2. \A k, j : AtChar(k, j)' = AtChar(k, j) /\ AtElement(k)' = AtElement(k)
  BY <1>1 DEF AtElement, AtChar, AfterElement
<1>3. SplitAt(p, a)' <=> SplitAt(p, a)
  BY <1>1, <1>2 DEF SplitAt
<1>4. QuotedAt(p, a, b)' <=> QuotedAt(p, a, b)
  BY <1>1, <1>2 DEF QuotedAt
<1>5. PlainAt(p, a, b)' <=> PlainAt(p, a, b)
  BY <1>1, <1>2 DEF PlainAt
<1>6. Found(a)' <=> Found(a)
  BY <1>1 DEF Found
<1>7. ASSUME WriteInv, pc # "write", pc' # "write" PROVE WriteInv'
  BY <1>1, <1>7 DEF WriteInv, Final
<1>8. QED BY <1>3, <1>4, <1>5, <1>6, <1>7

\* A step of the splitter leaves the text, and ends in one of these states.
LEMMA ResumeFrom ==
  ASSUME WrittenInv, ReadInv, pc # "write", Within, shape = "flat",
         UNCHANGED <<stored, written, s>>,
         NEW p \in 1 .. Len(s) + 1, i' = p,
         NEW es, elems' = es, Found(es),
         \/ pc' = "split" /\ SplitAt(p, es)
         \/ pc' = "quoted" /\ QuotedAt(p, sb', Len(es) + 1)
         \/ pc' = "plain" /\ PlainAt(p, start', Len(es) + 1)
         \/ pc' = "map" /\ Len(es) = Len(arr)
  PROVE  ReadInv'
<1>1. arr' = arr /\ shape' = shape /\ text' = text /\ role' = role /\ s' = s
  BY DEF stored, written
<1>2. PcInv' /\ WriteInv'
  BY SameReading DEF ReadInv, PcInv, Reading
<1>3. InnerInv'
  BY <1>1 DEF Within, InnerInv, Reading
<1>4. FoundInv'
  BY SameReading DEF FoundInv
<1>5. SplitInv' /\ QuotedInv' /\ PlainInv' /\ MapInv'
  BY <1>1, SameReading DEF SplitInv, QuotedInv, PlainInv, MapInv
<1>6. QED BY <1>2, <1>3, <1>4, <1>5 DEF ReadInv

\* What is known while the elements are taken apart.
LEMMA WhileReading ==
  ASSUME WrittenInv, ReadInv, pc \in Reading
  PROVE  /\ Within /\ shape = "flat" /\ i \in 1 .. Len(s) + 1
         /\ s \in Seq(Chars) /\ Len(s) \in Nat
         /\ elems \in Seq(Seq(Chars)) /\ Found(elems)
         /\ Len(elems) \in Nat /\ Len(arr) \in Nat /\ Len(elems) <= Len(arr)
         /\ StoredInv
<1>1. pc # "write"
  BY DEF Reading
<1>2. Within /\ shape = "flat" /\ i \in 1 .. Len(s) + 1
  BY <1>1 DEF Within, Whole, ReadInv, WriteInv, InnerInv
<1>3. StoredInv /\ Found(elems)
  BY DEF WrittenInv, ReadInv, FoundInv
<1>4. s \in Seq(Chars) /\ Len(s) \in Nat
  BY <1>2, InnerText
<1>5. elems \in Seq(Seq(Chars)) /\ Len(elems) \in Nat /\ Len(arr) \in Nat /\ Len(elems) <= Len(arr)
  BY <1>3, StoredSeq, LenProperties DEF Found
<1>6. QED BY <1>2, <1>3, <1>4, <1>5

\* The same for a step that begins inside the splitter.
LEMMA Resume ==
  ASSUME WrittenInv, ReadInv, pc \in Reading, UNCHANGED <<stored, written, s>>,
         NEW p \in 1 .. Len(s) + 1, i' = p,
         NEW es, elems' = es, Found(es),
         \/ pc' = "split" /\ SplitAt(p, es)
         \/ pc' = "quoted" /\ QuotedAt(p, sb', Len(es) + 1)
         \/ pc' = "plain" /\ PlainAt(p, start', Len(es) + 1)
         \/ pc' = "map" /\ Len(es) = Len(arr)
  PROVE  ReadInv'
<1>1. pc # "write"
  BY DEF Reading
<1>2. Within /\ shape = "flat"
  BY WhileReading
<1>3. QED BY <1>1, <1>2, ResumeFrom

\* The top of the loop: the role at the position says whether the text is over, or
\* whether a quoted or a plain element begins.
LEMMA NextElementStep ==
  ASSUME WrittenInv, ReadInv, NextElement
  PROVE  ReadInv'
<1>1. pc = "split" /\ pc \in Reading
  BY DEF NextElement, Reading
<1>2. /\ Within /\ shape = "flat" /\ i \in 1 .. Len(s) + 1
      /\ s \in Seq(Chars) /\ Len(s) \in Nat /\ Found(elems)
      /\ Len(elems) \in Nat /\ Len(arr) \in Nat /\ Len(elems) <= Len(arr)
      /\ StoredInv
  BY <1>1, WhileReading
<1>3. UNCHANGED <<stored, written, s>> /\ elems' = elems
  BY DEF NextElement
<1>4. PICK k : k = Len(elems) + 1
  OBVIOUS
<1>5. role[i + 1] = IF Len(elems) < Len(arr) THEN AtElement(k) ELSE At("end", Len(arr), 0)
  BY <1>1, <1>4 DEF ReadInv, SplitInv, SplitAt
<1>6. ASSUME SkipSpaces(s, i) = i
      PROVE  \/ i > Len(s) /\ i' = i /\ pc' = "map" /\ UNCHANGED <<start, sb>>
             \/ i <= Len(s) /\ s[i] = "quote" /\ i' = i + 1 /\ sb' = <<>> /\ pc' = "quoted"
             \/ i <= Len(s) /\ s[i] # "quote" /\ i' = i /\ start' = i /\ pc' = "plain"
  BY <1>6 DEF NextElement
<1>7. CASE ~ Len(elems) < Len(arr)
  <2>1. role[i + 1].part = "end"
    BY <1>5, <1>7, AtFields
  <2>2. i = Len(s) + 1
    BY <1>2, <2>1, AtPosition
  <2>3. SkipSpaces(s, i) = i
    BY <1>2, <2>2, SkipNothing
  <2>4. i' = i /\ pc' = "map"
    BY <1>2, <1>6, <2>2, <2>3
  <2>5. Len(elems) = Len(arr)
    BY <1>2, <1>7
  <2>6. QED BY <1>1, <1>2, <1>3, <2>4, <2>5, Resume
<1>8. CASE Len(elems) < Len(arr)
  <2>1. k \in 1 .. Len(arr) /\ role[i + 1] = AtElement(k)
    BY <1>2, <1>4, <1>5, <1>8
  <2>2. Len(Word(arr[k])) \in Nat
    BY <1>2, <2>1, Words
  <2>3. CASE NeedsQuotes(arr[k])
    <3>1. role[i + 1] = At("open", k, 0)
      BY <1>2, <2>1, <2>3, ElementRole
    <3>2. role[i + 1].part = "open" /\ role[i + 1].k = k
      BY <3>1, AtFields
    <3>3. /\ i \in 1 .. Len(s) /\ i + 1 \in 1 .. Len(s) + 1
          /\ s[i] = "quote" /\ role[i + 2] = AtChar(k, 1)
      BY <1>2, <3>2, AtPosition, GlyphParts, AfterParts
    <3>4. SkipSpaces(s, i) = i
      BY <1>2, <3>3, SkipNothing
    <3>5. i' = i + 1 /\ sb' = <<>> /\ pc' = "quoted"
      BY <1>2, <1>6, <3>3, <3>4
    <3>6. QuotedAt(i + 1, <<>>, k)
      <4>1. (i + 1) + 1 = i + 2
        BY <3>3
      <4>2. QED BY <2>1, <2>2, <2>3, <3>3, <4>1, EmptySeq DEF QuotedAt
    <3>7. QED BY <1>1, <1>2, <1>3, <1>4, <3>3, <3>5, <3>6, Resume
  <2>4. CASE ~ NeedsQuotes(arr[k])
    <3>1. role[i + 1] = At("char", k, 1) /\ AtElement(k) = AtChar(k, 1)
      BY <1>2, <2>1, <2>4, ElementRole DEF AtElement
    <3>2. role[i + 1].part = "char" /\ role[i + 1].k = k /\ role[i + 1].j = 1
      BY <3>1, AtFields
    <3>3. i \in 1 .. Len(s) /\ s[i] = Word(arr[k])[1]
      BY <1>2, <3>2, AtPosition, GlyphParts
    <3>4. Word(arr[k])[1] \notin Special
      <4>1. 1 \in 1 .. Len(Word(arr[k]))
        BY <1>2, <2>1, <2>4, Words
      <4>2. QED BY <1>2, <2>1, <2>4, <4>1, Words
    <3>5. s[i] # "space" /\ s[i] # "quote"
      BY <3>3, <3>4 DEF Special
    <3>6. SkipSpaces(s, i) = i
      BY <1>2, <3>5, SkipNothing
    <3>7. i' = i /\ start' = i /\ pc' = "plain"
      BY <1>2, <1>6, <3>3, <3>5, <3>6
    <3>8. PlainAt(i, i, k)
      <4>1. i \in 1 .. i /\ i - i = 0 /\ i - i + 1 = 1
        BY <3>3
      <4>2. i - i <= Len(Word(arr[k]))
        BY <2>2, <4>1
      <4>3. \A x \in 1 .. i - i : s[i + x - 1] = Word(arr[k])[x]
        BY <4>1
      <4>4. role[i + 1] = AtChar(k, i - i + 1)
        BY <2>1, <3>1, <4>1
      <4>5. QED BY <2>1, <2>4, <4>1, <4>2, <4>3, <4>4, Zenon DEF PlainAt
    <3>9. QED BY <1>1, <1>2, <1>3, <1>4, <3>7, <3>8, Resume
  <2>5. QED BY <2>3, <2>4
<1>9. QED BY <1>7, <1>8
\* Another character of a quoted element.
LEMMA QuotedMore ==
  ASSUME StoredInv, NEW p, NEW b, NEW k, QuotedAt(p, b, k),
         Len(b) + 1 <= Len(Word(arr[k])),
         NEW q, role[q + 1] = AtChar(k, Len(b) + 2),
         NEW c, c = Word(arr[k])[Len(b) + 1]
  PROVE  QuotedAt(q, Append(b, c), k)
<1>1. /\ k \in 1 .. Len(arr) /\ NeedsQuotes(arr[k]) /\ b \in Seq(Chars)
      /\ \A x \in 1 .. Len(b) : b[x] = Word(arr[k])[x]
  BY DEF QuotedAt
<1>2. /\ Len(b) \in Nat /\ Word(arr[k]) \in Seq(Chars) /\ Len(Word(arr[k])) \in Nat
  BY <1>1, Words, LenProperties
<1>3. Len(b) + 1 \in 1 .. Len(Word(arr[k]))
  BY <1>2
<1>4. c \in Chars
  BY <1>2, <1>3, ElementOfSeq
<1>5. /\ Append(b, c) \in Seq(Chars) /\ Len(Append(b, c)) = Len(b) + 1
      /\ \A x \in 1 .. Len(b) : Append(b, c)[x] = b[x]
      /\ Append(b, c)[Len(b) + 1] = c
  BY <1>1, <1>4, AppendProperties
<1>6. \A x \in 1 .. Len(b) + 1 : Append(b, c)[x] = Word(arr[k])[x]
  BY <1>1, <1>2, <1>5
<1>7. (Len(b) + 1) + 1 = Len(b) + 2
  BY <1>2
<1>8. QED BY <1>1, <1>5, <1>6, <1>7 DEF QuotedAt

\* Another element found.
LEMMA FoundMore ==
  ASSUME StoredInv, NEW es, Found(es), Len(es) < Len(arr), NEW e \in Seq(Chars),
         Frayed(arr[Len(es) + 1]) \/ e = Word(arr[Len(es) + 1])
  PROVE  Found(Append(es, e)) /\ Len(Append(es, e)) = Len(es) + 1
<1>1. /\ es \in Seq(Seq(Chars)) /\ Len(es) \in Nat /\ Len(arr) \in Nat
      /\ \A x \in 1 .. Len(es) : Frayed(arr[x]) \/ es[x] = Word(arr[x])
  BY StoredSeq, LenProperties DEF Found
<1>2. /\ Append(es, e) \in Seq(Seq(Chars)) /\ Len(Append(es, e)) = Len(es) + 1
      /\ \A x \in 1 .. Len(es) : Append(es, e)[x] = es[x]
      /\ Append(es, e)[Len(es) + 1] = e
  BY <1>1, AppendProperties
<1>3. ASSUME NEW x \in 1 .. Len(es) + 1
      PROVE  Frayed(arr[x]) \/ Append(es, e)[x] = Word(arr[x])
  <2>1. CASE x \in 1 .. Len(es)
    BY <1>1, <1>2, <2>1
  <2>2. CASE x = Len(es) + 1
    BY <1>2, <2>2
  <2>3. QED BY <1>1, <2>1, <2>2
<1>4. Len(es) + 1 <= Len(arr)
  BY <1>1
<1>5. QED BY <1>2, <1>3, <1>4 DEF Found

\* After an element comes a comma with the next one behind it, or the end.
LEMMA ElementEnds ==
  ASSUME Within, shape = "flat", StoredInv, NEW p \in 1 .. Len(s) + 1,
         NEW es, Len(es) \in 1 .. Len(arr), role[p + 1] = AfterElement(Len(es))
  PROVE  /\ SkipSpaces(s, p) = p
         /\ SkipComma(s, p) \in 1 .. Len(s) + 1
         /\ SplitAt(SkipComma(s, p), es)
         /\ p <= Len(s) => s[p] = "comma"
<1>1. s \in Seq(Chars) /\ Len(s) \in Nat /\ Len(arr) \in Nat
  BY InnerText, StoredSeq
<1>2. CASE Len(es) < Len(arr) /\ AfterElement(Len(es)) = At("comma", Len(es), 0)
  <2>1. role[p + 1].part = "comma" /\ role[p + 1].k = Len(es)
    BY <1>2, AtFields
  <2>2. /\ p \in 1 .. Len(s) /\ p + 1 \in 1 .. Len(s) + 1
        /\ s[p] = "comma" /\ role[p + 2] = AtElement(Len(es) + 1)
    BY <2>1, AtPosition, GlyphParts, AfterParts
  <2>3. SkipComma(s, p) = p + 1
    BY <1>1, <2>2 DEF SkipComma
  <2>4. SplitAt(p + 1, es)
    <3>1. (p + 1) + 1 = p + 2
      BY <2>2
    <3>2. QED BY <1>2, <2>2, <3>1 DEF SplitAt
  <2>5. SkipSpaces(s, p) = p
    BY <1>1, <2>2, SkipNothing
  <2>6. QED BY <2>2, <2>3, <2>4, <2>5
<1>3. CASE Len(es) = Len(arr) /\ AfterElement(Len(es)) = At("end", Len(arr), 0)
  <2>1. role[p + 1].part = "end"
    BY <1>3, AtFields
  <2>2. p = Len(s) + 1
    BY <2>1, AtPosition
  <2>3. SkipComma(s, p) = p
    BY <1>1, <2>2 DEF SkipComma
  <2>4. SplitAt(p, es)
    BY <1>1, <1>3 DEF SplitAt
  <2>5. SkipSpaces(s, p) = p
    BY <1>1, <2>2, SkipNothing
  <2>6. QED BY <1>1, <2>2, <2>3, <2>4, <2>5
<1>4. QED BY <1>2, <1>3, EndRole

\* One character of a quoted element: the role tells an escape from a character.
LEMMA QuotedCharStep ==
  ASSUME WrittenInv, ReadInv, QuotedChar
  PROVE  ReadInv'
<1>1. pc = "quoted" /\ pc' = "quoted" /\ pc \in Reading
  BY DEF QuotedChar, Reading
<1>2. /\ Within /\ shape = "flat" /\ i \in 1 .. Len(s) + 1
      /\ s \in Seq(Chars) /\ Len(s) \in Nat /\ Found(elems) /\ StoredInv
  BY <1>1, WhileReading
<1>3. UNCHANGED <<stored, written, s>> /\ elems' = elems
  BY DEF QuotedChar
<1>4. PICK k : k = Len(elems) + 1
  OBVIOUS
<1>5. QuotedAt(i, sb, k)
  BY <1>1, <1>4 DEF ReadInv, QuotedInv
<1>6. PICK j : j = Len(sb) + 1
  OBVIOUS
<1>7. /\ k \in 1 .. Len(arr) /\ NeedsQuotes(arr[k]) /\ role[i + 1] = AtChar(k, j)
      /\ sb \in Seq(Chars) /\ Len(sb) \in Nat /\ Len(sb) <= Len(Word(arr[k]))
  BY <1>5, <1>6, LenProperties DEF QuotedAt
<1>8. Len(Word(arr[k])) \in Nat /\ j \in 1 .. Len(Word(arr[k])) + 1 /\ j + 1 = Len(sb) + 2
  BY <1>2, <1>6, <1>7, Words
<1>9. ASSUME NEW q \in 1 .. Len(s) + 1, i' = q, j <= Len(Word(arr[k])),
             role[q + 1] = AtChar(k, j + 1), sb' = Append(sb, Word(arr[k])[j])
      PROVE  ReadInv'
  <2>1. QuotedAt(q, sb', k)
    BY <1>2, <1>5, <1>6, <1>8, <1>9, QuotedMore
  <2>2. QED BY <1>1, <1>2, <1>3, <1>4, <1>9, <2>1, Resume
<1>10. CASE /\ j <= Len(Word(arr[k])) /\ AtChar(k, j) = At("esc", k, j)
  <2>1. role[i + 1].part = "esc" /\ role[i + 1].k = k /\ role[i + 1].j = j
    BY <1>7, <1>10, AtFields
  <2>2. /\ i \in 1 .. Len(s) /\ i + 1 \in 1 .. Len(s) + 1
        /\ s[i] = "backslash" /\ role[i + 2] = At("char", k, j)
    BY <1>2, <2>1, AtPosition, GlyphParts, AfterParts
  <2>3. (i + 1) + 1 = i + 2 /\ (i + 1) + 2 = (i + 2) + 1
    BY <2>2
  <2>4. role[(i + 1) + 1].part = "char" /\ role[(i + 1) + 1].k = k /\ role[(i + 1) + 1].j = j
    BY <2>2, <2>3, AtFields
  <2>5. /\ i + 1 \in 1 .. Len(s) /\ (i + 1) + 1 \in 1 .. Len(s) + 1
        /\ s[i + 1] = Word(arr[k])[j] /\ role[(i + 1) + 2] = AtChar(k, j + 1)
    BY <1>2, <2>2, <2>4, AtPosition, GlyphParts, AfterParts
  <2>6. i' = i + 2 /\ sb' = Append(sb, s[i + 1])
    BY <1>2, <2>2, <2>5 DEF QuotedChar
  <2>7. i + 2 \in 1 .. Len(s) + 1 /\ role[(i + 2) + 1] = AtChar(k, j + 1)
    BY <2>3, <2>5
  <2>8. QED BY <1>9, <1>10, <2>5, <2>6, <2>7
<1>11. CASE /\ j <= Len(Word(arr[k])) /\ AtChar(k, j) = At("char", k, j)
            /\ Word(arr[k])[j] \notin {"quote", "backslash"}
  <2>1. role[i + 1].part = "char" /\ role[i + 1].k = k /\ role[i + 1].j = j
    BY <1>7, <1>11, AtFields
  <2>2. /\ i \in 1 .. Len(s) /\ i + 1 \in 1 .. Len(s) + 1
        /\ s[i] = Word(arr[k])[j] /\ role[i + 2] = AtChar(k, j + 1)
    BY <1>2, <2>1, AtPosition, GlyphParts, AfterParts
  <2>3. i' = i + 1 /\ sb' = Append(sb, s[i])
    BY <1>11, <2>2 DEF QuotedChar
  <2>4. role[(i + 1) + 1] = AtChar(k, j + 1)
    <3>1. (i + 1) + 1 = i + 2
      BY <2>2
    <3>2. QED BY <2>2, <3>1
  <2>5. QED BY <1>9, <1>11, <2>2, <2>3, <2>4
<1>12. CASE AtChar(k, j) = At("close", k, 0)
  <2>1. role[i + 1].part = "close"
    BY <1>7, <1>12, AtFields
  <2>2. s[i] = "quote"
    BY <1>2, <2>1, AtPosition, GlyphParts
  <2>3. QED BY <2>2 DEF QuotedChar
<1>13. QED BY <1>2, <1>7, <1>8, <1>10, <1>11, <1>12, CharRole
\* An element is finished and the next one, or the end, is looked for.
LEMMA ElementDone ==
  ASSUME WrittenInv, ReadInv, pc \in Reading, UNCHANGED <<stored, written, s>>, pc' = "split",
         NEW k, k = Len(elems) + 1, k <= Len(arr),
         NEW e \in Seq(Chars), Frayed(arr[k]) \/ e = Word(arr[k]),
         elems' = Append(elems, e),
         NEW p \in 1 .. Len(s) + 1, role[p + 1] = AfterElement(k),
         i' = SkipComma(s, p)
  PROVE  ReadInv'
<1>1. /\ Within /\ shape = "flat" /\ StoredInv /\ Found(elems)
      /\ Len(elems) \in Nat /\ Len(arr) \in Nat
  BY WhileReading
<1>2. PICK es : es = Append(elems, e)
  OBVIOUS
<1>3. Found(es) /\ Len(es) = k
  <2>1. Len(elems) < Len(arr)
    BY <1>1
  <2>2. QED BY <1>1, <1>2, <2>1, FoundMore
<1>4. Len(es) \in 1 .. Len(arr)
  BY <1>1, <1>3
<1>5. SkipComma(s, p) \in 1 .. Len(s) + 1 /\ SplitAt(SkipComma(s, p), es)
  BY <1>1, <1>3, <1>4, ElementEnds
<1>6. QED BY <1>2, <1>3, <1>5, Resume

\* A quoted element ends where array_out closed it, at no quote inside.
LEMMA QuotedEndStep ==
  ASSUME WrittenInv, ReadInv, QuotedEnd
  PROVE  ReadInv'
<1>1. pc = "quoted" /\ pc' = "split" /\ pc \in Reading
  BY DEF QuotedEnd, Reading
<1>2. /\ Within /\ shape = "flat" /\ i \in 1 .. Len(s) + 1
      /\ s \in Seq(Chars) /\ Len(s) \in Nat /\ StoredInv
      /\ Len(elems) \in Nat /\ Len(arr) \in Nat
  BY <1>1, WhileReading
<1>3. UNCHANGED <<stored, written, s>> /\ elems' = Append(elems, sb)
  BY DEF QuotedEnd
<1>4. PICK k : k = Len(elems) + 1
  OBVIOUS
<1>5. PICK j : j = Len(sb) + 1
  OBVIOUS
<1>6. /\ k \in 1 .. Len(arr) /\ NeedsQuotes(arr[k]) /\ role[i + 1] = AtChar(k, j)
      /\ sb \in Seq(Chars) /\ Len(sb) \in Nat /\ Len(sb) <= Len(Word(arr[k]))
      /\ \A x \in 1 .. Len(sb) : sb[x] = Word(arr[k])[x]
  BY <1>1, <1>4, <1>5, LenProperties DEF ReadInv, QuotedInv, QuotedAt
<1>7. /\ Word(arr[k]) \in Seq(Chars) /\ Len(Word(arr[k])) \in Nat
      /\ j \in 1 .. Len(Word(arr[k])) + 1
  BY <1>2, <1>5, <1>6, Words
<1>8. CASE AtChar(k, j) = At("esc", k, j)
  <2>1. role[i + 1].part = "esc"
    BY <1>6, <1>8, AtFields
  <2>2. i \in 1 .. Len(s) /\ s[i] = "backslash"
    BY <1>2, <2>1, AtPosition, GlyphParts
  <2>3. QED BY <1>2, <2>2 DEF QuotedEnd
<1>9. CASE AtChar(k, j) = At("char", k, j) /\ Word(arr[k])[j] \notin {"quote", "backslash"}
  <2>1. role[i + 1].part = "char" /\ role[i + 1].k = k /\ role[i + 1].j = j
    BY <1>6, <1>9, AtFields
  <2>2. i \in 1 .. Len(s) /\ s[i] = Word(arr[k])[j]
    BY <1>2, <2>1, AtPosition, GlyphParts
  <2>3. QED BY <1>2, <1>9, <2>2 DEF QuotedEnd
<1>10. CASE j = Len(Word(arr[k])) + 1 /\ AtChar(k, j) = At("close", k, 0)
  <2>1. role[i + 1].part = "close" /\ role[i + 1].k = k
    BY <1>6, <1>10, AtFields
  <2>2. /\ i \in 1 .. Len(s) /\ i + 1 \in 1 .. Len(s) + 1
        /\ role[i + 2] = AfterElement(k)
    BY <1>2, <2>1, AtPosition, AfterParts
  <2>3. role[(i + 1) + 1] = AfterElement(k)
    <3>1. (i + 1) + 1 = i + 2
      BY <2>2
    <3>2. QED BY <2>2, <3>1
  <2>4. sb = Word(arr[k])
    <3>1. Len(sb) = Len(Word(arr[k]))
      BY <1>5, <1>6, <1>7, <1>10
    <3>2. QED BY <1>6, <1>7, <3>1, SeqEqual
  <2>5. i' = SkipComma(s, SkipSpaces(s, i + 1))
    BY <1>2, <2>2 DEF QuotedEnd
  <2>6. SkipSpaces(s, i + 1) = i + 1
    <3>1. CASE k < Len(arr) /\ AfterElement(k) = At("comma", k, 0)
      <4>1. role[(i + 1) + 1].part = "comma"
        BY <2>3, <3>1, AtFields
      <4>2. s[i + 1] = "comma"
        BY <1>2, <2>2, <4>1, AtPosition, GlyphParts
      <4>3. QED BY <1>2, <2>2, <4>2, SkipNothing
    <3>2. CASE AfterElement(k) = At("end", Len(arr), 0)
      <4>1. role[(i + 1) + 1].part = "end"
        BY <2>3, <3>2, AtFields
      <4>2. i + 1 = Len(s) + 1
        BY <1>2, <2>2, <4>1, AtPosition
      <4>3. QED BY <1>2, <2>2, <4>2, SkipNothing
    <3>3. QED BY <1>2, <1>6, <3>1, <3>2, EndRole
  <2>7. k <= Len(arr) /\ i' = SkipComma(s, i + 1)
    BY <1>2, <1>6, <2>5, <2>6
  <2>8. QED BY <1>1, <1>3, <1>4, <1>6, <2>2, <2>3, <2>4, <2>7, ElementDone
<1>11. QED BY <1>2, <1>6, <1>7, <1>8, <1>9, <1>10, CharRole

\* A plain element has its characters as they are.
LEMMA PlainPosition ==
  ASSUME WrittenInv, ReadInv, pc = "plain", NEW k, k = Len(elems) + 1,
         NEW j, j = i - start + 1
  PROVE  /\ k \in 1 .. Len(arr) /\ ~ NeedsQuotes(arr[k])
         /\ start \in Nat /\ start >= 1 /\ start <= i
         /\ Len(Word(arr[k])) \in Nat /\ Word(arr[k]) \in Seq(Chars)
         /\ j \in 1 .. Len(Word(arr[k])) + 1 /\ i - start = j - 1
         /\ \A x \in 1 .. j - 1 : s[start + x - 1] = Word(arr[k])[x]
         /\ \/ /\ j <= Len(Word(arr[k])) /\ i \in 1 .. Len(s) /\ i + 1 \in 1 .. Len(s) + 1
               /\ s[i] = Word(arr[k])[j] /\ s[i] # "comma"
               /\ role[i + 2] = AtChar(k, j + 1)
            \/ j = Len(Word(arr[k])) + 1 /\ role[i + 1] = AfterElement(k)
<1>1. /\ Within /\ shape = "flat" /\ i \in 1 .. Len(s) + 1
      /\ s \in Seq(Chars) /\ Len(s) \in Nat /\ StoredInv /\ Len(arr) \in Nat
  BY WhileReading DEF Reading
<1>2. PlainAt(i, start, k)
  BY DEF ReadInv, PlainInv
<1>3. /\ k \in 1 .. Len(arr) /\ ~ NeedsQuotes(arr[k])
      /\ start \in 1 .. i /\ i - start <= Len(Word(arr[k]))
      /\ role[i + 1] = AtChar(k, j)
      /\ \A x \in 1 .. i - start : s[start + x - 1] = Word(arr[k])[x]
  BY <1>2 DEF PlainAt
<1>4. start \in Nat /\ start >= 1 /\ start <= i /\ i - start = j - 1 /\ j \in Nat /\ j >= 1
  BY <1>1, <1>3
<1>5. /\ Word(arr[k]) \in Seq(Chars) /\ Len(Word(arr[k])) \in Nat
      /\ \A x \in 1 .. Len(Word(arr[k])) : Word(arr[k])[x] \notin Special
  BY <1>1, <1>3, Words
<1>6. j \in 1 .. Len(Word(arr[k])) + 1
  BY <1>3, <1>4, <1>5
<1>7. CASE j <= Len(Word(arr[k])) /\ AtChar(k, j) = At("char", k, j)
  <2>1. role[i + 1].part = "char" /\ role[i + 1].k = k /\ role[i + 1].j = j
    BY <1>3, <1>7, AtFields
  <2>2. /\ i \in 1 .. Len(s) /\ i + 1 \in 1 .. Len(s) + 1
        /\ s[i] = Word(arr[k])[j] /\ role[i + 2] = AtChar(k, j + 1)
    <3>1. /\ i \in 1 .. Len(s) /\ i + 1 \in 1 .. Len(s) + 1
          /\ s[i] = Glyph(role[i + 1]) /\ role[i + 2] = After(role[i + 1])
      BY <1>1, <2>1, AtPosition
    <3>2. Glyph(role[i + 1]) = Word(arr[k])[j] /\ After(role[i + 1]) = AtChar(k, j + 1)
      BY <2>1, GlyphParts, AfterParts
    <3>3. QED BY <3>1, <3>2
  <2>3. s[i] \notin Special
    <3>1. j \in 1 .. Len(Word(arr[k]))
      BY <1>5, <1>6, <1>7
    <3>2. QED BY <1>5, <2>2, <3>1
  <2>4. s[i] # "comma"
    BY <2>3 DEF Special
  <2>5. QED BY <1>3, <1>4, <1>5, <1>6, <1>7, <2>2, <2>4
<1>8. CASE j = Len(Word(arr[k])) + 1 /\ AtChar(k, j) = AfterElement(k)
  BY <1>3, <1>4, <1>5, <1>6, <1>8
<1>9. QED BY <1>1, <1>3, <1>6, <1>7, <1>8, CharRole

\* One character of a plain element: none is a comma.
LEMMA PlainCharStep ==
  ASSUME WrittenInv, ReadInv, PlainChar
  PROVE  ReadInv'
<1>1. pc = "plain" /\ pc' = "plain" /\ pc \in Reading /\ i <= Len(s) /\ s[i] # "comma" /\ i' = i + 1
  BY DEF PlainChar, Reading
<1>2. /\ Within /\ shape = "flat" /\ i \in 1 .. Len(s) + 1
      /\ s \in Seq(Chars) /\ Len(s) \in Nat /\ StoredInv /\ Found(elems)
      /\ Len(elems) \in Nat
  BY <1>1, WhileReading
<1>3. UNCHANGED <<stored, written, s>> /\ elems' = elems /\ start' = start
  BY DEF PlainChar
<1>4. PICK k, j : k = Len(elems) + 1 /\ j = i - start + 1
  OBVIOUS
<1>5. ASSUME role[i + 1] = AfterElement(k), k \in 1 .. Len(arr) PROVE FALSE
  <2>1. CASE AfterElement(k) = At("comma", k, 0)
    <3>1. role[i + 1].part = "comma"
      BY <1>5, <2>1, AtFields
    <3>2. QED BY <1>1, <1>2, <3>1, AtPosition, GlyphParts
  <2>2. CASE AfterElement(k) = At("end", Len(arr), 0)
    <3>1. role[i + 1].part = "end"
      BY <1>5, <2>2, AtFields
    <3>2. i = Len(s) + 1
      BY <1>2, <3>1, AtPosition
    <3>3. QED BY <1>1, <1>2, <3>2
  <2>3. QED BY <1>2, <1>5, <2>1, <2>2, EndRole
<1>6. /\ k \in 1 .. Len(arr) /\ ~ NeedsQuotes(arr[k])
      /\ start \in Nat /\ start >= 1 /\ start <= i
      /\ Len(Word(arr[k])) \in Nat
      /\ j \in 1 .. Len(Word(arr[k])) + 1 /\ i - start = j - 1
      /\ \A x \in 1 .. j - 1 : s[start + x - 1] = Word(arr[k])[x]
      /\ j <= Len(Word(arr[k])) /\ i \in 1 .. Len(s) /\ i + 1 \in 1 .. Len(s) + 1
      /\ s[i] = Word(arr[k])[j]
      /\ role[i + 2] = AtChar(k, j + 1)
  BY <1>1, <1>4, <1>5, PlainPosition
<1>7. PlainAt(i + 1, start, k)
  <2>1. start \in 1 .. i + 1 /\ (i + 1) - start = j /\ (i + 1) + 1 = i + 2
    BY <1>6
  <2>2. ASSUME NEW x \in 1 .. j PROVE s[start + x - 1] = Word(arr[k])[x]
    <3>1. CASE x = j
      <4>1. start + x - 1 = i
        BY <1>6, <3>1
      <4>2. QED BY <1>6, <3>1, <4>1
    <3>2. CASE x # j
      <4>1. x \in 1 .. j - 1
        BY <1>6, <3>2
      <4>2. QED BY <1>6, <4>1
    <3>3. QED BY <3>1, <3>2
  <2>3. PICK y : y = (i + 1) - start
    OBVIOUS
  <2>4. y = j /\ y <= Len(Word(arr[k])) /\ role[(i + 1) + 1] = AtChar(k, y + 1)
    BY <1>6, <2>1, <2>3
  <2>5. \A x \in 1 .. y : s[start + x - 1] = Word(arr[k])[x]
    BY <2>2, <2>4
  <2>6. QED BY <1>6, <2>1, <2>3, <2>4, <2>5, Zenon DEF PlainAt
<1>8. QED BY <1>1, <1>2, <1>3, <1>4, <1>6, <1>7, Resume
\* A plain element ends where array_out ended it, and is trimmed only if frayed.
LEMMA PlainEndStep ==
  ASSUME WrittenInv, ReadInv, PlainEnd
  PROVE  ReadInv'
<1>1. pc = "plain" /\ pc' = "split" /\ pc \in Reading /\ (i <= Len(s) => s[i] = "comma")
  BY DEF PlainEnd, Reading
<1>2. /\ i \in 1 .. Len(s) + 1 /\ s \in Seq(Chars) /\ Len(s) \in Nat /\ StoredInv
      /\ Len(arr) \in Nat
  BY <1>1, WhileReading
<1>3. PICK e : e = TrimSpace(SubSeq(s, start, i - 1))
  OBVIOUS
<1>4. UNCHANGED <<stored, written, s>> /\ elems' = Append(elems, e) /\ i' = SkipComma(s, i)
  BY <1>3 DEF PlainEnd
<1>5. PICK k, j : k = Len(elems) + 1 /\ j = i - start + 1
  OBVIOUS
<1>6. /\ k \in 1 .. Len(arr) /\ ~ NeedsQuotes(arr[k])
      /\ start \in Nat /\ start >= 1 /\ start <= i
      /\ Len(Word(arr[k])) \in Nat /\ Word(arr[k]) \in Seq(Chars)
      /\ i - start = j - 1
      /\ \A x \in 1 .. j - 1 : s[start + x - 1] = Word(arr[k])[x]
      /\ j = Len(Word(arr[k])) + 1 /\ role[i + 1] = AfterElement(k)
  <2>1. ASSUME i \in 1 .. Len(s), s[i] # "comma" PROVE FALSE
    BY <1>1, <1>2, <2>1
  <2>2. QED BY <1>1, <1>5, <2>1, PlainPosition
<1>7. SubSeq(s, start, i - 1) = Word(arr[k])
  <2>1. start \in 1 .. Len(s) + 1 /\ i - 1 \in 0 .. Len(s) /\ (i - 1) - start + 1 = j - 1
    BY <1>2, <1>6
  <2>2. /\ SubSeq(s, start, i - 1) \in Seq(Chars)
        /\ Len(SubSeq(s, start, i - 1)) = IF start <= i - 1 THEN (i - 1) - start + 1 ELSE 0
        /\ \A q \in 1 .. (i - 1) - start + 1 : SubSeq(s, start, i - 1)[q] = s[start + q - 1]
    BY <1>2, <2>1, Piece
  <2>3. Len(SubSeq(s, start, i - 1)) = Len(Word(arr[k]))
    <3>1. Len(Word(arr[k])) >= 1
      BY <1>2, <1>6, Words
    <3>2. QED BY <1>2, <1>6, <2>1, <2>2, <3>1
  <2>4. \A q \in 1 .. Len(Word(arr[k])) : SubSeq(s, start, i - 1)[q] = Word(arr[k])[q]
    <3>1. Len(Word(arr[k])) = j - 1
      BY <1>6
    <3>2. QED BY <1>6, <2>1, <2>2, <3>1
  <2>5. QED BY <1>6, <2>2, <2>3, <2>4, SeqEqual
<1>8. Frayed(arr[k]) \/ e = Word(arr[k])
  <2>1. SUFFICES ASSUME ~ Frayed(arr[k]) PROVE e = Word(arr[k])
    OBVIOUS
  <2>2. PICK w \in Seq(Chars) : w = Word(arr[k])
    BY <1>6
  <2>3. /\ Len(w) \in Nat /\ Len(w) >= 1 /\ \A x \in 1 .. Len(w) : w[x] \notin Special
    BY <1>2, <1>6, <2>2, Words
  <2>4. w[1] # "space" /\ w[Len(w)] # "space"
    <3>1. 1 \in 1 .. Len(w) /\ Len(w) \in 1 .. Len(w)
      BY <2>3
    <3>2. QED BY <2>3, <3>1 DEF Special
  <2>5. w[1] \notin Blanks /\ w[Len(w)] \notin Blanks
    <3>1. CASE arr[k] = Null
      <4>1. w = <<"NULL">>
        BY <2>2, <3>1 DEF Word
      <4>2. "NULL" \notin Blanks
        BY Marks DEF White
      <4>3. QED BY <4>1, <4>2, Alphabet
    <3>2. CASE arr[k] # Null
      <4>1. w = arr[k]
        BY <2>2, <3>2 DEF Word
      <4>2. QED BY <1>6, <2>1, <4>1 DEF Frayed
    <3>3. QED BY <3>1, <3>2
  <2>6. w[1] \notin White /\ w[Len(w)] \notin White
    BY <2>4, <2>5 DEF White
  <2>7. TrimSpace(w) = w
    BY <2>3, <2>6, TrimNothing
  <2>8. QED BY <1>3, <1>7, <2>2, <2>7
<1>9. e \in Seq(Chars)
  <2>1. TrimSpace(Word(arr[k])) \in Seq(Chars)
    BY <1>6, TrimIsText
  <2>2. QED BY <1>3, <1>7, <2>1
<1>10. k <= Len(arr)
  BY <1>2, <1>6
<1>11. QED BY <1>1, <1>2, <1>4, <1>5, <1>6, <1>8, <1>9, <1>10, ElementDone
----------------------------------------------------------------------------
(* The beginning and the end of parseArray.                                *)

\* Only what was found matters once parseArray has returned.
LEMMA Returned ==
  ASSUME WrittenInv, ReadInv, pc # "write", pc' = "done", UNCHANGED <<stored, written, s>>,
         elems' = elems
  PROVE  ReadInv'
<1>1. PcInv' /\ WriteInv' /\ FoundInv'
  BY SameReading DEF ReadInv, PcInv, FoundInv
<1>2. InnerInv' /\ SplitInv' /\ QuotedInv' /\ PlainInv' /\ MapInv'
  BY DEF InnerInv, Reading, SplitInv, QuotedInv, PlainInv, MapInv
<1>3. QED BY <1>1, <1>2 DEF ReadInv

\* A text with bounds is returned as it is; every other goes on.
LEMMA parseArrayStep ==
  ASSUME WrittenInv, ReadInv, parseArray
  PROVE  ReadInv' /\ ElementsSurvive'
<1>1. pc = "parse" /\ Whole
  BY DEF parseArray, ReadInv, WriteInv, Whole
<1>2. UNCHANGED <<stored, written>> /\ elems' = elems
  BY DEF parseArray
<1>3. /\ Len(text) \in Nat /\ Len(text) >= 2 /\ text[Len(text)] = "rbrace"
      /\ text[1] = IF shape = "bounded" THEN "bounds" ELSE "lbrace"
      /\ TrimSpace(text) = text
  BY <1>1, WholeText
<1>4. IF Len(text) < 2 \/ text[1] # "lbrace" \/ text[Len(text)] # "rbrace"
        THEN result' = Verbatim(text) /\ pc' = "done" /\ s' = s
        ELSE s' = SubSeq(text, 2, Len(text) - 1) /\ pc' = "inner"
  BY <1>3 DEF parseArray, Return
<1>5. CASE shape = "bounded"
  <2>1. result' = Verbatim(text) /\ pc' = "done" /\ s' = s
    BY <1>3, <1>4, <1>5
  <2>2. ReadInv'
    BY <1>1, <1>2, <2>1, Returned
  <2>3. shape' = shape /\ text' = text
    BY <1>2 DEF stored, written
  <2>4. QED BY <1>5, <2>1, <2>2, <2>3 DEF ElementsSurvive, Verbatim
<1>6. CASE shape # "bounded"
  <2>1. s' = SubSeq(text, 2, Len(text) - 1) /\ pc' = "inner"
    BY <1>3, <1>4, <1>6
  <2>2. arr' = arr /\ shape' = shape /\ text' = text /\ role' = role
    BY <1>2 DEF stored, written
  <2>3. PcInv' /\ WriteInv'
    BY <1>1, <2>1, <2>2 DEF ReadInv, PcInv, WriteInv, Final
  <2>4. InnerInv'
    BY <1>1, <1>2, <1>6, <2>1, <2>2 DEF ReadInv, InnerInv, Reading
  <2>5. FoundInv'
    BY <1>2, <2>2 DEF ReadInv, FoundInv, Found
  <2>6. SplitInv' /\ QuotedInv' /\ PlainInv' /\ MapInv' /\ ElementsSurvive'
    BY <2>1 DEF SplitInv, QuotedInv, PlainInv, MapInv, ElementsSurvive
  <2>7. QED BY <2>3, <2>4, <2>5, <2>6 DEF ReadInv
<1>7. QED BY <1>5, <1>6

\* The array's own brace is the only one outside quotes.
LEMMA NoBrace ==
  ASSUME StoredInv, shape = "flat", NEW r, Placed(r), ~ Final(r)
  PROVE  After(r).part # "brace"
<1>1. Len(arr) \in Nat /\ r.k \in Nat /\ r.j \in Nat /\ r.part \in Parts
  BY StoredSeq DEF Placed
<1>2. ASSUME NEW k \in 1 .. Len(arr)
      PROVE  AtElement(k).part # "brace" /\ AfterElement(k).part # "brace"
  BY <1>2, ElementRole, EndRole, AtFields
<1>3. r.part # "prefix" /\ r.part # "end" /\ r.part # "suffix"
  BY DEF Final, Placed
<1>4. CASE r.part = "brace"
  <2>1. CASE arr = <<>>
    BY <1>4, <2>1, AfterParts, AtFields
  <2>2. CASE arr # <<>>
    <3>1. 1 \in 1 .. Len(arr)
      BY <1>1, <2>2, StoredSeq
    <3>2. QED BY <1>2, <1>4, <2>2, <3>1, AfterParts
  <2>3. QED BY <2>1, <2>2
<1>5. CASE r.part = "comma"
  <2>1. r.k + 1 \in 1 .. Len(arr)
    BY <1>1, <1>5 DEF Placed
  <2>2. QED BY <1>2, <1>5, <2>1, AfterParts
<1>6. CASE r.part \in {"open", "esc", "char", "close"}
  <2>1. r.k \in 1 .. Len(arr) /\ Len(Word(arr[r.k])) \in Nat
    BY <1>6, Words DEF Placed
  <2>2. ASSUME NEW j \in 1 .. Len(Word(arr[r.k])) + 1 PROVE AtChar(r.k, j).part # "brace"
    <3>1. /\ At("esc", r.k, j).part = "esc" /\ At("char", r.k, j).part = "char"
          /\ At("close", r.k, 0).part = "close" /\ AfterElement(r.k).part # "brace"
      BY <1>2, <2>1, AtFields
    <3>2. \/ AtChar(r.k, j) = At("esc", r.k, j) \/ AtChar(r.k, j) = At("char", r.k, j)
          \/ AtChar(r.k, j) = At("close", r.k, 0) \/ AtChar(r.k, j) = AfterElement(r.k)
      BY <2>1, CharRole
    <3>3. QED BY <3>1, <3>2
  <2>3. CASE r.part = "open"
    BY <2>1, <2>2, <2>3, AfterParts
  <2>4. CASE r.part = "esc"
    BY <2>4, AfterParts, AtFields
  <2>5. CASE r.part = "char"
    <3>1. r.j + 1 \in 1 .. Len(Word(arr[r.k])) + 1
      BY <2>1, <2>5 DEF Placed
    <3>2. QED BY <2>2, <2>5, <3>1, AfterParts
  <2>6. CASE r.part = "close"
    BY <1>2, <2>1, <2>6, AfterParts
  <2>7. QED BY <1>6, <2>3, <2>4, <2>5, <2>6
<1>7. QED BY <1>1, <1>3, <1>4, <1>5, <1>6 DEF Parts
\* Where the inside of a flat array begins with a brace, once trimmed: nowhere.
LEMMA NoNesting ==
  ASSUME Within, shape = "flat", TrimSpace(s) # <<>>
  PROVE  TrimSpace(s)[1] # "lbrace"
<1>1. /\ s \in Seq(Chars) /\ Len(s) \in Nat /\ Len(role) = Len(s) + 2
      /\ WrittenInv /\ StoredInv
  BY InnerText DEF Within, Whole, WrittenInv
<1>2. PICK a \in 1 .. Len(s) :
        /\ TrimSpace(s)[1] = s[a] /\ \A p \in 1 .. Len(s) : s[p] \notin White => a <= p
  BY <1>1, TrimFirst
<1>3. SUFFICES ASSUME s[a] = "lbrace" PROVE FALSE
  BY <1>2
<1>4. /\ s[a] = Glyph(role[a + 1]) /\ Placed(role[a + 1]) /\ a + 1 \in 1 .. Len(role)
  BY <1>1, InnerText
<1>5. role[a + 1].part # "brace"
  <2>1. a \in 1 .. Len(role) - 1 /\ a \in 1 .. Len(role)
    BY <1>1
  <2>2. role[a + 1] = After(role[a]) /\ ~ Final(role[a]) /\ Placed(role[a])
    BY <2>1, <1>1 DEF WrittenInv, RoleInv
  <2>3. QED BY <1>1, <2>2, NoBrace
<1>6. role[a + 1].part = "char"
  <2>1. role[a + 1].part \in Parts /\ role[a + 1].part # "prefix"
    BY <1>4 DEF Placed
  <2>2. QED BY <1>3, <1>4, <1>5, <2>1, GlyphParts DEF Parts
<1>7. PICK k, j : k = role[a + 1].k /\ j = role[a + 1].j
  OBVIOUS
<1>8. k \in 1 .. Len(arr) /\ j \in 1 .. Len(Word(arr[k])) /\ Word(arr[k])[j] = "lbrace"
  BY <1>3, <1>4, <1>6, <1>7, GlyphParts DEF Placed
<1>9. NeedsQuotes(arr[k])
  <2>1. "lbrace" \in Special
    BY DEF Special
  <2>2. QED BY <1>1, <1>8, <2>1, Words
<1>10. PICK q \in 1 .. (a + 1) - 1 : role[q].part = "open"
  BY <1>1, <1>4, <1>6, <1>7, <1>9 DEF WrittenInv, OpenInv
<1>11. role[1].part = "brace"
  BY <1>1, AtFields DEF WrittenInv, RoleInv, First
<1>12. q # 1
  BY <1>10, <1>11
<1>13. q - 1 \in 1 .. Len(s) /\ q - 1 < a /\ (q - 1) + 1 = q
  BY <1>1, <1>12
<1>14. s[q - 1] = "quote"
  BY <1>10, <1>13, InnerText, GlyphParts
<1>15. QED BY <1>1, <1>2, <1>13, <1>14, Marks

\* Where it is all white space: in an empty array, or one with a single element.
LEMMA AllWhite ==
  ASSUME Within, shape = "flat", TrimSpace(s) = <<>>
  PROVE  arr = <<>> \/ (Len(arr) = 1 /\ Frayed(arr[1]))
<1>1. /\ s \in Seq(Chars) /\ Len(s) \in Nat /\ Len(role) = Len(s) + 2
      /\ WrittenInv /\ StoredInv /\ Len(arr) \in Nat
  BY InnerText, StoredSeq DEF Within, Whole, WrittenInv
<1>2. \A p \in 1 .. Len(s) : s[p] \in White
  BY <1>1, TrimEmpty
<1>3. SUFFICES ASSUME arr # <<>> PROVE Len(arr) = 1 /\ Frayed(arr[1])
  OBVIOUS
<1>4. 1 \in 1 .. Len(arr)
  BY <1>1, <1>3, StoredSeq
<1>5. role[1].part = "brace"
  BY <1>1, AtFields DEF WrittenInv, RoleInv, First
<1>6. role[2] = AtElement(1)
  BY <1>3, <1>5, InnerText, AfterParts
<1>7. 1 \in 1 .. Len(s) + 1 /\ 1 + 1 = 2
  BY <1>1
<1>8. ~ NeedsQuotes(arr[1]) /\ 1 \in 1 .. Len(s) /\ s[1] = Word(arr[1])[1]
  <2>1. CASE AtElement(1) = At("open", 1, 0)
    <3>1. role[1 + 1].part = "open"
      BY <1>6, <2>1, AtFields
    <3>2. 1 \in 1 .. Len(s) /\ s[1] = "quote"
      BY <1>7, <3>1, AtPosition, GlyphParts
    <3>3. QED BY <1>2, <3>2, Marks
  <2>2. CASE ~ NeedsQuotes(arr[1]) /\ AtElement(1) = At("char", 1, 1)
    <3>1. role[1 + 1].part = "char" /\ role[1 + 1].k = 1 /\ role[1 + 1].j = 1
      BY <1>6, <2>2, AtFields
    <3>2. 1 \in 1 .. Len(s) /\ s[1] = Word(arr[1])[1]
      BY <1>7, <3>1, AtPosition, GlyphParts
    <3>3. QED BY <2>2, <3>2
  <2>3. QED BY <1>1, <1>4, <2>1, <2>2, ElementRole
<1>9. Word(arr[1])[1] \in Blanks
  <2>1. Word(arr[1])[1] \in White
    BY <1>2, <1>8
  <2>2. 1 \in 1 .. Len(Word(arr[1]))
    BY <1>1, <1>4, <1>8, Words
  <2>3. Word(arr[1])[1] \notin Special
    BY <1>1, <1>4, <1>8, <2>2, Words
  <2>4. QED BY <2>1, <2>3 DEF White, Special
<1>10. Frayed(arr[1])
  <2>1. arr[1] # Null
    <3>1. SUFFICES ASSUME arr[1] = Null PROVE FALSE
      OBVIOUS
    <3>2. Word(arr[1])[1] = "NULL"
      BY <3>1, Alphabet DEF Word
    <3>3. QED BY <1>9, <3>2, Marks DEF White
  <2>2. Word(arr[1]) = arr[1]
    BY <2>1 DEF Word
  <2>3. QED BY <1>8, <1>9, <2>2 DEF Frayed
<1>11. ASSUME Len(arr) # 1 PROVE FALSE
  <2>1. role[Len(role)].k = Len(arr) /\ Len(arr) >= 2
    <3>1. role[Len(role)].part = "end" /\ Len(role) \in 1 .. Len(role)
      BY <1>1 DEF Within, Whole, Final
    <3>2. Placed(role[Len(role)])
      BY <3>1, InnerText
    <3>3. role[Len(role)].k = Len(arr)
      BY <3>1, <3>2 DEF Placed
    <3>4. Len(arr) >= 2
      <4>1. PICK n \in Nat : n = Len(arr)
        BY <1>1
      <4>2. n >= 1 /\ n # 1
        BY <1>4, <1>11, <4>1
      <4>3. QED BY <4>1, <4>2
    <3>5. QED BY <3>3, <3>4
  <2>2. PICK q \in 1 .. Len(role) - 1 : role[q].part = "comma"
    BY <1>1, <2>1 DEF WrittenInv, CommaInv
  <2>3. q # 1
    BY <1>5, <2>2
  <2>4. q - 1 \in 1 .. Len(s) /\ (q - 1) + 1 = q
    BY <1>1, <2>3
  <2>5. s[q - 1] = "comma"
    BY <2>2, <2>4, InnerText, GlyphParts
  <2>6. QED BY <1>2, <2>4, <2>5, Marks
<1>12. QED BY <1>10, <1>11

\* A row of a matrix begins with a brace of its own.
LEMMA NestedBrace ==
  ASSUME Within, shape = "nested"
  PROVE  TrimSpace(s) # <<>> /\ TrimSpace(s)[1] = "lbrace"
<1>1. /\ s \in Seq(Chars) /\ Len(s) \in Nat /\ Len(role) = Len(s) + 2 /\ role[2] = After(role[1])
      /\ WrittenInv
  BY InnerText DEF Within, Whole
<1>2. role[1].part = "prefix"
  BY <1>1, AtFields DEF WrittenInv, RoleInv, First
<1>3. role[2].part = "brace"
  BY <1>1, <1>2, AfterParts, AtFields
<1>4. Len(s) # 0
  BY <1>1, <1>3 DEF Within, Whole, Final
<1>5. 1 \in 1 .. Len(s) /\ 1 + 1 = 2
  BY <1>1, <1>4
<1>6. s[1] = "lbrace"
  BY <1>3, <1>5, InnerText, GlyphParts
<1>7. TrimSpace(s) # <<>>
  BY <1>1, <1>5, <1>6, TrimEmpty, Marks
<1>8. PICK a \in 1 .. Len(s) :
        /\ TrimSpace(s)[1] = s[a] /\ \A p \in 1 .. Len(s) : s[p] \notin White => a <= p
  BY <1>1, <1>7, TrimFirst
<1>9. a <= 1
  BY <1>5, <1>6, <1>8, Marks
<1>10. a = 1
  BY <1>1, <1>9
<1>11. QED BY <1>6, <1>7, <1>8, <1>10
\* A matrix is returned as it is, an array without elements is empty; one that
\* only looks empty holds a single frayed element.
LEMMA parseInnerStep ==
  ASSUME WrittenInv, ReadInv, parseInner
  PROVE  ReadInv' /\ ElementsSurvive'
<1>1. pc = "inner" /\ Within /\ shape # "bounded" /\ elems = <<>>
  BY DEF parseInner, ReadInv, WriteInv, InnerInv, Within, Whole
<1>2. /\ UNCHANGED <<stored, written>> /\ elems' = elems
      /\ arr' = arr /\ shape' = shape /\ text' = text
  BY DEF parseInner, stored, written
<1>3. TrimSpace(text) = text /\ StoredInv
  BY <1>1, WholeText DEF Within, WrittenInv
<1>4. IF TrimSpace(s) # <<>> /\ TrimSpace(s)[1] = "lbrace"
        THEN result' = Verbatim(text) /\ pc' = "done" /\ s' = s
      ELSE IF TrimSpace(s) = <<>>
        THEN result' = Array(<<>>) /\ pc' = "done" /\ s' = s
      ELSE i' = 1 /\ pc' = "split" /\ s' = s
  BY <1>3 DEF parseInner, Return
<1>5. CASE shape = "nested"
  <2>1. result' = Verbatim(text) /\ pc' = "done" /\ s' = s
    BY <1>1, <1>4, <1>5, NestedBrace
  <2>2. ReadInv'
    BY <1>1, <1>2, <2>1, Returned
  <2>3. QED BY <1>2, <1>5, <2>1, <2>2 DEF ElementsSurvive, Verbatim
<1>6. CASE shape = "flat" /\ TrimSpace(s) = <<>>
  <2>1. result' = Array(<<>>) /\ pc' = "done" /\ s' = s
    BY <1>4, <1>6
  <2>2. ReadInv'
    BY <1>1, <1>2, <2>1, Returned
  <2>3. arr = <<>> \/ (Len(arr) = 1 /\ Frayed(arr[1]))
    BY <1>1, <1>6, AllWhite
  <2>4. CASE arr = <<>>
    <3>1. result'.array = TRUE /\ result'.elems = <<>> /\ arr' = <<>>
      BY <1>2, <2>1, <2>4 DEF Array
    <3>2. DOMAIN <<>> = {}
      OBVIOUS
    <3>3. QED BY <2>2, <1>2, <1>6, <3>1, <3>2 DEF ElementsSurvive
  <2>5. CASE Len(arr) = 1 /\ Frayed(arr[1])
    BY <1>2, <1>6, <2>2, <2>5 DEF ElementsSurvive
  <2>6. QED BY <2>3, <2>4, <2>5
<1>7. CASE shape = "flat" /\ TrimSpace(s) # <<>>
  <2>1. i' = 1 /\ pc' = "split" /\ s' = s
    BY <1>1, <1>4, <1>7, NoNesting
  <2>2. Len(s) \in Nat /\ Len(arr) \in Nat /\ Len(elems) = 0
    BY <1>1, <1>3, InnerText, StoredSeq, EmptySeq
  <2>3. Found(elems)
    BY DEF ReadInv, FoundInv
  <2>4. SplitAt(1, elems)
    <3>1. role[1].part = "brace"
      BY <1>7, AtFields DEF WrittenInv, RoleInv, First
    <3>2. role[2] = IF arr = <<>> THEN At("end", 0, 0) ELSE AtElement(1)
      BY <1>1, <3>1, InnerText, AfterParts
    <3>3. 1 + 1 = 2 /\ Len(elems) + 1 = 1 /\ (Len(elems) < Len(arr) <=> arr # <<>>)
      BY <1>3, <2>2, StoredSeq
    <3>4. arr = <<>> => Len(arr) = 0
      BY <1>3, StoredSeq
    <3>5. QED BY <3>2, <3>3, <3>4 DEF SplitAt
  <2>5. ReadInv'
    <3>1. 1 \in 1 .. Len(s) + 1
      BY <2>2
    <3>2. QED BY <1>1, <1>2, <1>7, <2>1, <2>3, <2>4, <3>1, ResumeFrom
  <2>6. QED BY <2>1, <2>5 DEF ElementsSurvive
<1>8. QED BY <1>1, <1>3, <1>5, <1>6, <1>7 DEF StoredInv

\* At the end all the elements have been found.
LEMMA MapElementsStep ==
  ASSUME WrittenInv, ReadInv, MapElements
  PROVE  ReadInv' /\ ElementsSurvive'
<1>1. pc = "map" /\ pc' = "done" /\ pc \in Reading
  BY DEF MapElements, Return, Reading
<1>2. /\ UNCHANGED <<stored, written, s>> /\ elems' = elems /\ arr' = arr /\ shape' = shape
  BY DEF MapElements, Return, stored
<1>3. /\ shape = "flat" /\ elems \in Seq(Seq(Chars)) /\ StoredInv
      /\ Len(elems) \in Nat /\ Len(arr) \in Nat /\ Found(elems)
  BY <1>1, WhileReading
<1>4. Len(elems) = Len(arr)
  BY <1>1 DEF ReadInv, MapInv
<1>5. DOMAIN elems = 1 .. Len(arr) /\ DOMAIN arr = 1 .. Len(arr)
  BY <1>3, <1>4, LenProperties, StoredSeq
<1>6. result' = Array([x \in DOMAIN elems |-> IF elems[x] = <<"NULL">> THEN Null ELSE elems[x]])
  BY DEF MapElements, Return
<1>7. PICK out : out = [x \in DOMAIN elems |-> IF elems[x] = <<"NULL">> THEN Null ELSE elems[x]]
  OBVIOUS
<1>8. result'.array = TRUE /\ result'.elems = out
  BY <1>6, <1>7 DEF Array
<1>9. DOMAIN out = DOMAIN arr
  BY <1>5, <1>7
<1>10. ASSUME NEW k \in DOMAIN arr PROVE Frayed(arr[k]) \/ out[k] = Expected(arr[k])
  <2>1. SUFFICES ASSUME ~ Frayed(arr[k]) PROVE out[k] = Expected(arr[k])
    OBVIOUS
  <2>2. k \in 1 .. Len(elems) /\ k \in DOMAIN elems
    BY <1>4, <1>5
  <2>3. elems[k] = Word(arr[k])
    BY <1>3, <2>1, <2>2 DEF Found
  <2>4. out[k] = IF elems[k] = <<"NULL">> THEN Null ELSE elems[k]
    BY <1>7, <2>2
  <2>5. Null # <<"NULL">>
    BY DEF Null
  <2>6. QED BY <2>3, <2>4, <2>5 DEF Word, Expected
<1>11. ReadInv'
  BY <1>1, <1>2, Returned
<1>12. QED BY <1>2, <1>3, <1>8, <1>9, <1>10, <1>11 DEF ElementsSurvive
----------------------------------------------------------------------------
(* The theorems.                                                           *)

\* The invariant holds at the start.
LEMMA Initially ==
  ASSUME Init
  PROVE  WrittenInv /\ ReadInv /\ ElementsSurvive
<1>1. StoredInv
  BY DEF Init, StoredInv
<1>2. Len(arr) \in Nat
  BY <1>1, StoredSeq
<1>3. First.part = (IF shape = "flat" THEN "brace" ELSE "prefix") /\ First.k = 0
  BY AtFields DEF First
<1>4. Placed(First) /\ ~ Final(First)
  <2>1. First \in [part : Parts, k : Nat, j : Nat]
    BY AtFields DEF First, Parts
  <2>2. shape \in {"flat", "nested", "bounded"}
    BY <1>1 DEF StoredInv
  <2>3. QED BY <1>3, <2>1, <2>2 DEF Placed, Final
<1>5. /\ role \in Seq([part : Parts, k : Nat, j : Nat]) /\ Len(role) = 1 /\ role[1] = First
      /\ Len(text) = 1 /\ text[1] = Glyph(First) /\ text \in Seq(Chars)
  <2>1. Glyph(First) \in Chars /\ First \in [part : Parts, k : Nat, j : Nat]
    BY <1>1, <1>4, GlyphIsChar DEF Placed
  <2>2. QED BY <2>1 DEF Init
<1>6. RoleInv /\ TextInv
  BY <1>4, <1>5 DEF RoleInv, TextInv
<1>7. OpenInv /\ CommaInv
  BY <1>3, <1>5 DEF OpenInv, CommaInv
<1>8. Found(<<>>)
  BY <1>2, EmptySeq DEF Found
<1>9. ReadInv /\ ElementsSurvive
  BY <1>4, <1>5, <1>8 DEF Init, ReadInv, PcInv, WriteInv, InnerInv, Reading, FoundInv, SplitInv,
     QuotedInv, PlainInv, MapInv, ElementsSurvive
<1>10. QED BY <1>1, <1>6, <1>7, <1>9 DEF WrittenInv

\* A step of array_out.
LEMMA WritingStep ==
  ASSUME WrittenInv, ReadInv, array_out
  PROVE  WrittenInv' /\ ReadInv' /\ ElementsSurvive'
<1>1. WrittenInv'
  BY WriterStep
<1>2. /\ pc = "write" /\ UNCHANGED stored /\ elems' = elems /\ arr' = arr
      /\ pc' \in {"write", "parse"}
  BY DEF array_out, stored
<1>3. WriteInv'
  <2>1. PICK r : r = After(role[Len(role)])
    OBVIOUS
  <2>2. role' = Append(role, r) /\ pc' = IF Final(r) THEN "parse" ELSE "write"
    BY <2>1 DEF array_out
  <2>3. role \in Seq([part : Parts, k : Nat, j : Nat]) /\ Len(role) \in Nat
    BY LenProperties DEF WrittenInv, RoleInv
  <2>4. role'[Len(role')] = r
    BY <2>2, <2>3
  <2>5. Final(r)' <=> Final(r)
    BY <1>2, SameRoles
  <2>6. Final(role[Len(role)])' <=> Final(r)
    BY <2>4, <2>5
  <2>7. QED BY <2>2, <2>6 DEF WriteInv
<1>4. PcInv' /\ InnerInv'
  BY <1>2 DEF ReadInv, PcInv, InnerInv, Reading
<1>5. FoundInv'
  BY <1>2 DEF ReadInv, FoundInv, Found
<1>6. SplitInv' /\ QuotedInv' /\ PlainInv' /\ MapInv' /\ ElementsSurvive'
  BY <1>2 DEF SplitInv, QuotedInv, PlainInv, MapInv, ElementsSurvive
<1>7. QED BY <1>1, <1>3, <1>4, <1>5, <1>6 DEF ReadInv

\* Every step keeps the invariant.
LEMMA StepKeepsInv ==
  ASSUME IInv, [Next]_vars
  PROVE  IInv'
<1>1. WrittenInv /\ ReadInv /\ ElementsSurvive
  BY DEF IInv
<1>2. CASE array_out
  BY <1>1, <1>2, WritingStep DEF IInv
<1>3. ASSUME UNCHANGED <<stored, written>>, ReadInv', ElementsSurvive' PROVE IInv'
  BY <1>1, <1>3, SameText DEF IInv
<1>4. CASE parseArray
  <2>1. UNCHANGED <<stored, written>>
    BY <1>4 DEF parseArray
  <2>2. QED BY <1>1, <1>3, <1>4, <2>1, parseArrayStep
<1>5. CASE parseInner
  <2>1. UNCHANGED <<stored, written>>
    BY <1>5 DEF parseInner
  <2>2. QED BY <1>1, <1>3, <1>5, <2>1, parseInnerStep
<1>6. CASE NextElement
  <2>1. UNCHANGED <<stored, written>> /\ pc' # "done"
    BY <1>6 DEF NextElement
  <2>2. ElementsSurvive'
    BY <2>1 DEF ElementsSurvive
  <2>3. QED BY <1>1, <1>3, <1>6, <2>1, <2>2, NextElementStep
<1>7. CASE MapElements
  <2>1. UNCHANGED <<stored, written>>
    BY <1>7 DEF MapElements
  <2>2. QED BY <1>1, <1>3, <1>7, <2>1, MapElementsStep
<1>8. CASE QuotedChar
  <2>1. UNCHANGED <<stored, written>> /\ pc' # "done"
    BY <1>8 DEF QuotedChar
  <2>2. ElementsSurvive'
    BY <2>1 DEF ElementsSurvive
  <2>3. QED BY <1>1, <1>3, <1>8, <2>1, <2>2, QuotedCharStep
<1>9. CASE QuotedEnd
  <2>1. UNCHANGED <<stored, written>> /\ pc' # "done"
    BY <1>9 DEF QuotedEnd
  <2>2. ElementsSurvive'
    BY <2>1 DEF ElementsSurvive
  <2>3. QED BY <1>1, <1>3, <1>9, <2>1, <2>2, QuotedEndStep
<1>10. CASE PlainChar
  <2>1. UNCHANGED <<stored, written>> /\ pc' # "done"
    BY <1>10 DEF PlainChar
  <2>2. ElementsSurvive'
    BY <2>1 DEF ElementsSurvive
  <2>3. QED BY <1>1, <1>3, <1>10, <2>1, <2>2, PlainCharStep
<1>11. CASE PlainEnd
  <2>1. UNCHANGED <<stored, written>> /\ pc' # "done"
    BY <1>11 DEF PlainEnd
  <2>2. ElementsSurvive'
    BY <2>1 DEF ElementsSurvive
  <2>3. QED BY <1>1, <1>3, <1>11, <2>1, <2>2, PlainEndStep
<1>12. CASE UNCHANGED vars
  <2>1. /\ UNCHANGED <<stored, written, s>> /\ arr' = arr /\ shape' = shape /\ text' = text
        /\ role' = role /\ pc' = pc /\ i' = i /\ start' = start /\ sb' = sb
        /\ elems' = elems /\ result' = result /\ s' = s
    BY <1>12 DEF vars, stored, written
  <2>2. ReadInv'
    <3>1. WriteInv'
      BY <1>1, <2>1 DEF ReadInv, WriteInv, Final
    <3>2. PcInv' /\ InnerInv' /\ MapInv'
      BY <1>1, <2>1 DEF ReadInv, PcInv, InnerInv, MapInv
    <3>3. FoundInv' /\ SplitInv' /\ QuotedInv' /\ PlainInv'
      BY <1>1, <2>1, SameReading DEF ReadInv, FoundInv, SplitInv, QuotedInv, PlainInv
    <3>4. QED BY <3>1, <3>2, <3>3 DEF ReadInv
  <2>3. ElementsSurvive'
    BY <1>1, <2>1 DEF ElementsSurvive
  <2>4. QED BY <1>3, <2>1, <2>2, <2>3
<1>13. QED BY <1>2, <1>4, <1>5, <1>6, <1>7, <1>8, <1>9, <1>10, <1>11, <1>12 DEF Next

\* The array parser gives back what array_out was given, for any alphabet and
\* arrays of any number of elements of any length: no quote, comma, brace,
\* backslash or space in an element makes splitArrayElements split, join, lose or
\* change one.
THEOREM ArraysSurvive == Spec => []ElementsSurvive
<1>1. Init => IInv
  BY Initially DEF IInv
<1>2. IInv /\ [Next]_vars => IInv'
  BY StepKeepsInv
<1>3. IInv => ElementsSurvive
  BY DEF IInv
<1>4. QED BY <1>1, <1>2, <1>3, PTL DEF Spec
=============================================================================
