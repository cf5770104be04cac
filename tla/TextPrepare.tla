----------------------------- MODULE TextPrepare -----------------------------
(***************************************************************************)
(* What the frontend does to a text before eSpeak reads it                 *)
(* (prepareTextForEspeak in text_parser.cpp, text_prepare.cpp,             *)
(* dict_lookup.cpp).                                                       *)
(*                                                                         *)
(* A text is a sequence of tokens, which spaces separate; a token is a     *)
(* sequence of atoms: digits, punctuation marks and groups of letters that *)
(* nothing divides further. What a step inserts, a space included, may     *)
(* divide a token. The unit separator stands between the parts of a        *)
(* compound and does not end a token.                                      *)
(***************************************************************************)
EXTENDS Integers, Sequences, SequencesExt, TLC

CONSTANTS
    Letters,    \* groups of letters, capitalized ones included
    LowerOf,    \* the lower-case form of each
    Short,      \* the groups of less than three letters
    Months      \* capitalized names of months

ASSUME LetterAssumption ==
    /\ LowerOf \in [Letters -> Letters]
    /\ Short \subseteq Letters /\ Months \subseteq Letters

DigitValue == "0" :> 0 @@ "1" :> 1 @@ "2" :> 2 @@ "3" :> 3 @@ "4" :> 4
           @@ "5" :> 5 @@ "6" :> 6 @@ "7" :> 7 @@ "8" :> 8 @@ "9" :> 9
Digits == DOMAIN DigitValue
Brackets == {"(", ")", "[", "]"}
Symbols == {"%", "$"}               \* marks that are read as words
Punctuation == Brackets \cup Symbols \cup {"-", ",", ".", ":"}
US == "US"                          \* the unit separator

Lower(at) == [i \in DOMAIN at |-> IF at[i] \in Letters THEN LowerOf[at[i]] ELSE at[i]]
Number(digits) == FoldLeft(LAMBDA n, d : 10 * n + DigitValue[d], 0, digits)

IsDigit(at, i) == i \in DOMAIN at /\ at[i] \in Digits
IsLetter(at, i) == i \in DOMAIN at /\ at[i] \in Letters
IsAlnum(at, i) == IsDigit(at, i) \/ IsLetter(at, i)

\* at, divided at its atoms in marks, which go, and before the places of cuts.
Pieces(at, marks, cuts) ==
    LET drop   == {i \in DOMAIN at : at[i] \in marks}
        starts == SetToSortSeq({1} \cup drop \cup (cuts \cap DOMAIN at), <)
        end(k) == IF k = Len(starts) THEN Len(at) ELSE starts[k + 1] - 1
        begin(k) == IF starts[k] \in drop THEN starts[k] + 1 ELSE starts[k]
    IN  SelectSeq([k \in DOMAIN starts |-> SubSeq(at, begin(k), end(k))], LAMBDA p : p # << >>)

\* The tokens of a token in which spaces were inserted.
Tokens(at) == Pieces(at, {" "}, {})

\* The part of a token between its outermost atoms that are in inner, and the rest.
Core(at, inner) ==
    LET in == {i \in DOMAIN at : at[i] \in inner} IN
    IF in = {} THEN [lead |-> at, core |-> << >>, trail |-> << >>]
    ELSE LET lo == CHOOSE i \in in : \A j \in in : i <= j
             hi == CHOOSE i \in in : \A j \in in : i >= j
         IN  [lead |-> SubSeq(at, 1, lo - 1), core |-> SubSeq(at, lo, hi),
              trail |-> SubSeq(at, hi + 1, Len(at))]

-----------------------------------------------------------------------------
(* Marks within a token.                                                   *)

BracketsApart(at) ==
    FlattenSeq([i \in DOMAIN at |-> IF at[i] \in Brackets THEN <<" ", at[i], " ">> ELSE <<at[i]>>])

HyphensToSpaces(at) ==
    [i \in DOMAIN at |->
        IF at[i] = "-" /\ IsAlnum(at, i - 1) /\ IsAlnum(at, i + 1) THEN " " ELSE at[i]]

\* A comma between a digit and exactly three digits.
IsThousands(at, i) ==
    /\ at[i] = "," /\ IsDigit(at, i - 1) /\ ~IsDigit(at, i + 4)
    /\ \A j \in i + 1 .. i + 3 : IsDigit(at, j)

Thousands(at, toSpace) ==
    FlattenSeq([i \in DOMAIN at |->
        IF ~IsThousands(at, i) THEN <<at[i]>> ELSE IF toSpace THEN <<" ">> ELSE << >>])

-----------------------------------------------------------------------------
(* Pronunciations. An entry has a text, in which hyphens already are       *)
(* spaces, or IPA, and may be masked.                                      *)

Found(pron, key) == key \in DOMAIN pron /\ ~pron[key].masked

\* The key an entry is found under: as written, or else in lower case.
EntryOf(pron, core) ==
    IF Found(pron, core) THEN <<core>> ELSE IF Found(pron, Lower(core)) THEN <<Lower(core)>> ELSE << >>

\* The stem of a word that ends in one of the suffixes, and has a text, for the first suffix.
StemOf(pron, core, suffixes) ==
    LET stem == Front(core)
        fits(s) == /\ Len(core) > 1 /\ Lower(core)[Len(core)] = s
                   /\ ~(Len(stem) = 1 /\ stem[1] \in Short)
                   /\ EntryOf(pron, stem) # << >>
                   /\ pron[EntryOf(pron, stem)[1]].text # << >>
    IN  IF \E n \in DOMAIN suffixes : fits(suffixes[n]) THEN EntryOf(pron, stem) ELSE << >>

\* A word in place of which the text of its entry goes; one with IPA stays.
DictWord(pron, word) ==
    LET e == EntryOf(pron, word) IN
    IF e = << >> \/ pron[e[1]].ipa # << >> THEN word ELSE pron[e[1]].text

\* The words between the hyphens that are left.
DictParts(pron, core) ==
    LET hyphens == {i \in DOMAIN core : core[i] = "-"}
        parts   == Pieces(core, {}, hyphens \cup {i + 1 : i \in hyphens})
    IN  FlattenSeq([k \in DOMAIN parts |-> DictWord(pron, parts[k])])

DictReplace(pron, at, suffixes) ==
    LET c    == Core(at, Letters \cup Digits \cup {US})
        stem == StemOf(pron, c.core, suffixes)
    IN  c.lead \o
        (IF c.core = << >> \/ EntryOf(pron, c.core) # << >> THEN DictWord(pron, c.core)
         ELSE IF stem # << >> THEN pron[stem[1]].text \o <<Last(c.core)>>
         ELSE DictParts(pron, c.core)) \o c.trail

\* The words of a token that eSpeak reads as they are and the parser replaces by IPA.
IpaWords(pron, at, suffixes) ==
    LET core  == Core(at, Letters \cup Digits \cup {US}).core
        words == IF EntryOf(pron, core) # << >> THEN <<core>>
                 ELSE IF core = << >> \/ StemOf(pron, core, suffixes) # << >> THEN << >>
                 ELSE Pieces(core, {"-"}, {})
    IN  SelectSeq(words, LAMBDA w : EntryOf(pron, w) # << >> /\ pron[EntryOf(pron, w)[1]].ipa # << >>)

\* Collected under their lower-case form, where the last one counts.
IpaOverrides(pron, text, suffixes) ==
    FoldLeft(LAMBDA found, w : Lower(w) :> pron[EntryOf(pron, w)[1]].ipa @@ found, << >>,
             FlattenSeq([k \in DOMAIN text |-> IpaWords(pron, text[k], suffixes)]))

-----------------------------------------------------------------------------
(* Compounds, dates, times and years.                                      *)

SplitCompound(compounds, at) ==
    LET c   == Core(at, Letters \cup Digits \cup {US})
        key == Lower(c.core)
    IN  IF key \notin DOMAIN compounds THEN at
        ELSE c.lead
             \o Tail(FlattenSeq([h \in DOMAIN compounds[key] |-> <<US>> \o compounds[key][h]]))
             \o c.trail

OrdinalSuffix(n) ==
    IF n \in 11..13 THEN "th"
    ELSE IF n % 10 \in 1..3 THEN <<"st", "nd", "rd">>[n % 10] ELSE "th"

WithoutZeros(digits) ==
    LET nonzero == {i \in DOMAIN digits : digits[i] # "0"} IN
    SubSeq(digits, CHOOSE i \in nonzero : \A j \in nonzero : i <= j, Len(digits))

\* "June 06" becomes "June 6th"; the number may have punctuation behind it.
InsertDateOrdinal(text, k) ==
    LET c == Core(text[k], Digits \cup Letters \cup {US})
        n == Number(c.core)
    IN  IF /\ c.lead = << >> /\ c.core # << >> /\ ToSet(c.core) \subseteq Digits
           /\ n \in 1..31 /\ k > 1 /\ Len(text[k - 1]) = 1 /\ text[k - 1][1] \in Months
        THEN WithoutZeros(c.core) \o <<OrdinalSuffix(n)>> \o c.trail ELSE text[k]

\* Letters that are read as names.
SpellAm(at) ==
    FlattenSeq([i \in DOMAIN at |->
        IF at[i] = "AM" /\ ~IsLetter(at, i - 1) /\ ~IsLetter(at, i + 1)
        THEN <<"A", ".", " ", "M", ".">> ELSE <<at[i]>>])

\* One or two digits, with no digit before them, that end at place i; their number.
HourAt(at, i) ==
    IF ~IsDigit(at, i) \/ (IsDigit(at, i - 1) /\ IsDigit(at, i - 2)) THEN 99
    ELSE IF IsDigit(at, i - 1) THEN Number(<<at[i - 1], at[i]>>) ELSE Number(<<at[i]>>)

\* Exactly two digits from place i on; their number.
MinuteAt(at, i) ==
    IF IsDigit(at, i) /\ IsDigit(at, i + 1) /\ ~IsDigit(at, i + 2)
    THEN Number(<<at[i], at[i + 1]>>) ELSE 99

\* What is said in place of a colon and the two digits behind it.
MinuteWords(tens, ones, oh) ==
    IF tens = "0" /\ ones = "0" THEN <<" ", "o'clock">>
    ELSE IF tens = "0" THEN <<" ">> \o (IF oh = << >> THEN <<"oh">> ELSE oh) \o <<" ", ones>>
    ELSE <<" ", tens, ones>>

\* The colons of times; the minutes of one are not the hour of another.
Colons(at) ==
    LET time[i \in 0 .. Len(at)] ==
            /\ i > 0 /\ at[i] = ":" /\ HourAt(at, i - 1) <= 23 /\ MinuteAt(at, i + 1) <= 59
            /\ ~(i > 3 /\ time[i - 3])
    IN  {i \in DOMAIN at : time[i]}

ExpandTime(at, oh) ==
    LET cs == Colons(at) IN
    FlattenSeq([i \in DOMAIN at |->
        IF i \in cs THEN MinuteWords(at[i + 1], at[i + 2], oh)
        ELSE IF i - 1 \in cs \/ i - 2 \in cs THEN << >> ELSE <<at[i]>>])

\* NVDA says "colon" for the mark: the places of the word in times.
ColonWords(text) ==
    LET time[k \in 0 .. Len(text)] ==
            /\ k > 1 /\ k < Len(text) /\ text[k] = <<"colon">>
            /\ HourAt(text[k - 1], Len(text[k - 1])) <= 23 /\ MinuteAt(text[k + 1], 1) <= 59
            /\ Len(text[k - 1]) - 2 \notin Colons(text[k - 1])
            /\ ~time[k - 2]
    IN  {k \in DOMAIN text : time[k]}

ExpandTimes(text, oh) ==
    LET words == ColonWords(text) IN
    FlattenSeq([k \in DOMAIN text |->
        IF k \in words THEN << >>
        ELSE IF k - 1 \in words
        THEN Tokens(MinuteWords(text[k][1], text[k][2], oh)
                        \o ExpandTime(SubSeq(text[k], 3, Len(text[k])), oh))
        ELSE Tokens(ExpandTime(text[k], oh))])

\* A hyphen before a digit, behind another one or behind NVDA's word for it.
SeparateHyphenatedNumbers(at) ==
    [i \in DOMAIN at |->
        IF at[i] = "-" /\ IsDigit(at, i + 1) /\ (IsDigit(at, i - 1) \/ (i > 1 /\ at[i - 1] = "dash"))
        THEN " " ELSE at[i]]

\* Four digits that are read in pairs: not those of a round century, nor "0512" or "2005".
IsYear(d) ==
    /\ Len(d) = 4 /\ ToSet(d) \subseteq Digits
    /\ d[1] # "0" /\ ~(d[3] = "0" /\ d[4] = "0") /\ ~(d[1] = "2" /\ d[2] = "0" /\ d[3] = "0")

SplitYear(at, oh) ==
    LET c == Core(at, Digits \cup Letters \cup {US})
        d == c.core
    IN  IF ~IsYear(d) THEN at
        ELSE c.lead \o SubSeq(d, 1, 2) \o <<" ">>
             \o (IF d[3] = "0" /\ oh # << >> THEN oh \o <<" ", d[4]>> ELSE SubSeq(d, 3, 4))
             \o c.trail

-----------------------------------------------------------------------------

\* The text with each token replaced, which may divide it.
Retoken(tokens) == FlattenSeq([k \in DOMAIN tokens |-> Tokens(tokens[k])])

\* The steps before the dictionaries.
Normalize(text, pack) ==
    LET apart == Retoken([k \in DOMAIN text |-> BracketsApart(text[k])])
        words == Retoken([k \in DOMAIN apart |-> HyphensToSpaces(apart[k])])
    IN  Retoken([k \in DOMAIN words |-> Thousands(words[k], pack.commaToSpace)])

\* The steps of English: dates, AM, times.
EnglishSteps(text, pack) ==
    IF ~pack.english THEN text
    ELSE LET dates == [k \in DOMAIN text |-> InsertDateOrdinal(text, k)]
             names == Retoken([k \in DOMAIN dates |-> SpellAm(dates[k])])
         IN  ExpandTimes(names, pack.oh)

PrepareTextForEspeak(text, pack, off) ==
    LET plain == Normalize(text, pack)
        dict  == IF "pronounce" \in off THEN plain
                 ELSE Retoken([k \in DOMAIN plain |-> DictReplace(pack.pron, plain[k], pack.suffixes)])
        split == IF "compound" \in off THEN dict
                 ELSE [k \in DOMAIN dict |-> SplitCompound(pack.compounds, dict[k])]
        said  == EnglishSteps(split, pack)
        apart == Retoken([k \in DOMAIN said |-> SeparateHyphenatedNumbers(said[k])])
    IN  IF ~pack.years THEN apart
        ELSE Retoken([k \in DOMAIN apart |-> SplitYear(apart[k], pack.oh)])
=============================================================================
