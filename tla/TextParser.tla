------------------------------ MODULE TextParser ------------------------------
(***************************************************************************)
(* How the frontend matches the words of a text with what eSpeak made of   *)
(* them (nvspFrontend_prepareText, eSpeak, runTextParser in                *)
(* nvspFrontend_queueIPA_ExWithText), to put in the IPA of the             *)
(* pronunciation dictionary, the stress of the stress dictionary, and to   *)
(* join the parts of compounds.                                            *)
(*                                                                         *)
(* eSpeak's IPA is a sequence of chunks, a chunk its vowels: each with its *)
(* stress (0, 1, 2) and whether it is a reduced one. What the parser does  *)
(* not look at: of, the words of the prepared text a chunk was said for,   *)
(* dict, the words whose IPA was put in its place, and covers, the numbers *)
(* of the vowels of eSpeak that a vowel is or replaces. Consonants, length *)
(* and syllable dots are left out.                                         *)
(***************************************************************************)
EXTENDS TextPrepare, FiniteSetsExt

CONSTANTS
    Packs,      \* language -> its settings and dictionaries
    SyllablesOf,\* letters -> the stress and weakness of their vowels
    InPieces,   \* keys of words eSpeak may separate
    InputTexts,
    MaxOff         \* dictionaries that may be off at once

Langs == DOMAIN Packs
Types == {"pronounce", "compound", "stress"}
None == << >>
Empty == << >>           \* the dictionary without entries

VARIABLES
    lang, off,  \* the handle: its language, and the dictionaries switched off
    overrides,  \* ... and the IPA found by the last prepareText
    stage,      \* "idle", "reading" (eSpeak), "parsed"
    text,       \* the prepared text
    due,        \* history: the words of the text that were to be replaced
    chunks,     \* eSpeak's IPA so far
    read,       \* the words read so far
    result      \* what runTextParser returned

vars == <<lang, off, overrides, stage, text, due, chunks, read, result>>
pack == Packs[lang]

-----------------------------------------------------------------------------
(* Words.                                                                  *)

\* A word and its places in the prepared text.
Word(at, src) == [at |-> at, src |-> src]

\* Lower case, without what is no letter at the edges.
Key(w) == Lower(Core(w.at, Letters).core)
Keyed(ws) == SelectSeq(ws, LAMBDA w : Key(w) # << >>)

\* The parts of compounds are words of their own.
SplitWords(t) == FlattenSeq([k \in DOMAIN t |-> Pieces(t[k], {US}, {})])
TextWords(t) == LET ws == SplitWords(t) IN [k \in DOMAIN ws |-> Word(ws[k], {k})]

\* The neighbours the compound step made, by their keys.
CompoundSplitPairs(t) ==
    UNION {LET ps == Pieces(t[k], {US}, {}) IN
           {<<Key(Word(ps[j], {})), Key(Word(ps[j + 1], {}))>> : j \in 1 .. Len(ps) - 1}
           : k \in DOMAIN t}

\* Before these places a word is divided: "25Increasing", "100%", "%EXP", "neelix,2649".
MixedCuts(at) ==
    {i \in 2 .. Len(at) :
        \/ IsDigit(at, i - 1) /\ (IsLetter(at, i) \/ at[i] \in Symbols)
        \/ at[i - 1] \in Symbols /\ IsAlnum(at, i)
        \/ at[i - 1] = "," /\ IsDigit(at, i)
        \/ IsLetter(at, i - 1) /\ at[i] = ","}

SplitMixedTokens(ws) ==
    FlattenSeq([k \in DOMAIN ws |->
        LET ps == Pieces(ws[k].at, {}, MixedCuts(ws[k].at)) IN
        [j \in DOMAIN ps |-> Word(ps[j], ws[k].src)]])

-----------------------------------------------------------------------------
(* Numbers in words.                                                       *)

Ones == <<"zero", "one", "two", "three", "four", "five", "six", "seven", "eight", "nine">>
Teens == <<"ten", "eleven", "twelve", "thirteen", "fourteen", "fifteen", "sixteen", "seventeen",
           "eighteen", "nineteen">>
Tens == <<"", "twenty", "thirty", "forty", "fifty", "sixty", "seventy", "eighty", "ninety">>

ExpandTwoDigit(n) ==
    IF n < 10 THEN <<Ones[n + 1]>>
    ELSE IF n < 20 THEN <<Teens[n - 9]>>
    ELSE <<Tens[n \div 10]>> \o (IF n % 10 = 0 THEN << >> ELSE <<Ones[(n % 10) + 1]>>)

ExpandGroup(n, conjunction) ==
    IF n < 100 THEN ExpandTwoDigit(n)
    ELSE <<Ones[(n \div 100) + 1], "hundred">>
         \o (IF n % 100 = 0 THEN << >> ELSE conjunction \o ExpandTwoDigit(n % 100))

\* For numbers below a million; a leading zero is read digit by digit.
ExpandNumber(digits, conjunction) ==
    LET n    == Number(digits)
        rest == n % 1000
        high == IF n < 1000 THEN << >> ELSE ExpandGroup(n \div 1000, conjunction) \o <<"thousand">>
    IN  IF Len(digits) > 1 /\ digits[1] = "0"
        THEN [i \in DOMAIN digits |-> Ones[DigitValue[digits[i]] + 1]]
        ELSE IF n = 0 THEN <<Ones[1]>>
        ELSE high \o (IF rest = 0 THEN << >>
                      ELSE (IF high # << >> /\ rest < 100 THEN conjunction ELSE << >>)
                           \o ExpandGroup(rest, conjunction))

\* Words of digits and commas become the words of their number.
ExpandNumbers(ws) ==
    FlattenSeq([k \in DOMAIN ws |->
        LET digits == SelectSeq(ws[k].at, LAMBDA a : a # ",") IN
        IF digits = << >> \/ ~(ToSet(ws[k].at) \subseteq Digits \cup {","}) THEN <<ws[k]>>
        ELSE LET said == ExpandNumber(digits, pack.conjunction) IN
             [j \in DOMAIN said |-> Word(<<said[j]>>, ws[k].src)]])

ParserWords(t) ==
    LET ws == SplitMixedTokens(TextWords(t)) IN IF pack.numbers THEN ExpandNumbers(ws) ELSE ws

-----------------------------------------------------------------------------
(* Chunks.                                                                 *)

Chunk(syl, of) == [syl |-> syl, of |-> of, dict |-> {}]
Blank == Chunk(<< >>, {})
Shown(cs) == SelectSeq(cs, LAMBDA c : c # Blank)

Joined(cs) ==
    [syl  |-> FlattenSeq([k \in DOMAIN cs |-> cs[k].syl]),
     of   |-> UNION {cs[k].of : k \in DOMAIN cs},
     dict |-> UNION {cs[k].dict : k \in DOMAIN cs}]

\* No word has two primary stresses: a chunk ends before its second.
SplitMultiStressChunks(cs) ==
    FlattenSeq([k \in DOMAIN cs |->
        LET syl   == cs[k].syl
            main  == {i \in DOMAIN syl : syl[i].stress = 1}
            parts == Pieces(syl, {}, {i \in main : \E j \in main : j < i})
        IN  [j \in DOMAIN parts |-> [cs[k] EXCEPT !.syl = parts[j]]]])

\* The stress a word has by the dictionaries, for a chunk of n vowels; none is known of a
\* word of one.
PatternFor(w, n, stress, compounds) ==
    IF Key(w) \in DOMAIN stress THEN stress[Key(w)]
    ELSE IF Key(w) \in DOMAIN compounds /\ n > 1
    THEN [i \in 1 .. n |-> IF i = 1 THEN 1 ELSE IF i = n THEN 2 ELSE 0]
    ELSE None

\* A pattern must fit the chunk, and not put the stress on a reduced vowel.
Fits(w, c, stress, compounds) ==
    LET p == PatternFor(w, Len(c.syl), stress, compounds) IN
    /\ Len(p) >= 2 /\ Len(p) = Len(c.syl)
    /\ \A i \in DOMAIN p : p[i] = 1 => ~c.syl[i].weak

WithStress(c, p) == [c EXCEPT !.syl = [i \in DOMAIN @ |-> [@[i] EXCEPT !.stress = p[i]]]]

CorrectStress(w, c, stress, compounds) ==
    IF Fits(w, c, stress, compounds)
    THEN WithStress(c, PatternFor(w, Len(c.syl), stress, compounds)) ELSE c

-----------------------------------------------------------------------------
(* Both together: al.words and al.chunks.                                  *)

\* The longest part of a compound that starts at word i, four words at most, 1: there is none.
CompoundSpan(ws, i, compounds, pairs) ==
    LET whole(n) == Word(FlattenSeq([j \in 1 .. n |-> Key(ws[i + j - 1])]), {}).at
        spans == {n \in 2 .. 4 :
                    /\ i + n - 1 <= Len(ws) /\ whole(n) \in DOMAIN compounds
                    /\ \A j \in i .. i + n - 2 : <<Key(ws[j]), Key(ws[j + 1])>> \in pairs}
    IN  Max(spans \cup {1})

\* The parts of compounds, and their chunks, become one again.
CompoundMerge(al, compounds, pairs) ==
    LET n == Len(al.words)
        span(i) == CompoundSpan(al.words, i, compounds, pairs)
        from[i \in 1 .. n + 1] ==
            IF i = n + 1 THEN << >> ELSE <<<<i, i + span(i) - 1>>>> \o from[i + span(i)]
        merge(r) ==
            LET ws == SubSeq(al.words, r[1], r[2]) IN
            Word(IF Len(ws) = 1 THEN ws[1].at ELSE FlattenSeq([j \in DOMAIN ws |-> Key(ws[j])]),
                 UNION {ws[j].src : j \in DOMAIN ws})
        ranges == from[1]
    IN  IF compounds = Empty \/ n # Len(al.chunks) THEN al
        ELSE [words  |-> [k \in DOMAIN ranges |-> merge(ranges[k])],
              chunks |-> [k \in DOMAIN ranges |->
                            Joined(SubSeq(al.chunks, ranges[k][1], ranges[k][2]))]]

\* The dictionary's IPA in place of a chunk.
Spliced(c, w, ipa) ==
    [syl  |-> [i \in DOMAIN ipa |->
                 [covers |-> IF i = 1 THEN UNION {c.syl[j].covers : j \in DOMAIN c.syl} ELSE {},
                  stress |-> ipa[i].stress, weak |-> ipa[i].weak]],
     of   |-> c.of, dict |-> w.src]

\* Slip: every word is counted.
SpliceCountingMarks(al, ipas) ==
    [al EXCEPT !.chunks = [j \in DOMAIN @ |->
        IF j \in DOMAIN al.words /\ Key(al.words[j]) \in DOMAIN ipas
        THEN Spliced(@[j], al.words[j], ipas[Key(al.words[j])]) ELSE @[j]]]

\* Words with letters are counted against the chunks.
SpliceOverrides(al, ipas) ==
    LET ws == Keyed(al.words) IN
    [al EXCEPT !.chunks = [j \in DOMAIN @ |->
        IF j \in DOMAIN ws /\ Key(ws[j]) \in DOMAIN ipas
        THEN Spliced(@[j], ws[j], ipas[Key(ws[j])]) ELSE @[j]]]

\* As many words as chunks: each word's stress, but for the chunks of the dictionary. A chunk
\* that is corrected gets syllable dots if the language has onsets, a change in any case.
CorrectEach(al, ipa, stress, compounds, onsets) ==
    LET cs       == al.chunks
        fits     == {j \in DOMAIN cs : cs[j].dict = {} /\ Fits(al.words[j], cs[j], stress, compounds)}
        new      == [j \in DOMAIN cs |-> IF j \in fits THEN CorrectStress(al.words[j], cs[j], stress, compounds)
                                         ELSE cs[j]]
    IN  IF \/ (onsets /\ fits # {})
           \/ new # cs
           \/ \E j \in DOMAIN cs : cs[j].dict # {}
        THEN SplitMultiStressChunks(new) ELSE ipa

-----------------------------------------------------------------------------
(* More chunks than words: st.at is the next chunk.                        *)

Anchors(ws, stress) ==
    {k \in DOMAIN ws : Key(ws[k]) \in DOMAIN stress /\ Len(stress[Key(ws[k])]) >= 2}

\* The place of the chunk with which the next ones have as many vowels as the pattern, 0: none.
MergeEnd(st, n) ==
    LET vowels[e \in st.at - 1 .. Len(st.chunks)] ==
            IF e < st.at THEN 0 ELSE vowels[e - 1] + Len(st.chunks[e].syl)
        ends == {e \in st.at .. Len(st.chunks) : vowels[e] = n}
    IN  IF ends = {} THEN 0 ELSE Min(ends)

\* How many chunks a word takes for which there is no pattern: so many that the next word
\* with one meets a chunk with as many vowels.
Skip(st, ws, k, stress) ==
    LET excess == Len(st.chunks) - Len(ws)
        next   == {m \in Anchors(ws, stress) : m > k}
        anchor == Min(next)
        gap    == Len(Keyed(SubSeq(ws, k + 1, anchor - 1)))
        fits   == {s \in 1 .. excess + 1 :
                    /\ st.at + s + gap <= Len(st.chunks)
                    /\ Len(st.chunks[st.at + s + gap].syl) = Len(stress[Key(ws[anchor])])}
    IN  IF Key(ws[k]) = << >> THEN 0
        ELSE IF next = {} THEN 1
        ELSE IF fits = {} THEN 1 ELSE Min(fits)

\* Slip: one chunk too many is blanked.
TakeChunksBlankingNext(st, ws, k, stress, compounds) ==
    LET end == IF k \in Anchors(ws, stress) THEN MergeEnd(st, Len(stress[Key(ws[k])])) ELSE 0 IN
    IF st.at > Len(st.chunks) THEN st
    ELSE IF end = 0 THEN [st EXCEPT !.at = @ + Skip(st, ws, k, stress)]
    ELSE [at |-> end + 1, merged |-> TRUE,
          chunks |-> [j \in DOMAIN st.chunks |->
            IF j = st.at
            THEN CorrectStress(ws[k], Joined(SubSeq(st.chunks, st.at, end)), stress, compounds)
            ELSE IF j \in st.at + 1 .. end + 1 THEN Blank ELSE st.chunks[j]]]

\* Slip: the next word begins at the last chunk of this one.
TakeChunksAgain(st, ws, k, stress, compounds) ==
    LET end == IF k \in Anchors(ws, stress) THEN MergeEnd(st, Len(stress[Key(ws[k])])) ELSE 0 IN
    IF st.at > Len(st.chunks) THEN st
    ELSE IF end = 0 THEN [st EXCEPT !.at = @ + Skip(st, ws, k, stress)]
    ELSE [at |-> end, merged |-> TRUE,
          chunks |-> [j \in DOMAIN st.chunks |->
            IF j = st.at
            THEN CorrectStress(ws[k], Joined(SubSeq(st.chunks, st.at, end)), stress, compounds)
            ELSE IF j \in st.at + 1 .. end THEN Blank ELSE st.chunks[j]]]

TakeChunks(st, ws, k, stress, compounds) ==
    LET end == IF k \in Anchors(ws, stress) THEN MergeEnd(st, Len(stress[Key(ws[k])])) ELSE 0 IN
    IF st.at > Len(st.chunks) THEN st
    ELSE IF end = 0 THEN [st EXCEPT !.at = @ + Skip(st, ws, k, stress)]
    ELSE [at |-> end + 1, merged |-> TRUE,
          chunks |-> [j \in DOMAIN st.chunks |->
            IF j = st.at
            THEN CorrectStress(ws[k], Joined(SubSeq(st.chunks, st.at, end)), stress, compounds)
            ELSE IF j \in st.at + 1 .. end THEN Blank ELSE st.chunks[j]]]

\* Syllable dots, put where a chunk has two vowels and the language has onsets.
Dotted(cs, onsets) == onsets /\ \E j \in DOMAIN cs : Len(cs[j].syl) >= 2

\* Not as many words as chunks. The dots are a change too; without any change the result
\* is the input.
Realign(al, ipa, stress, compounds, onsets) ==
    LET start == [at |-> 1, merged |-> FALSE, chunks |-> al.chunks]
        st == IF Len(al.words) > Len(al.chunks) THEN start
              ELSE FoldLeft(LAMBDA s, k : TakeChunks(s, al.words, k, stress, compounds), start,
                            [k \in DOMAIN al.words |-> k])
    IN  IF st.merged \/ Dotted(st.chunks, onsets) THEN SplitMultiStressChunks(Shown(st.chunks)) ELSE ipa

RunTextParser(t, ipa, stress, compounds, ipas) ==
    LET cs     == IF pack.numbers THEN SplitMultiStressChunks(ipa) ELSE ipa
        merged == CompoundMerge([words |-> ParserWords(t), chunks |-> cs], compounds,
                                CompoundSplitPairs(t))
        al     == SpliceOverrides(merged, ipas)
    IN  IF al.words = << >> \/ al.chunks = << >> THEN ipa
        ELSE IF stress = Empty THEN al.chunks
        ELSE IF Len(al.words) # Len(al.chunks) THEN Realign(al, ipa, stress, compounds, pack.onsets)
        ELSE CorrectEach(al, ipa, stress, compounds, pack.onsets)

-----------------------------------------------------------------------------
(* eSpeak, which the callers ask between prepareText and queueIPA: what it *)
(* may say for a word, chunk by chunk, in groups of letters.               *)

Numeral(digits) == ExpandNumber(digits, pack.conjunction)
EachAlone(seq) == [i \in DOMAIN seq |-> <<seq[i]>>]

\* A word between marks, and what is said for the marks.
SayPart(p) ==
    CASE p[1] \in Digits -> EachAlone(Numeral(p))
      [] p[1] \in Letters -> <<p>>
      [] p = <<"%">> -> <<<<"percent">>>>
      [] p = <<".">> -> <<<<"point">>>>
      [] OTHER -> << >>

Say(at) ==
    LET core  == Core(at, Letters \cup Digits \cup Symbols).core
        cuts  == {i \in 2 .. Len(core) : {core[i - 1], core[i]} \cap Punctuation # {}
                                         \/ IsDigit(core, i) # IsDigit(core, i - 1)}
        parts == Pieces(core, {}, cuts)
    IN  IF ToSet(core) \subseteq Letters /\ core # << >>
        THEN {<<core>>} \cup (IF Lower(core) \in InPieces THEN {EachAlone(core)} ELSE {})
        ELSE IF ToSet(core) \subseteq Digits /\ core # << >>
        THEN {EachAlone(Numeral(core)), <<Numeral(core)>>}
        ELSE IF Len(parts) = 2 /\ parts[2] \in {<<"st">>, <<"nd">>, <<"rd">>, <<"th">>}
        THEN {<<Numeral(parts[1])>>}
        ELSE {FlattenSeq([k \in DOMAIN parts |-> SayPart(parts[k])])}

\* Vowels numbered from n on.
Sounds(letters, n) ==
    LET vs == FlattenSeq([i \in DOMAIN letters |-> SyllablesOf[letters[i]]]) IN
    [i \in DOMAIN vs |-> [covers |-> {n + i - 1}, stress |-> vs[i].stress, weak |-> vs[i].weak]]

Vowels(cs) == FlattenSeq([j \in DOMAIN cs |-> cs[j].syl])

AddChunk(cs, letters, place) == Append(cs, Chunk(Sounds(letters, Len(Vowels(cs)) + 1), {place}))

-----------------------------------------------------------------------------
(* The handle.                                                             *)

Init ==
    /\ lang \in Langs /\ off = [l \in Langs |-> {}] /\ overrides = Empty
    /\ stage = "idle" /\ text = << >> /\ due = {} /\ chunks = << >> /\ read = 0 /\ result = << >>

\* nvspFrontend_setData with the dictionary sub-type "config".
SetDictTypeEnabled(type) ==
    /\ stage # "parsed"
    /\ off' = [off EXCEPT ![lang] = IF type \in @ THEN @ \ {type} ELSE @ \cup {type}]
    /\ \A l \in Langs : Cardinality(off'[l]) <= MaxOff
    /\ UNCHANGED <<lang, overrides, stage, text, due, chunks, read, result>>

SetLanguage(l) ==
    /\ stage # "parsed" /\ lang' = l
    /\ UNCHANGED <<off, overrides, stage, text, due, chunks, read, result>>

\* Overrides of the text before are forgotten.
PrepareText(t) ==
    LET found == IF "pronounce" \in off[lang] THEN Empty
                 ELSE IpaOverrides(pack.pron, Normalize(t, pack), pack.suffixes)
    IN  /\ stage = "idle" /\ stage' = "reading"
        /\ text' = PrepareTextForEspeak(t, pack, off[lang])
        /\ overrides' = found /\ due' = DOMAIN found
        /\ UNCHANGED <<lang, off, chunks, read, result>>

ReadWord ==
    /\ stage = "reading" /\ read < Len(SplitWords(text))
    /\ read' = read + 1
    /\ \E said \in Say(SplitWords(text)[read + 1]) :
         chunks' = FoldLeft(LAMBDA cs, letters : AddChunk(cs, letters, read + 1), chunks, said)
    /\ UNCHANGED <<lang, off, overrides, stage, text, due, result>>

\* nvspFrontend_queueIPA_ExWithText. Callers do not ask for nothing.
QueueIPA ==
    LET stress    == IF "stress" \in off[lang] THEN Empty ELSE pack.stress
        compounds == IF "compound" \in off[lang] THEN Empty ELSE pack.compounds
    IN  /\ stage = "reading" /\ read = Len(SplitWords(text)) /\ stage' = "parsed"
        /\ result' = IF chunks = << >> \/ (stress = Empty /\ compounds = Empty /\ overrides = Empty)
                     THEN chunks
                     ELSE RunTextParser(text, chunks, stress, compounds, overrides)
        /\ UNCHANGED <<lang, off, overrides, text, due, chunks, read>>

NextText ==
    /\ stage = "parsed" /\ stage' = "idle"
    /\ text' = << >> /\ due' = {} /\ chunks' = << >> /\ read' = 0 /\ result' = << >>
    /\ UNCHANGED <<lang, off, overrides>>

Next ==
    \/ \E type \in Types : SetDictTypeEnabled(type)
    \/ \E l \in Langs : SetLanguage(l)
    \/ \E t \in InputTexts : PrepareText(t)
    \/ ReadWord \/ QueueIPA \/ NextText

Spec == Init /\ [][Next]_vars

-----------------------------------------------------------------------------
(* Properties                                                              *)

Spoken == SplitWords(text)
Place(p) == Word(Spoken[p], {p})
StressInForce == IF "stress" \in off[lang] THEN Empty ELSE pack.stress
CompoundsInForce == IF "compound" \in off[lang] THEN Empty ELSE pack.compounds

\* Whatever eSpeak said, however it divided it, each vowel comes out once and in its place:
\* in the chunk it was said in, or under the IPA of the dictionary.
SoundsInOrder ==
    stage = "parsed" =>
        FlattenSeq([i \in DOMAIN Vowels(result) |->
            SetToSortSeq(Vowels(result)[i].covers, <)]) = [i \in DOMAIN Vowels(chunks) |-> i]

\* The words with letters, and the word each chunk was said for, numbers word for word.
Places == LET ws == Keyed(ParserWords(text)) IN [k \in DOMAIN ws |-> ws[k].src]
SaidFor == LET cs == IF pack.numbers THEN SplitMultiStressChunks(chunks) ELSE chunks
           IN  [j \in DOMAIN cs |-> cs[j].of]
AllKeyed == Keyed(ParserWords(text)) = ParserWords(text)

\* eSpeak said one chunk for each word with letters, and nothing for the others.
WordForWord == SaidFor = Places

\* ... or said one word, of which the stress is known, in two, and no word is replaced.
OneInTwo ==
    /\ AllKeyed /\ overrides = Empty
    /\ \E k \in Anchors(ParserWords(text), StressInForce) :
         SaidFor = SubSeq(Places, 1, k) \o SubSeq(Places, k, Len(Places))

\* The words said in a chunk, as one.
Whole(c) == Word(FlattenSeq([k \in 1 .. Cardinality(c.of) |->
                               Key(Place(Min(c.of) + k - 1))]), c.of)

\* When eSpeak reads word for word, the IPA of the dictionary is put in for the words it
\* was asked for and no other; if moreover each word has letters, and none is a part of a
\* compound, for all of them.
OverridesFindTheirWord ==
    stage = "parsed" /\ WordForWord =>
        /\ \A j \in DOMAIN result : result[j].dict # {} =>
              result[j].dict = result[j].of /\ Key(Whole(result[j])) \in due
        /\ AllKeyed /\ CompoundSplitPairs(text) = {} =>
              \A p \in DOMAIN Spoken : Key(Place(p)) \in due =>
                 \E j \in DOMAIN result : result[j].dict = {p}

\* When eSpeak reads word for word, or a single listed word in two, each chunk has the
\* stress eSpeak gave it or the one the dictionaries list for the words it was said for.
StressFindsItsWord ==
    stage = "parsed" /\ (WordForWord \/ OneInTwo) =>
        \A j \in DOMAIN result : result[j].dict = {} =>
            LET syl  == result[j].syl
                has  == [i \in DOMAIN syl |-> syl[i].stress]
                said == [i \in DOMAIN syl |-> Vowels(chunks)[Min(syl[i].covers)].stress]
            IN  \/ has = said
                \/ \E w \in ToSet(ParserWords(text)) \cup {Whole(result[j])} :
                     /\ w.src = result[j].of
                     /\ has = PatternFor(w, Len(syl), StressInForce, CompoundsInForce)

\* What the dictionaries know goes to the word it is about, pronunciation and stress alike.
DictionariesFindTheirWord == OverridesFindTheirWord /\ StressFindsItsWord
=============================================================================
