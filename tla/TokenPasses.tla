----------------------------- MODULE TokenPasses -----------------------------
(***************************************************************************)
(* convertIpaToTokens after the parser: the passes that change the token   *)
(* sequence, its words, syllables and stresses, and the pitch pass of the  *)
(* mode fujisaki_style, which hands the synthesizer its phrase and accent  *)
(* commands.  Each pass is one action on the whole sequence.               *)
(***************************************************************************)
EXTENDS IpaTokens

-----------------------------------------------------------------------------
(* autoTieDiphthongs                                                       *)

\* Slip: a vowel that starts a syllable or a word is tied as well.
TieableAnywhere(a, b) ==
    /\ Is(a, "vowel") /\ ~Is(a, "nasal") /\ ~Is(a, "rcolored")
    /\ Is(b, "offglide")
    /\ ~a.tiedTo /\ ~a.tiedFrom /\ ~b.tiedTo /\ ~b.tiedFrom
    /\ ~a.long /\ ~b.long

Tieable(a, b) ==
    /\ Is(a, "vowel") /\ ~Is(a, "nasal") /\ ~Is(a, "rcolored")
    /\ (Is(b, "vowel") \/ Is(b, "semivowel")) /\ Is(b, "offglide")
    /\ ~b.wordStart /\ ~b.sylStart
    /\ ~a.tiedTo /\ ~a.tiedFrom /\ ~b.tiedTo /\ ~b.tiedFrom
    /\ ~a.long /\ ~b.long

\* The token before may have been tied by the step before: the loop goes left to right.
TieAt(ts, i) ==
    LET a == PrevReal(ts, i) IN
    IF Real(ts[i]) /\ a # 0 /\ Tieable(ts[a], ts[i])
    THEN [ts EXCEPT ![a].tiedTo = TRUE, ![i].tiedFrom = TRUE] ELSE ts

Run(pass, next, ts) ==
    /\ stage = pass
    /\ stage' = next
    /\ tokens' = ts
    /\ UNCHANGED <<pack, parse, budget>>

AutoTie ==
    Run("autoTie", "spelling", IF pack.autoTie THEN FoldLeftDomain(TieAt, tokens, tokens) ELSE tokens)

-----------------------------------------------------------------------------
(* applySpellingDiphthongMode                                              *)

\* The word a real token is in, counted by the word starts.
WordNo(ts, i) == Cardinality({k \in Reals(ts) : k <= i /\ ts[k].wordStart})
InWord(ts, i, j) == i # 0 /\ j # 0 /\ WordNo(ts, i) = WordNo(ts, j)

\* An acronym: at least two syllables, every one of them stressed.
LooksLikeSpelling(ts, i) ==
    LET syllables == {k \in Reals(ts) : InWord(ts, k, i) /\ ts[k].sylStart} IN
    Cardinality(syllables) >= 2 /\ \A k \in syllables : ts[k].stress # 0

\* The nucleus of a letter name A after a vowel or a glide.
LetterNucleus(ts, i) ==
    LET p == PrevReal(ts, i) IN
    /\ Real(ts[i]) /\ LooksLikeSpelling(ts, i)
    /\ ts[i].def = LetterA /\ ts[i].sylStart /\ ts[i].stress # 0
    /\ InWord(ts, p, i) /\ (Is(ts[p], "vowel") \/ Is(ts[p], "semivowel"))

\* Slip: any last sound of the syllable is taken for its offglide.
AnyCoda(ts, j) == LET k == NextReal(ts, j) IN InWord(ts, k, j) => ts[k].sylStart

\* What may be its offglide: the last sound of its syllable.
Offglide(ts, j) ==
    LET k == NextReal(ts, j) IN
    Is(ts[j], "ish") /\ (InWord(ts, k, j) => ts[k].sylStart)

\* The loop looks at the nucleus again after it has erased its offglide, so a run of
\* such sounds goes with it.
Erased(ts, i) ==
    {j \in Reals(ts) : /\ j > i /\ InWord(ts, i, j)
                       /\ \A m \in Reals(ts) : m \in i + 1 .. j => Offglide(ts, m)}

\* The tokens that are kept, in order.
Keep(ts, kept) ==
    FoldLeftDomain(LAMBDA acc, i : IF i \in kept THEN Append(acc, ts[i]) ELSE acc, << >>, ts)

Monophthongs(ts) ==
    LET nuclei == {i \in DOMAIN ts : LetterNucleus(ts, i) /\ Erased(ts, i) # {}}
        gone   == UNION {Erased(ts, i) : i \in nuclei}
        untied == [i \in DOMAIN ts |->
                      IF i \in nuclei
                      THEN [ts[i] EXCEPT !.long = TRUE, !.tiedTo = FALSE, !.tiedFrom = FALSE]
                      ELSE ts[i]]
    IN  Keep(untied, DOMAIN ts \ gone)

SpellingDiphthongs ==
    Run("spelling", "mark", IF pack.spelling = "monophthong" THEN Monophthongs(tokens) ELSE tokens)

-----------------------------------------------------------------------------
(* runSyllableMarking                                                      *)

\* The index of the current syllable from token t on, kept one higher than the code's.
Count(n, t) == IF t.wordStart THEN 1 ELSE IF t.sylStart THEN n + 1 ELSE n

SyllableOf(ts) ==
    LET f[i \in 0 .. Len(ts)] ==
            IF i = 0 THEN 0 ELSE IF Real(ts[i]) THEN Count(f[i - 1], ts[i]) ELSE f[i - 1]
    IN  f

SyllableMarking ==
    LET at == SyllableOf(tokens) IN
    Run("mark", "allophones",
        [i \in DOMAIN tokens |-> [tokens[i] EXCEPT !.syllable = IF Real(tokens[i]) THEN at[i] ELSE 0]])

-----------------------------------------------------------------------------
(* runAllophones: the rules of the pack that replace or insert tokens.     *)
(* Those that scale or shift only move numbers; the positions, stresses    *)
(* and neighbour lists that only such rules use in the packs are left out. *)

\* The neighbours a rule sees: silences and aspirations are passed over.
PhonemesOf(ts) == {k \in Reals(ts) : ~ts[k].aspiration}
PrevPhoneme(ts, i) == Max({0} \cup {k \in PhonemesOf(ts) : k < i})
NextPhoneme(ts, i) == LET N == {k \in PhonemesOf(ts) : k > i} IN IF N = {} THEN 0 ELSE Min(N)
VowelAt(ts, k) == k # 0 /\ Is(ts[k], "vowel")
EndsWord(ts, i) == LET k == NextPhoneme(ts, i) IN k # 0 => ts[k].wordStart

AtPosition(ts, i, position) ==
    LET prev == VowelAt(ts, PrevPhoneme(ts, i))
        next == VowelAt(ts, NextPhoneme(ts, i))
    IN  CASE position = "word-initial" -> ts[i].wordStart
          [] position = "word-final"   -> EndsWord(ts, i)
          [] position = "intervocalic" -> prev /\ next /\ ~ts[i].wordStart
          [] OTHER -> TRUE

WithStress(ts, i, stress) ==
    LET k == NextPhoneme(ts, i) IN
    stress = "next-unstressed" => ts[i].stress = 0 /\ VowelAt(ts, k) /\ ts[k].stress = 0

Matches(rule, ts, i) ==
    /\ i \in PhonemesOf(ts)
    /\ rule.phonemes # {} => ts[i].def \in rule.phonemes
    /\ rule.flags \subseteq Flags[ts[i].def] /\ rule.notFlags \cap Flags[ts[i].def] = {}
    /\ AtPosition(ts, i, rule.position) /\ WithStress(ts, i, rule.stress)

\* The first rule with one of the actions that matches token i of the text as it was
\* read, 0 if there is none.
FirstRule(ts, i, actions) ==
    LET R == {r \in DOMAIN pack.rules :
                 pack.rules[r].action \in actions /\ Matches(pack.rules[r], ts, i)}
    IN  IF R = {} THEN 0 ELSE Min(R)

\* The gap that goes with the stop that token i was: the first one in the silences before it.
GapBefore(ts, i) ==
    LET gaps == {j \in 1 .. i - 1 : /\ ts[j].gap \in {"closure", "edge"}
                                    /\ \A k \in j .. i - 1 : ts[k].silence}
    IN  IF gaps = {} THEN {} ELSE {Max(gaps)}

\* The aspiration right after token i, past silences.
AspirationAfter(ts, i) ==
    {j \in i + 1 .. Len(ts) : ts[j].aspiration /\ \A k \in i + 1 .. j - 1 : ts[k].silence}

\* The tokens that the replace rules leave out.
Skipped(ts) ==
    UNION {LET r == FirstRule(ts, i, {"replace"}) IN
           IF r = 0 THEN {}
           ELSE (IF pack.rules[r].dropsClosure THEN GapBefore(ts, i) ELSE {})
                    \cup (IF pack.rules[r].dropsAspiration THEN AspirationAfter(ts, i) ELSE {})
           : i \in DOMAIN ts}

InContext(rule, ts, i) ==
    rule.contexts # {} =>
        /\ EndsWord(ts, i)
        /\ "#_#" \in rule.contexts \/ ("V_#" \in rule.contexts /\ VowelAt(ts, PrevPhoneme(ts, i)))

\* The sound a rule inserts next to token t.
Inserted(rule, t) == [Token(rule.to) EXCEPT !.word = t.word]

\* What becomes of token i, after the tokens out: the first rule that replaces or inserts
\* is the only one, an insert rule out of its context too.
Rewritten(ts, i, out) ==
    LET r     == FirstRule(ts, i, {"replace", "insert-before", "insert-after"})
        rule  == pack.rules[r]
        twice == out # << >> /\ Last(out).def = rule.to
    IN  IF r = 0 THEN <<ts[i]>>
        ELSE CASE rule.action = "replace" -> <<[ts[i] EXCEPT !.def = rule.to]>>
               [] rule.action = "insert-after" -> <<ts[i], Inserted(rule, ts[i])>>
               [] rule.action = "insert-before" ->
                    IF InContext(rule, ts, i) /\ ~twice
                    THEN <<Inserted(rule, ts[i]), ts[i]>> ELSE <<ts[i]>>

Allophones ==
    Run("allophones", "prominence",
        FoldLeftDomain(LAMBDA out, i :
                           IF i \in Skipped(tokens) THEN out ELSE out \o Rewritten(tokens, i, out),
                       << >>, tokens))

-----------------------------------------------------------------------------
(* runProminence: which vowels the pitch pass will accent.  The boost of   *)
(* the first syllable and the reduction of the last one (0.05) carry no    *)
(* vowel over its threshold.                                               *)

\* The stress of the syllable, looked for up to its start or the vowel before.
SyllableStress(ts, i) ==
    LET S == {j \in 1 .. i - 1 : \/ ts[j].sylStart \/ ts[j].wordStart
                                 \/ Real(ts[j]) /\ Is(ts[j], "vowel")}
    IN  S # {} /\ ts[Max(S)].sylStart /\ ts[Max(S)].stress # 0

\* A vowel that is tied to the one before it is scored like that one.
Scored(ts) ==
    LET f[i \in DOMAIN ts] ==
            LET p == PrevReal(ts, i) IN
            IF ts[i].tiedFrom THEN VowelAt(ts, p) /\ ts[p].tiedTo => f[p]
            ELSE ts[i].stress # 0 \/ SyllableStress(ts, i)
    IN  f

\* The tokens of the word of token i: a word goes from a wordStart to the next.
WordAt(ts, i) ==
    {k \in DOMAIN ts : \A m \in Min({k, i}) + 1 .. Max({k, i}) : ~ts[m].wordStart}

\* A word is known for a function word by the symbols it was read from.
FunctionWord(ts, i) ==
    LET Symbols(t)  == IF t.char = NoDef THEN << >>
                       ELSE IF t.long THEN <<t.char, "long">> ELSE <<t.char>>
        Spell(w, k) == IF k \in WordAt(ts, i) \cap Reals(ts) THEN w \o Symbols(ts[k]) ELSE w
    IN  FoldLeftDomain(Spell, << >>, ts) \in pack.functionWords

Nuclei(ts, i) == {k \in WordAt(ts, i) : Real(ts[k]) /\ Is(ts[k], "vowel") /\ ~ts[k].tiedFrom}
Reduced(t) == t.char # NoDef /\ "reduced" \in Flags[t.char]

\* The only vowel of a word, and every full vowel, is lifted to a floor.
Lifted(ts, i) ==
    ~ts[i].tiedFrom /\ ~FunctionWord(ts, i) /\ (Nuclei(ts, i) = {i} \/ ~Reduced(ts[i]))

Prominence ==
    Run("prominence", "liquids",
        IF pack.prominence
        THEN [i \in DOMAIN tokens |->
                 [tokens[i] EXCEPT !.prominent = /\ Real(tokens[i]) /\ Is(tokens[i], "vowel")
                                                 /\ Scored(tokens)[i] \/ Lifted(tokens, i)]]
        ELSE tokens)

-----------------------------------------------------------------------------
(* runLiquidDynamics, runLengthContrast                                    *)

\* The sounds with an onglide of their own; a labial glide only before a vowel.
Splittable(ts) ==
    {i \in Reals(ts) :
        \/ ts[i].def \in pack.liquids
        \/ ts[i].def \in pack.labials /\ VowelAt(ts, NextReal(ts, i))}

\* The halves of a sound: the marks stay on the first.
Halves(t) ==
    <<[t EXCEPT !.long = FALSE, !.tiedFrom = FALSE],
      [t EXCEPT !.wordStart = FALSE, !.sylStart = FALSE, !.stress = 0, !.long = FALSE,
                !.tiedTo = FALSE]>>

\* Only a sound of at least 8 ms is split.
LiquidDynamics ==
    \E S \in SUBSET Splittable(tokens) :
        Run("liquids", "lengths",
            FoldLeftDomain(LAMBDA out, i : out \o (IF i \in S THEN Halves(tokens[i]) ELSE <<tokens[i]>>),
                           << >>, tokens))

\* A long stop gets a closure in front of it, whatever stands there.
Geminate(t) ==
    IF ~Real(t) \/ Is(t, "vowel") \/ ~t.long THEN <<t>>
    ELSE IF StopLike(t) THEN <<[Silence("closure") EXCEPT !.word = t.word], [t EXCEPT !.long = FALSE]>>
    ELSE <<[t EXCEPT !.long = FALSE]>>

LengthContrast ==
    Run("lengths", "collapse",
        IF pack.lengths /\ Len(tokens) >= 3
        THEN FoldLeftDomain(LAMBDA out, i : out \o Geminate(tokens[i]), << >>, tokens) ELSE tokens)
-----------------------------------------------------------------------------
(* runDiphthongCollapse                                                    *)

Mergeable(a, b) ==
    /\ a.tiedTo /\ b.tiedFrom /\ Is(a, "vowel")
    /\ Is(b, "vowel") \/ Is(b, "semivowel") \/ Is(b, "liquid")

\* Whether token i takes in the one after it: a token that was taken in cannot, nor can
\* a merged one a third.
MergeAt(ts) ==
    LET f[i \in 0 .. Len(ts)] ==
            i \in 1 .. Len(ts) - 1 /\ Mergeable(ts[i], ts[i + 1]) /\ ~f[i - 1]
    IN  f

Collapsed(ts) ==
    LET merges == MergeAt(ts)
        merged == [i \in DOMAIN ts |->
                      IF merges[i] THEN [ts[i] EXCEPT !.glide = ts[i + 1].def, !.tiedTo = FALSE,
                                                      !.tiedFrom = FALSE] ELSE ts[i]]
    IN  Keep(merged, {i \in DOMAIN ts : ~merges[i - 1]})

DiphthongCollapse ==
    Run("collapse", "pitch", IF pack.collapse THEN Collapsed(tokens) ELSE tokens)

-----------------------------------------------------------------------------
(* applyPitchFujisaki: the commands, from the prominence or the stress marks *)

\* The stress of the syllable is kept until its nucleus takes it.
Pending(ts) ==
    LET f[i \in 0 .. Len(ts)] ==
            IF i = 0 THEN 0
            ELSE IF Real(ts[i]) /\ ts[i].sylStart THEN ts[i].stress
            ELSE IF i > 1 /\ Real(ts[i - 1]) /\ Is(ts[i - 1], "vowel") THEN 0
            ELSE f[i - 1]
    IN  f

LastNucleus(ts) ==
    LET vowels == {i \in Reals(ts) : Is(ts[i], "vowel")} IN
    IF vowels # {} THEN Max(vowels) ELSE IF Reals(ts) # {} THEN Max(Reals(ts)) ELSE 0

\* Whether token i carries an accent command in a clause that ends with mark c.
Accented(ts, i, c) ==
    LET vowels   == {k \in Reals(ts) : Is(ts[k], "vowel")}
        stressed == {k \in vowels : IF pack.prominence THEN ts[k].prominent ELSE Pending(ts)[k] # 0}
        primary  == {k \in stressed : pack.prominence \/ Pending(ts)[k] = 1}
    IN  CASE i = LastNucleus(ts) /\ c = "?" -> TRUE
          [] i = LastNucleus(ts) /\ c = "!" -> FALSE
          [] OTHER -> CASE pack.accents = "all" -> i \in stressed
                        [] pack.accents = "first_only" -> primary # {} /\ i = Min(primary)
                        [] OTHER -> FALSE

Pitch(c) ==
    Run("pitch", "tail",
        [i \in DOMAIN tokens |->
            [tokens[i] EXCEPT !.reset  = Reals(tokens) # {} /\ i = Min(Reals(tokens)),
                              !.accent = Real(tokens[i]) /\ Accented(tokens, i, c)]])

-----------------------------------------------------------------------------
(* convertIpaToTokens: the fade at the end                                 *)

SingleWord(ts) == Cardinality({i \in Reals(ts) : ts[i].wordStart}) = 1

\* One silence of no duration, whichever of the two settings asks for it.
FadeTail ==
    Run("tail", "emit",
        IF pack.clauseFade \/ (pack.wordFade /\ SingleWord(tokens) /\ Reals(tokens) # {})
        THEN Append(tokens, Silence("none")) ELSE tokens)

\* The text is read and converted.
Convert ==
    \/ ReadSpace \/ ReadDot
    \/ \E s \in {1, 2} : ReadStress(s)
    \/ \E d \in Phonemes : ReadPhoneme(d, FALSE, FALSE)
    \/ \E d \in TieBars : ReadPhoneme(d, TRUE, FALSE)
    \/ \E d \in LongPhonemes : ReadPhoneme(d, FALSE, TRUE)
    \/ \E d \in KeyPhonemes : ReadKey(d)
    \/ EndParse \/ AutoTie \/ SpellingDiphthongs \/ SyllableMarking \/ Allophones \/ Prominence
    \/ LiquidDynamics \/ LengthContrast \/ DiphthongCollapse
    \/ \E c \in Clauses : Pitch(c)
    \/ FadeTail

-----------------------------------------------------------------------------
(* Properties                                                              *)

\* A sound that was read from the text, not inserted by a pass.
WasRead(t) == Real(t) /\ t.char # NoDef

\* A closure keeps its stop: whatever the passes replace, insert, split, erase or merge, the
\* silence in front of a stop or affricate is followed by the stop it was made for (a voice
\* bar takes its formants from the def of that silence), in the same word.  Between the two
\* there may only be a second closure and what an insert rule puts before the stop.
ClosurePrecedesItsStop ==
    \A i \in DOMAIN tokens :
        tokens[i].gap = "closure" =>
            \E j \in i + 1 .. Len(tokens) :
                /\ WasRead(tokens[j]) /\ StopLike(tokens[j]) /\ tokens[j].word = tokens[i].word
                /\ tokens[i].def \in {tokens[j].def, NoDef}
                /\ \A k \in i + 1 .. j - 1 :
                        tokens[k].gap = "closure" \/ (tokens[k].char = NoDef /\ ~tokens[k].aspiration)

\* Words survive: no pass erases, merges or splits away the start of a word, so every word
\* that was read still has one wordStart, on the first of its sounds that were read.  (What a
\* rule inserts in front of that sound has no mark and so ends the word before.)
WordStartsSurvive ==
    stage # "parse" =>
        \A w \in 1 .. parse.words :
            LET own == {i \in Reals(tokens) : tokens[i].word = w} IN
            /\ {i \in own : WasRead(tokens[i])} # {}
            /\ {i \in own : tokens[i].wordStart} = {Min({i \in own : WasRead(tokens[i])})}

\* A word that was read with a stress mark still has a stressed sound after all passes.
\* The exception: a vowel moves its stress to the consonant before it, and when that is the
\* offglide of a tie bar the merge takes the stress away with it.
StressSurvives ==
    stage # "parse" =>
        \A w \in parse.stressed :
            \E i \in Reals(tokens) :
                /\ tokens[i].word = w
                /\ \/ tokens[i].stress # 0
                   \/ tokens[i].glide # NoDef /\ "vowel" \notin Flags[tokens[i].glide]

\* Words keep the marks they were read with.
WordsKeepTheirMarks == WordStartsSurvive /\ StressSurvives
=============================================================================
