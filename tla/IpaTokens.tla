------------------------------ MODULE IpaTokens ------------------------------
(***************************************************************************)
(* The text half of the frontend (src/src/frontend): one chunk of IPA is   *)
(* read from left to right into tokens (ipa_parser.cpp), and the passes    *)
(* that change which tokens there are, where words and syllables start and *)
(* which of them are stressed then rewrite the sequence (ipa_engine.cpp,   *)
(* passes/).  The text is chosen while it is read: each read step takes    *)
(* any symbol the pack knows.                                              *)
(*                                                                         *)
(* A phoneme is its flags.  Formants, durations and pitches in Hz are      *)
(* abstracted, so the passes that only move them have no action.           *)
(***************************************************************************)
EXTENDS Naturals, SequencesExt

CONSTANTS
    Flags,        \* phoneme -> its flags
    Phonemes,     \* phonemes the text may have
    KeyPhonemes,  \* phonemes that are also written as whole keys after U+001F
    Aspiration,   \* the pack's postStopAspirationPhoneme
    LetterA,      \* the nucleus of the letter name A, phoneme e
    TieBars,      \* phonemes the text may write with a tie bar
    LongPhonemes, \* phonemes the text may write with a length mark
    Clauses,      \* the clause types the caller passes: ".", "?", "!"
    Packs,        \* the settings of the language packs, records
    NoDef,        \* the def of a token that is only silence
    MaxPhonemes,  \* bound: phonemes read by a behaviour
    MaxMarks      \* bound: chunks, stress marks, dots and spaces of a behaviour


ASSUME IpaAssumption ==
    /\ NoDef \notin DOMAIN Flags /\ Aspiration \in DOMAIN Flags
    /\ Phonemes \cup KeyPhonemes \cup TieBars \cup LongPhonemes \cup {LetterA} \subseteq DOMAIN Flags
    /\ MaxPhonemes \in Nat \ {0} /\ MaxMarks \in Nat

VARIABLES
    pack,    \* the settings of the loaded pack
    stage,   \* the pass that runs next; "idle" between two calls
    parse,   \* the locals of parseToTokens
    tokens,  \* outTokens
    budget   \* what may still be read

tokenVars == <<pack, stage, parse, tokens, budget>>

Stages ==
    {"idle", "parse", "autoTie", "spelling", "mark", "allophones", "prominence", "liquids",
     "lengths", "collapse", "pitch", "tail", "emit"}
Gaps == {"none", "closure", "hiatus", "edge"}

\* A token.  char is baseChar, the symbol it was read from; reset and accent are what the
\* pitch pass asks of the synthesizer; prominent is a prominence of more than 0.05.  word is
\* the history the properties need: the number of the word in its chunk.
Token(d) ==
    [def |-> d, char |-> NoDef, long |-> FALSE, prominent |-> FALSE,
     silence |-> FALSE, gap |-> "none", voicedClosure |-> FALSE, taper |-> FALSE,
     aspiration |-> FALSE, wordStart |-> FALSE, sylStart |-> FALSE, stress |-> 0,
     tiedTo |-> FALSE, tiedFrom |-> FALSE, syllable |-> 0, glide |-> NoDef,
     reset |-> FALSE, accent |-> FALSE, word |-> 0]
Silence(gap) == [Token(NoDef) EXCEPT !.silence = TRUE, !.gap = gap]

Real(t) == t.def # NoDef /\ ~t.silence
Is(t, flag) == t.def # NoDef /\ flag \in Flags[t.def]
StopLike(t) == Is(t, "stop") \/ Is(t, "affricate")
Reals(ts) == {i \in DOMAIN ts : Real(ts[i])}
\* The nearest real token before and after place i, 0 where there is none.
PrevReal(ts, i) == LET P == {k \in Reals(ts) : k < i} IN IF P = {} THEN 0 ELSE Max(P)
NextReal(ts, i) == LET N == {k \in Reals(ts) : k > i} IN IF N = {} THEN 0 ELSE Min(N)

NewParse ==
    [newWord |-> TRUE, stress |-> 0, boundary |-> FALSE, explicit |-> FALSE, last |-> 0,
     sylStart |-> 0, tied |-> FALSE, words |-> 0, stressed |-> {}]

TokenInit ==
    /\ pack \in Packs
    /\ stage = "idle"
    /\ parse = NewParse
    /\ tokens = << >>
    /\ budget = [phonemes |-> MaxPhonemes, marks |-> MaxMarks]

-----------------------------------------------------------------------------
(* parseToTokens: marks                                                    *)

BeginParse ==
    /\ stage = "idle" /\ budget.phonemes > 0 /\ budget.marks > 0
    /\ stage' = "parse" /\ parse' = NewParse /\ tokens' = << >>
    /\ budget' = [budget EXCEPT !.marks = @ - 1]
    /\ UNCHANGED pack

Mark(after) ==
    /\ stage = "parse" /\ budget.marks > 0
    /\ parse' = [after EXCEPT !.tied = FALSE]
    /\ budget' = [budget EXCEPT !.marks = @ - 1]
    /\ UNCHANGED <<pack, stage, tokens>>

ReadSpace == Mark([parse EXCEPT !.newWord = TRUE, !.explicit = FALSE])
ReadStress(s) == Mark([parse EXCEPT !.stress = s])
ReadDot == Mark([parse EXCEPT !.boundary = TRUE, !.explicit = TRUE])

-----------------------------------------------------------------------------
(* parseToTokens: a phoneme                                                *)

\* What stands in front of the phoneme that is read: outTokens[lastIndex].
Prior == IF parse.last = 0 THEN Token(NoDef) ELSE tokens[parse.last]

\* A vowel after a consonant makes the consonant the start of its syllable, unless
\* the word has explicit boundaries.
OnsetBefore(t) ==
    ~parse.explicit /\ parse.last # 0 /\ ~Is(Prior, "vowel") /\ Is(t, "vowel")

Aspirated(t) ==
    /\ pack.aspiration
    /\ Is(Prior, "stop") /\ ~Is(Prior, "voiced")
    /\ Is(t, "voiced") /\ ~StopLike(t)

\* A stressed vowel after a vowel that is not tied to it.
HiatusBefore(t, prev) ==
    /\ pack.hiatusGap /\ parse.stress # 0 /\ ~t.wordStart
    /\ Is(prev, "vowel") /\ Is(t, "vowel")
    /\ ~prev.tiedTo /\ ~prev.tiedFrom /\ ~t.tiedTo /\ ~t.tiedFrom

\* stopClosureMode: a closure after a vowel, and one between the consonants of a cluster.
AfterVowel == parse.last # 0 /\ Is(Prior, "vowel")
InCluster ==
    /\ pack.closure = "vowel-and-cluster" /\ pack.clusterGaps
    /\ parse.last # 0 /\ ~AfterVowel
    /\ \/ /\ StopLike(Prior) \/ Is(Prior, "fricative") \/ Is(Prior, "liquid") \/ Is(Prior, "semivowel")
          /\ ~Is(Prior, "nasal")
       \/ Is(Prior, "nasal") /\ (pack.afterNasals \/ pack.nasalGap)
ClosureBefore(t) ==
    /\ parse.stress = 0 /\ StopLike(t)
    /\ \/ pack.closure = "always"
       \/ pack.closure \in {"after-vowel", "vowel-and-cluster"} /\ AfterVowel
       \/ InCluster

\* The noise of a fricative blends into the closure of a voiceless stop after it.
Tapered(t) ==
    /\ InCluster /\ Is(Prior, "fricative") /\ ~Is(t, "voiced")
    /\ ~t.wordStart /\ pack.taper /\ ~Is(t, "affricate")

Closure(t) ==
    [Silence("closure") EXCEPT !.def = t.def, !.voicedClosure = Is(t, "voiced"),
                               !.taper = Tapered(t), !.wordStart = t.wordStart, !.word = t.word]

\* An affricate that ends a word, before a consonant that has no closure of its own.
EdgeBefore(t, prev) ==
    t.wordStart /\ ~Is(t, "vowel") /\ ~StopLike(t) /\ Is(prev, "affricate")

\* The token of phoneme d as it is pushed; tie, long: a tie bar, a length mark follows it.
Read(d, tie, long) ==
    LET start == \/ parse.boundary \/ parse.newWord
                 \/ ~parse.explicit /\ parse.stress = 1 /\ Is(Prior, "vowel")
    IN  [Token(d) EXCEPT !.char = d, !.long = long, !.tiedTo = tie, !.tiedFrom = parse.tied,
                         !.wordStart = parse.newWord, !.sylStart = start,
                         !.word = parse.words + (IF parse.newWord THEN 1 ELSE 0)]

\* The tokens the phoneme brings along, in the order they are pushed.
Insertions(t) ==
    LET asp  == [Token(Aspiration) EXCEPT !.aspiration = TRUE, !.word = parse.words]
        prev == IF Aspirated(t) THEN asp ELSE Prior
        opt(c, tok) == IF c THEN <<tok>> ELSE << >>
    IN  opt(Aspirated(t), asp)
            \o opt(HiatusBefore(t, prev), [Silence("hiatus") EXCEPT !.word = t.word])
            \o opt(ClosureBefore(t), Closure(t))
            \o opt(EdgeBefore(t, prev), [Silence("edge") EXCEPT !.wordStart = TRUE, !.word = t.word])

\* Slip: the mark only reaches a token that was pushed earlier.
StressEarlier(before, t, sylStart) ==
    IF parse.stress # 0 /\ sylStart \in DOMAIN before
    THEN Append([before EXCEPT ![sylStart].stress = parse.stress], t) ELSE Append(before, t)

\* The stress mark goes to the token the syllable starts with.
Stressed(before, t, sylStart) ==
    LET pushed == Append(before, t) IN
    IF parse.stress # 0 /\ sylStart # 0
    THEN [pushed EXCEPT ![sylStart].stress = parse.stress] ELSE pushed

Push(before, t, sylStart) ==
    /\ tokens' = Stressed(before, t, sylStart)
    /\ parse' = [parse EXCEPT !.newWord = FALSE, !.stress = 0, !.boundary = FALSE,
                              !.last = Len(before) + 1, !.sylStart = sylStart, !.words = t.word,
                              !.tied = t.tiedTo,
                              !.stressed = IF parse.stress # 0 THEN @ \cup {t.word} ELSE @]
    /\ budget' = [budget EXCEPT !.phonemes = @ - 1]
    /\ UNCHANGED <<pack, stage>>

MayRead == stage = "parse" /\ budget.phonemes > 0

ReadPhoneme(d, tie, long) ==
    LET r      == Read(d, tie, long)
        t      == [r EXCEPT !.taper = ClosureBefore(r) /\ Tapered(r)]
        onset  == IF OnsetBefore(t) THEN [tokens EXCEPT ![parse.last].sylStart = TRUE] ELSE tokens
        before == onset \o Insertions(t)
        start  == IF t.sylStart THEN Len(before) + 1
                  ELSE IF OnsetBefore(t) THEN parse.last ELSE parse.sylStart
    IN  MayRead /\ Push(before, t, start)

\* U+001F and a whole key: no gap, no aspiration, and the stress stays on the token.
ReadKey(d) ==
    LET start == parse.newWord \/ parse.boundary
        t == [Token(d) EXCEPT !.char = d, !.wordStart = parse.newWord, !.sylStart = start,
                              !.stress = parse.stress,
                              !.word = parse.words + (IF parse.newWord THEN 1 ELSE 0)]
    IN  /\ MayRead
        /\ tokens' = Append(tokens, t)
        /\ parse' = [parse EXCEPT !.newWord = FALSE, !.stress = 0, !.boundary = FALSE,
                                  !.last = Len(tokens) + 1, !.words = t.word, !.tied = FALSE,
                                  !.sylStart = IF start THEN Len(tokens) + 1 ELSE @,
                                  !.stressed = IF parse.stress # 0 THEN @ \cup {t.word} ELSE @]
        /\ budget' = [budget EXCEPT !.phonemes = @ - 1]
        /\ UNCHANGED <<pack, stage>>

\* The end of the text; a text without a phoneme has no pass left to run.
EndParse ==
    /\ stage = "parse"
    /\ stage' = IF tokens = << >> THEN "emit" ELSE "autoTie"
    /\ parse' = [NewParse EXCEPT !.words = parse.words, !.stressed = parse.stressed]
    /\ UNCHANGED <<pack, tokens, budget>>
=============================================================================
