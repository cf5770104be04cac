------------------------------ MODULE PackFiles ------------------------------
(***************************************************************************)
(* Language packs (src/src/frontend/pack.cpp): which files make up the     *)
(* pack of a language, and in which order they replace each other.         *)
(*                                                                         *)
(* There are two directories, the packs that came with the program and an  *)
(* optional one that is looked at first. Each holds a YAML file per        *)
(* language and TSV dictionaries. A YAML file is cut down to what later    *)
(* files of the chain do to it: settings (replaced one by one), phonemes   *)
(* (replaced as a whole), replacement rules (appended) and the skips that  *)
(* remove rules once every file is in. A dictionary is the sequence of its *)
(* lines.                                                                  *)
(***************************************************************************)
EXTENDS Naturals, Sequences, SequencesExt

CONSTANTS
    Langs,      \* normalized language tags
    BaseOf,     \* the language of a dialect, None: the tag has no dash
    Default,    \* the file every chain starts with
    Words,      \* what a dictionary may hold
    None

ASSUME LangAssumption ==
    /\ None \notin Langs /\ Default \notin Langs
    /\ BaseOf \in [Langs -> Langs \cup {None}]
    /\ \A l \in Langs : BaseOf[l] # None => BaseOf[BaseOf[l]] = None

Names == Langs \cup {Default}
Kinds == {"pronounce", "stress", "compound", "character"}
Empty == <<>>           \* the function without arguments, and a file without lines

\* What comes later lies over what was there, argument by argument; one argument's value.
Over(upper, lower) ==
    [x \in DOMAIN upper \cup DOMAIN lower |-> IF x \in DOMAIN upper THEN upper[x] ELSE lower[x]]
One(x, value) == [y \in {x} |-> value]

-----------------------------------------------------------------------------
(* The YAML files of a language.                                           *)

\* default, then every prefix of the tag, the tag last.
Chain(lang) ==
    IF lang = Default THEN <<Default>>
    ELSE IF BaseOf[lang] = None THEN <<Default, lang>>
    ELSE <<Default, BaseOf[lang], lang>>

\* Keys of a file replace those of the files before it, one by one.
MergeSettings(pack, file) == [pack EXCEPT !.settings = Over(file.settings, @)]

\* Rules and skips of a file come after those of the files before it.
MergeNormalization(pack, file) ==
    [pack EXCEPT !.rules = @ \o file.rules, !.skips = @ \cup file.skips]

\* A phoneme of a file replaces the whole definition, not its fields.
MergeLanguageFile(pack, file) ==
    [MergeNormalization(MergeSettings(pack, file), file)
        EXCEPT !.phonemes = Over(file.phonemes, @)]

\* The file that counts under this name: the override directory's, if it has one.
LangFile(files, over, name) ==
    IF over /\ files.override.lang[name] # None THEN files.override.lang[name]
    ELSE files.bundle.lang[name]

\* A rule goes when a skip names it, or names what it replaces and no result.
Matches(skip, rule) == skip.from = rule.from /\ skip.to \in {rule.to, None}

Keep(skips, left, rule) ==
    IF \E skip \in skips : Matches(skip, rule) THEN left ELSE Append(left, rule)
Kept(skips, rules) == FoldLeft(LAMBDA left, rule : Keep(skips, left, rule), <<>>, rules)

Skipped(pack) == [pack EXCEPT !.rules = Kept(pack.skips, @)]

\* What the layers start from: the phonemes of phonemes.yaml, no setting and no rule.
LoadPhonemes(files) ==
    [settings |-> Empty, rules |-> <<>>, skips |-> {}, phonemes |-> files.phonemes]

\* A name without a file adds nothing.
AddLayer(files, over, pack, name) ==
    LET file == LangFile(files, over, name)
    IN  IF file = None THEN pack ELSE MergeLanguageFile(pack, file)

Layers(files, over, names) ==
    FoldLeft(LAMBDA pack, name : AddLayer(files, over, pack, name), LoadPhonemes(files), names)

LayeredLang(files, over, lang) == Skipped(Layers(files, over, Chain(lang)))

\* What the settings editors show: the chain again, without the override directory.
AddSettings(files, shown, name) ==
    LET file == files.bundle.lang[name]
    IN  IF file = None THEN shown ELSE Over(file.settings, shown)

LayeredSettings(files, names) ==
    FoldLeft(LAMBDA shown, name : AddSettings(files, shown, name), Empty, names)

GetEffectiveSettings(files, lang) == LayeredSettings(files, Chain(lang))

\* The phonemes a language's rules lead to, as the phoneme editors list them.
CollectReplacementTargets(files, lang) ==
    UNION { LET file == files.bundle.lang[name] IN
            IF file = None THEN {} ELSE {rule.to : rule \in ToSet(file.rules)}
            : name \in ToSet(Chain(lang)) }

\* With the values of phonemes.yaml, also where a language's file replaces them.
BuildPhonemesCache(files, lang) ==
    [p \in DOMAIN files.phonemes \cap CollectReplacementTargets(files, lang) |->
        files.phonemes[p]]

-----------------------------------------------------------------------------
(* Dictionaries. A line is [word, text]; a loaded entry knows if the user  *)
(* made it and if it is masked.                                            *)

Entry(text, source) == [text |-> text, source |-> source, masked |-> FALSE]
WordsOf(lines) == {lines[i].word : i \in DOMAIN lines}

\* unordered_map::emplace: the first line of a word counts.
FirstLines(lines, source) ==
    [w \in WordsOf(lines) |->
        LET i == CHOOSE j \in DOMAIN lines :
                     lines[j].word = w /\ \A k \in 1..(j - 1) : lines[k].word # w
        IN  Entry(lines[i].text, source)]

\* entries[word] = ...: the last one does.
LastLines(lines, source) == FirstLines(Reverse(lines), source)

LoadStressDict(lines) == FirstLines(lines, "main")
LoadCompoundMap(lines) == FirstLines(lines, "main")
LoadLetterDict(lines) == FirstLines(lines, "main")
LoadPronDict(dict, lines, source) == Over(LastLines(lines, source), dict)

Load(kind, lines) ==
    CASE kind = "pronounce" -> LoadPronDict(Empty, lines, "main")
      [] kind = "stress" -> LoadStressDict(lines)
      [] kind = "compound" -> LoadCompoundMap(lines)
      [] kind = "character" -> LoadLetterDict(lines)

\* A file that is missing reads as one without lines.
Lines(file) == IF file = None THEN <<>> ELSE file

\* The override directory's file, or the language's, or, when that has no entry and the
\* dictionary may fall back, that of the language without its dialect.
MainDict(files, over, lang, kind, fallback) ==
    LET own == Load(kind, Lines(files.bundle.dict[lang][kind])) IN
    IF over /\ files.override.dict[lang][kind] # None
        THEN Load(kind, files.override.dict[lang][kind])
    ELSE IF own = Empty /\ fallback /\ BaseOf[lang] # None
        THEN Load(kind, Lines(files.bundle.dict[BaseOf[lang]][kind]))
    ELSE own

\* The user's file lies over the main one; without one in the override directory, the
\* dialect's and then the language's do.
WithUserDict(files, over, lang, dict) ==
    LET own == LoadPronDict(dict, Lines(files.bundle.user[lang]), "user") IN
    IF over /\ files.override.user[lang] # None
        THEN LoadPronDict(dict, files.override.user[lang], "user")
    ELSE IF BaseOf[lang] # None
        THEN LoadPronDict(own, Lines(files.bundle.user[BaseOf[lang]]), "user")
    ELSE own

PackDicts(files, over, lang) ==
    [kind \in Kinds |->
        IF kind = "pronounce"
        THEN WithUserDict(files, over, lang, MainDict(files, over, lang, kind, TRUE))
        ELSE MainDict(files, over, lang, kind, kind # "stress")]

\* Slip: the user's words of the base language are forgotten.
LoadOwnDictFiles(files, over, lang) ==
    [kind \in Kinds |->
        LET main == MainDict(files, over, lang, kind, TRUE)
        IN  IF kind = "pronounce"
            THEN LoadPronDict(main, Lines(files.bundle.user[lang]), "user")
            ELSE main]

\* The dictionaries of a language that is not the loaded one, for an editor to show.
LoadDictFiles(files, over, lang) ==
    [kind \in Kinds |->
        IF kind = "pronounce"
        THEN WithUserDict(files, over, lang, MainDict(files, over, lang, kind, TRUE))
        ELSE MainDict(files, over, lang, kind, TRUE)]

LoadPackSet(files, over, lang) ==
    LET pack == LayeredLang(files, over, lang)
    IN  [settings |-> pack.settings, rules |-> pack.rules, phonemes |-> pack.phonemes,
         dicts |-> PackDicts(files, over, lang)]

GetAvailableLanguages(files) == {l \in Langs : files.bundle.lang[l] # None}
==============================================================================
