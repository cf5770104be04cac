----------------------------- MODULE NvdaSettings -----------------------------
(***************************************************************************)
(* The settings of the NVDA add-on (nvdaAddon/synthDrivers/tgSpeechBox):   *)
(* its voices, sliders and languages, the language packs' settings it      *)
(* shows and writes as YAML, the panel that edits them, NVDA's own         *)
(* configuration that is replayed over all of it, and what of this reaches *)
(* the frontend, the player and eSpeak.                                    *)
(*                                                                         *)
(* All of it runs on NVDA's main thread, so every operation is one step.   *)
(* An operation is a function of the whole state s, for most of them call  *)
(* others; the actions choose the operation and its arguments.             *)
(*                                                                         *)
(* The tone is in the units of its sliders: a slider's value and the       *)
(* player's number map onto each other one to one, but for the tilt, where *)
(* the slider is an offset to what the voice says.                         *)
(***************************************************************************)
EXTENDS YamlText, PackFiles, Integers

CONSTANTS
    Auto,              \* the language that follows NVDA's
    Languages,         \* the languages NVDA is shown, in order, without Auto
    Fallback,          \* the one for a language that is not among them: en-us
    UiLang, WinLang,   \* NVDA's language and Windows'
    EspeakTags,        \* the tags a language goes by in eSpeak, the best one first
    EspeakVoices,      \* tags of eSpeak's list of voices
    EspeakAccepts,     \* tags eSpeak finds a voice for by itself
    English,
    Presets, Adam,     \* voices that are made in Python, and the default one
    HeadSizeOf,        \* presets with a head of their own -> its slider
    Tilt, HeadSize,    \* sliders of the tone
    ToneSliders, ExSliders, SavedSliders,  \* all of the tone; of the frames; of a saved profile
    SliderValues,      \* slider -> where it may stand
    SliderDefault,
    ToneDefault,       \* every number of the tone -> its default
    Rates,
    BoolKeys, PitchKey, ScaleKey, SettingOrder, \* the driver's settings, in NVDA's order
    SettingDefault,    \* what is shown of a setting that no file has
    Values,            \* what each setting may be set to
    FactoryFiles,      \* name -> the file that came with the program, None: there is none
    ImportFiles,       \* voices a user may import
    StartFiles, StartPhonemes,
    OldConf,           \* the configuration of the driver's former name
    MaxOps             \* bound on what the user does

ASSUME SettingsAssumption ==
    /\ Auto \in Langs /\ Fallback \in ToSet(Languages) /\ Adam \in Presets
    /\ {Tilt, HeadSize} \subseteq ToneSliders /\ MaxOps \in Nat

VARIABLES
    s,        \* files, driver, frontend, player and eSpeak
    conf,     \* NVDA's configuration of the driver, None: nothing was saved yet
    pending,  \* the panel's edits: <<language, key>> -> value
    store,    \* what the files say, to the frontend and to the add-on; history only
    ops       \* what the user did so far

vars == <<s, conf, pending, store, ops>>

Sliders == ToneSliders \cup ExSliders
Preset(name) == [profile |-> FALSE, name |-> name]
Profile(name) == [profile |-> TRUE, name |-> name]

\* The profile of the current voice, None: it is a preset.
VoiceProfile(t) == IF t.voice.profile THEN t.voice.name ELSE None

-----------------------------------------------------------------------------
(* The frontend.                                                           *)

FileTree(f) == IF f = None THEN Empty ELSE Tree(f)
FrontendSettings(f) == Below(FileTree(f), SettingsKey)
Loads(t, lang) ==
    /\ Parses(t.phonemes)
    /\ \A name \in ToSet(Chain(lang)) : t.files[name] # None => Parses(t.files[name])

\* The profile's name outlives the pack it was set for.
LoadPack(t, lang) ==
    [t EXCEPT !.fe = [@ EXCEPT
        !.lang = lang, !.voices = Tree(t.phonemes),
        !.settings = FoldLeft(LAMBDA acc, name : FrontendSettings(t.files[name]) @@ acc,
                              Empty, Chain(lang))]]

FrontendSetLanguage(t, lang) == IF Loads(t, lang) THEN LoadPack(t, lang) ELSE t

SetVoiceProfile(t, profile) == [t EXCEPT !.fe.profile = profile]
SetFrameExDefaults(t) == [t EXCEPT !.fe.ex = [k \in ExSliders |-> t.sliders[k]]]

TonePath(profile, k) == <<VoiceProfilesKey, profile, VoicingToneKey, k>>

\* A voice need not say every number of its tone.
GetVoicingTone(voices, profile) ==
    [k \in DOMAIN ToneDefault |->
        IF profile # None /\ TonePath(profile, k) \in DOMAIN voices
        THEN voices[TonePath(profile, k)] ELSE ToneDefault[k]]

\* The names of the section's outermost blocks.
DiscoverVoiceProfiles(f) ==
    LET header == First({i \in Contents(f) : f[i].ind = 0 /\ f[i].key = VoiceProfilesKey}, Len(f))
        end    == First({i \in Between(f, header + 1, Len(f) + 1) : f[i].ind = 0}, Len(f) + 1)
        inside == Between(f, header + 1, end)
    IN  {f[i].key : i \in {j \in inside : f[j].ind = f[Min(inside)].ind}}

-----------------------------------------------------------------------------
(* voicing_tone.py                                                         *)

Within(x, low, high) == IF x < low THEN low ELSE IF x > high THEN high ELSE x
Offset(tilt) == tilt - 50

\* The tilt is added to the voice's, the other sliders replace what it says.
ToneOf(voices, profile, sliders) ==
    LET base == GetVoicingTone(voices, profile) IN
    [k \in DOMAIN ToneDefault |->
        IF k = Tilt THEN Within(base[k] + Offset(sliders[k]), -50, 50)
        ELSE IF k \in ToneSliders THEN sliders[k]
        ELSE base[k]]

ApplyVoicingTone(t, profile) ==
    LET v == SetFrameExDefaults(SetVoiceProfile(t, profile)) IN
    [v EXCEPT !.tone = ToneOf(v.fe.voices, profile, v.sliders)]

SetToneSlider(t, k, x) ==
    LET v == [t EXCEPT !.sliders[k] = x] IN
    IF x = t.sliders[k] THEN t
    ELSE IF t.init THEN ApplyVoicingTone(v, VoiceProfile(v)) ELSE v

SetFrameExSlider(t, k, x) ==
    LET v == [t EXCEPT !.sliders[k] = x] IN IF t.init THEN SetFrameExDefaults(v) ELSE v

SetSlider(t, k, x) == IF k \in ToneSliders THEN SetToneSlider(t, k, x) ELSE SetFrameExSlider(t, k, x)

-----------------------------------------------------------------------------
(* voice_management.py                                                     *)

SlidersOf(t, voice) ==
    IF voice \in DOMAIN t.kept THEN t.kept[voice]
    ELSE [k \in Sliders |->
            IF k = HeadSize /\ ~voice.profile /\ voice.name \in DOMAIN HeadSizeOf
            THEN HeadSizeOf[voice.name] ELSE SliderDefault[k]]

\* Every voice has sliders of its own, kept while the driver lives.
SetVoice(t, voice) ==
    LET kept == [t EXCEPT !.kept = (t.voice :> t.sliders) @@ @]
        v    == IF voice = t.voice THEN t
                ELSE [kept EXCEPT !.voice = voice, !.sliders = SlidersOf(kept, voice)]
        p    == VoiceProfile(v)
        u    == SetVoiceProfile([v EXCEPT !.using = voice.profile, !.active = p], p)
    IN  IF t.init THEN ApplyVoicingTone(u, p) ELSE u

-----------------------------------------------------------------------------
(* __init__.py: languages                                                  *)

Base(lang) == IF BaseOf[lang] = None THEN lang ELSE BaseOf[lang]
Shown(lang) == lang \in ToSet(Languages)

FindMatch(tag) ==
    LET regional == SelectSeq(Languages, LAMBDA l : BaseOf[l] = Base(tag)) IN
    IF Shown(tag) THEN tag
    ELSE IF Shown(Base(tag)) THEN Base(tag)
    ELSE IF regional # <<>> THEN Head(regional)
    ELSE None

\* Windows tells which dialect of NVDA's language, and the language if NVDA's is unknown.
ResolveAutoLang ==
    LET match == FindMatch(UiLang) IN
    IF match = None THEN IF FindMatch(WinLang) # None THEN FindMatch(WinLang) ELSE Fallback
    ELSE IF match = Base(UiLang) /\ BaseOf[WinLang] = match THEN FindMatch(WinLang)
    ELSE match

\* A voice by its tag; else what eSpeak makes of the language, its base or English.
EspeakVoice(lang) ==
    LET listed == SelectSeq(EspeakTags[lang], LAMBDA tag : tag \in EspeakVoices)
        found  == SelectSeq(<<lang, Base(lang), English>>, LAMBDA tag : tag \in EspeakAccepts)
    IN  IF listed # <<>> THEN Head(listed) ELSE IF found # <<>> THEN Head(found) ELSE None

ApplyFrontendLangTag(t, lang) ==
    IF Loads(t, lang) THEN LoadPack(t, lang)
    ELSE IF Loads(t, Base(lang)) THEN LoadPack(t, Base(lang))
    ELSE FrontendSetLanguage(t, Default)

SetLanguage(t, code) ==
    LET chosen == IF code = Auto \/ Shown(code) THEN code ELSE Fallback
        lang   == IF chosen = Auto THEN ResolveAutoLang ELSE chosen
        v      == ApplyFrontendLangTag([t EXCEPT !.language = chosen, !.resolved = lang,
                                                 !.espeak = EspeakVoice(lang)], lang)
    IN  IF v.using /\ v.active # None THEN SetVoiceProfile(v, v.active) ELSE v

\* A new player knows nothing of the tone.
SetSampleRate(t, rate) ==
    IF rate = t.rate THEN t
    ELSE ApplyVoicingTone([t EXCEPT !.rate = rate, !.tone = ToneDefault], VoiceProfile(t))

-----------------------------------------------------------------------------
(* lang_pack_settings.py                                                   *)

PythonSettings(f) == IF f = None THEN Empty ELSE ParseSettings(f)
EffectiveSettings(files, lang) ==
    FoldLeft(LAMBDA acc, name : PythonSettings(files[name]) @@ acc, Empty, Chain(lang))

ReloadLanguagePack(t) == ApplyFrontendLangTag(t, t.resolved)

Upsert(files, lang, k, x) ==
    [files EXCEPT ![lang] = UpsertSetting(IF @ = None THEN <<>> ELSE @, k, x)]

ParseBool(x) == CASE x \in {"true", "yes"} -> "true" [] x \in {"false", "no"} -> "false"
Same(k, old, new) == IF k \in BoolKeys THEN ParseBool(old) = new ELSE old = new

\* What NVDA replays at the start never gets into a file; nor does what is so already.
SetLangPackSetting(t, k, x) ==
    LET cur == EffectiveSettings(t.files, t.resolved) IN
    IF t.suppress \/ (k \in DOMAIN cur /\ Same(k, cur[k], x)) THEN t
    ELSE ReloadLanguagePack([t EXCEPT !.files = Upsert(@, t.resolved, k, x)])

\* The scale's file value is in thousandths; int() rounds three sliders down by one, for
\* what 0.58, 1.14 and 1.16 are in binary.
PitchInflectionScale(x) == LET k == x \div 20 IN IF k \in {29, 57, 58} THEN k - 1 ELSE Within(k, 0, 100)

SetPitchInflectionScale(t, x) ==
    IF x = t.scale THEN t ELSE SetLangPackSetting([t EXCEPT !.scale = x], ScaleKey, 20 * x)

\* The pitch mode was a Boolean once.
PitchMode(x) == CASE x = "true" -> "legacy" [] x = "false" -> "espeak_style" [] OTHER -> x

GetSetting(t, k) ==
    LET cur == EffectiveSettings(t.files, t.resolved) IN
    IF k \notin DOMAIN cur THEN SettingDefault[k]
    ELSE IF k \in BoolKeys THEN ParseBool(cur[k])
    ELSE IF k = PitchKey THEN PitchMode(cur[k])
    ELSE IF k = ScaleKey THEN PitchInflectionScale(cur[k])
    ELSE cur[k]

SetSetting(t, k, x) ==
    IF k = ScaleKey THEN SetPitchInflectionScale(t, x) ELSE SetLangPackSetting(t, k, x)

-----------------------------------------------------------------------------
(* The driver's life, and NVDA's configuration.                            *)

NewDriver(files, phonemes) ==
    [files |-> files, phonemes |-> phonemes, listed |-> DiscoverVoiceProfiles(phonemes),
     voice |-> Preset(Adam), using |-> FALSE, active |-> None,
     language |-> Auto, resolved |-> Fallback, espeak |-> None,
     sliders |-> SliderDefault, kept |-> Empty, scale |-> 29,
     rate |-> CHOOSE r \in Rates : TRUE, init |-> FALSE, suppress |-> TRUE, tone |-> ToneDefault,
     fe |-> [lang |-> None, settings |-> Empty, voices |-> Empty, profile |-> None,
             ex |-> [k \in ExSliders |-> SliderDefault[k]]]]

MigrateConfig(new, old) == IF new # None THEN new ELSE old

\* What NVDA's dialog saves: everything the driver shows.
ShownConf(t) ==
    [voice |-> t.voice, language |-> t.language, sliders |-> t.sliders, rate |-> t.rate,
     settings |-> [i \in DOMAIN SettingOrder |-> GetSetting(t, SettingOrder[i])]]

\* NVDA sets the voice, the language and then the rest, of which only the settings of a
\* pack heed their order; with onlyChanged what is the same is left out, which matters
\* for the language alone.
ParentLoadSettings(t, c, voice, onlyChanged) ==
    LET v == SetVoice(t, voice)
        l == IF onlyChanged /\ c.language = v.language THEN v ELSE SetLanguage(v, c.language)
        k == FoldLeft(LAMBDA acc, i : SetSetting(acc, SettingOrder[i], c.settings[i]),
                      l, [i \in DOMAIN SettingOrder |-> i])
        x == FoldLeft(LAMBDA acc, key : SetSlider(acc, key, c.sliders[key]), k, SetToSeq(Sliders))
    IN  SetSampleRate(x, c.rate)

\* After NVDA replayed its configuration, or fell back to Adam while it did.
ResyncVoice(t, before) ==
    LET v == IF before.profile /\ t.voice = Preset(Adam) THEN [t EXCEPT !.voice = before] ELSE t
        u == IF v.voice.profile THEN [v EXCEPT !.active = v.voice.name]
             ELSE [v EXCEPT !.using = FALSE, !.active = None]
    IN  ApplyVoicingTone(u, VoiceProfile(u))

Loaded(t) ==
    IF conf = None THEN {ResyncVoice(t, t.voice)}
    ELSE {ResyncVoice(ParentLoadSettings(t, conf, voice, onlyChanged), t.voice) :
             voice \in {conf.voice, Preset(Adam)}, onlyChanged \in BOOLEAN}

StoreOf(t) ==
    [frontend |-> [n \in Names |-> FrontendSettings(t.files[n])],
     addon |-> [n \in Names |-> PythonSettings(t.files[n])],
     voices |-> Tree(t.phonemes)]

Become(t) ==
    /\ s' = t
    /\ store' = IF t.files = s.files /\ t.phonemes = s.phonemes THEN store ELSE StoreOf(t)

LoadSettings == (\E t \in Loaded(s) : Become(t)) /\ UNCHANGED <<conf, pending>>

Init ==
    /\ \E files \in StartFiles, phonemes \in StartPhonemes : s = NewDriver(files, phonemes)
    /\ store = StoreOf(s)
    /\ \E old \in {None, OldConf} : conf = MigrateConfig(None, old)
    /\ pending = Empty /\ ops = 0

\* NVDA's loadSettings at the start, before or after the constructor's end.
ReplayConfig == s.suppress /\ LoadSettings /\ UNCHANGED ops

FinishInit ==
    /\ ~s.init
    /\ LET v == IF s.espeak = None THEN SetLanguage(s, s.language) ELSE s
       IN  Become([ApplyVoicingTone(v, VoiceProfile(v)) EXCEPT !.init = TRUE])
    /\ UNCHANGED <<conf, pending, ops>>

EnableLangPackWrites ==
    /\ s.init /\ s.suppress
    /\ Become([s EXCEPT !.suppress = FALSE]) /\ UNCHANGED <<conf, pending, ops>>

\* Everything below is the user's doing, and counted.
Ready == ~s.suppress /\ ops < MaxOps /\ ops' = ops + 1

ChooseVoice ==
    /\ Ready
    /\ \E voice \in {Preset(p) : p \in Presets} \cup {Profile(p) : p \in s.listed} :
          Become(SetVoice(s, voice))
    /\ UNCHANGED <<conf, pending>>

ChooseLanguage ==
    /\ Ready
    /\ \E lang \in ToSet(Languages) \cup {Auto} : Become(SetLanguage(s, lang))
    /\ UNCHANGED <<conf, pending>>

MoveSlider ==
    /\ Ready
    /\ \E k \in Sliders : \E x \in SliderValues[k] : Become(SetSlider(s, k, x))
    /\ UNCHANGED <<conf, pending>>

ChooseSampleRate ==
    /\ Ready /\ \E rate \in Rates : Become(SetSampleRate(s, rate))
    /\ UNCHANGED <<conf, pending>>

ChooseSetting ==
    /\ Ready
    /\ \E k \in ToSet(SettingOrder) : \E x \in Values[k] :
          Become(SetSetting(s, k, IF k = ScaleKey THEN x \div 20 ELSE x))
    /\ UNCHANGED <<conf, pending>>

SaveConfig == Ready /\ conf' = ShownConf(s) /\ UNCHANGED <<s, pending, store>>

\* Escape in NVDA's dialog, or a configuration profile that is switched.
Escape == Ready /\ LoadSettings

\* NVDA starts again, or another synthesizer was in use meanwhile.
Restart ==
    /\ Ready /\ Become(NewDriver(s.files, s.phonemes))
    /\ pending' = Empty /\ UNCHANGED conf

-----------------------------------------------------------------------------
(* langPackSettingsPanel.py                                                *)

Edit ==
    /\ Ready
    /\ \E lang \in Names \ {Auto}, k \in DOMAIN Values : \E x \in Values[k] :
          pending' = (<<lang, k>> :> x) @@ pending
    /\ UNCHANGED <<s, conf, store>>

Save ==
    /\ Ready /\ pending # Empty
    /\ LET write(files, e) == Upsert(files, e[1], e[2], pending[e])
       IN  Become(ReloadLanguagePack(
                    [s EXCEPT !.files = FoldLeft(write, @, SetToSeq(DOMAIN pending))]))
    /\ pending' = Empty /\ UNCHANGED conf

Discard == Ready /\ pending' = Empty /\ UNCHANGED <<s, conf, store>>

\* One language or all of them; edits of what is reset are forgotten.
ResetDefaults ==
    /\ Ready
    /\ \E langs \in {{n} : n \in Names} \cup {Names} :
          LET copied == {n \in langs : FactoryFiles[n] # None}
              reset  == [n \in Names |-> IF n \in copied THEN FactoryFiles[n] ELSE s.files[n]]
              kept   == {e \in DOMAIN pending : e[1] \notin langs}
          IN  /\ copied # {} \/ langs = Names
              /\ Become(ReloadLanguagePack([s EXCEPT !.files = reset]))
              /\ pending' = [e \in kept |-> pending[e]]
    /\ UNCHANGED conf

\* The language as it was chosen, Auto too; a profile is applied again, for its tone.
\* Slip: only the frontend is told.
ReloadFrontendOnly(t) == FrontendSetLanguage(t, t.language)

ReloadVoices(t) ==
    LET v == FrontendSetLanguage(t, t.language) IN
    IF v.voice.profile THEN ApplyVoicingTone(v, v.voice.name) ELSE v

SavedTone(sliders) ==
    [k \in SavedSliders |-> IF k = Tilt THEN Offset(sliders[k]) ELSE sliders[k]]

SaveVoiceProfile ==
    /\ Ready
    /\ Become(ReloadVoices([s EXCEPT !.phonemes =
                SaveVoiceProfileSliders(@, s.voice.name, SavedTone(s.sliders))]))
    /\ UNCHANGED <<conf, pending>>

ImportPhonemeFile ==
    /\ Ready /\ \E f \in ImportFiles : Become(ReloadVoices([s EXCEPT !.phonemes = f]))
    /\ UNCHANGED <<conf, pending>>

\* The words are not modelled here, their loading is.
ImportUserDict == Ready /\ Become(SetLanguage(s, s.language)) /\ UNCHANGED <<conf, pending>>

\* A text editor, on one value of a language's settings.
EditOutside ==
    /\ Ready
    /\ \E n \in {m \in Names : s.files[m] # None} :
          LET at == KeyLineIndex(s.files[n]) IN
          \E k \in DOMAIN at \cap DOMAIN Values : \E x \in Values[k] : Become([s EXCEPT !.files[n][at[k]].val = x])
    /\ UNCHANGED <<conf, pending>>

Next ==
    \/ ReplayConfig \/ FinishInit \/ EnableLangPackWrites
    \/ ChooseVoice \/ ChooseLanguage \/ MoveSlider \/ ChooseSampleRate \/ ChooseSetting
    \/ SaveConfig \/ Escape \/ Restart
    \/ Edit \/ Save \/ Discard \/ ResetDefaults
    \/ SaveVoiceProfile \/ ImportPhonemeFile \/ ImportUserDict
    \/ EditOutside

Spec == Init /\ [][Next]_vars
-----------------------------------------------------------------------------
(* Properties.                                                             *)

ProfileNames == Presets \cup UNION {DiscoverVoiceProfiles(f) : f \in StartPhonemes \cup ImportFiles}
SavedTones == {SavedTone(sliders) : sliders \in
                  {f \in [SavedSliders -> UNION {SliderValues[k] : k \in SavedSliders}] :
                      \A k \in SavedSliders : f[k] \in SliderValues[k]}}
TonePaths == [e \in ProfileNames \X SavedSliders |-> TonePath(e[1], e[2])]

\* The store, as the frontend reads the files and as the add-on does.
AsFrontend == INSTANCE SettingsStore WITH
    settings <- store.frontend, voices <- store.voices, loaded <- s.fe.lang, spoken <- s.fe.settings,
    heard <- s.fe.voices, Tones <- SavedTones, Profiles <- ProfileNames, PathIn <- TonePaths,
    Factory <- [n \in Names |-> IF FactoryFiles[n] = None THEN None ELSE FrontendSettings(FactoryFiles[n])],
    Imports <- {Tree(f) : f \in ImportFiles}

AsAddon == INSTANCE SettingsStore WITH
    settings <- store.addon, voices <- store.voices, loaded <- s.fe.lang, spoken <- s.fe.settings,
    heard <- s.fe.voices, Tones <- SavedTones, Profiles <- ProfileNames, PathIn <- TonePaths,
    Factory <- [n \in Names |-> IF FactoryFiles[n] = None THEN None ELSE PythonSettings(FactoryFiles[n])],
    Imports <- {Tree(f) : f \in ImportFiles}

\* What is not a setting: the other sections of a file and its comments.
Rest(f) == LET tree == FileTree(f) IN [p \in {q \in DOMAIN tree : Head(q) # SettingsKey} |-> tree[p]]
Comments(f) == IF f = None THEN <<>> ELSE SelectSeq(f, LAMBDA l : l.key = Comment)

KeepsTheRest(n) ==
    \/ s'.files[n] = FactoryFiles[n]
    \/ Rest(s'.files[n]) = Rest(s.files[n]) /\ Comments(s'.files[n]) = Comments(s.files[n])

\* The files that two programs read and both of them edit line by line are a store: a
\* setting, an edit of the panel, a saved voice changes what it names and nothing else, in
\* the eyes of both readers, and every load makes the frontend speak with what the files
\* then say. What is not a setting stays, and every file still parses.
ImplementsStore ==
    /\ AsFrontend!Spec /\ AsAddon!Spec
    /\ [][\A n \in Names : KeepsTheRest(n)]_vars
    /\ [](Parses(s.phonemes) /\ \A n \in Names : s.files[n] # None => Parses(s.files[n]))

\* Once the driver is made, what is heard is what NVDA shows, whatever was chosen, loaded,
\* saved, imported, replayed or started again: the frontend has the profile of the voice
\* and the frame sliders, the player the tone that this profile's loaded voice and the
\* sliders make, eSpeak the language's voice, and the pack is the language's; after a
\* saved or imported voice it may be that of Auto, which is the defaults alone.
SoundsAsShown ==
    s.init =>
        /\ s.fe.profile = VoiceProfile(s)
        /\ s.fe.ex = [k \in ExSliders |-> s.sliders[k]]
        /\ s.tone = ToneOf(s.fe.voices, VoiceProfile(s), s.sliders)
        /\ s.espeak = EspeakVoice(s.resolved)
        /\ s.fe.lang = s.resolved \/ (s.fe.lang = Auto /\ s.language = Auto)
==============================================================================
