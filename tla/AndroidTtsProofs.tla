--------------------------- MODULE AndroidTtsProofs ---------------------------
(***************************************************************************)
(* Proofs about AndroidTts, for every number of languages, values, edits,  *)
(* failed loads and chunks.                                                *)
(***************************************************************************)
EXTENDS AndroidTts, TLAPS

Stages == {"dead", "idle", "voice", "check", "reload", "reapply", "advanced", "start", "queue",
           "pull", "take"}

PrefsTypes ==
    /\ stored \in [Kinds -> [Langs -> Values \cup {NoValue}]] /\ storedOff \subseteq Langs
    /\ version \in Nat /\ lastLang \in Langs \cup {NoLang} /\ storedMode \in Modes
    /\ editor \in {"closed", "open"} \cup Langs

ServiceTypes ==
    /\ service \in Stages /\ engine \in Handles
    /\ currentLang \in Langs /\ confirmedNativeLang \in Langs \cup {NoLang}
    /\ cachedOverridesVersion \in Int /\ cachedOverridesVersion <= version
    /\ stopRequested \in BOOLEAN /\ late \in Nat

-----------------------------------------------------------------------------
(* Stopping.                                                               *)

\* A chunk that went out after onStop is the last: the loop looks at the flag before the next.
StopEndsTheLoop ==
    /\ late <= 1 /\ (late = 1 => stopRequested)
    /\ service \in {"dead", "take"} => late = 0

-----------------------------------------------------------------------------
(* The language and the overrides of the native engine.                    *)

\* What the service takes to be loaded is loaded, but after onCreate, which does not look
\* how it went and makes the first request load again.
NativeAsConfirmed ==
    confirmedNativeLang # NoLang /\ cachedOverridesVersion # -1 /\ service # "reload" =>
        /\ engine.lang = confirmedNativeLang
        /\ espeak.owner = "service" => espeak.lang = confirmedNativeLang

\* As long as the version is the one the overrides were read with, they are the ones stored,
\* but for a language whose import is half written.
PackAsStored ==
    /\ confirmedNativeLang # NoLang /\ cachedOverridesVersion = version
    /\ editor # confirmedNativeLang /\ service # "reload"
    => \A k \in {"setting", "dict"} : engine.pack[k] = stored[k][confirmedNativeLang]

\* A request is prepared in its language, or knows that it is not, and has read a version.
RequestConfirmed ==
    /\ service \in {"reload", "reapply", "advanced", "start", "queue"} => cachedOverridesVersion # -1
    /\ service = "reapply" => confirmedNativeLang = currentLang
    /\ service \in {"advanced", "start", "queue"} => confirmedNativeLang \in {NoLang, currentLang}
    /\ service = "dead" => confirmedNativeLang = NoLang

ModeAsRead == service \in {"start", "queue"} /\ Loaded(engine) => engine.mode = spokenMode

TtsInv ==
    /\ PrefsTypes /\ ServiceTypes /\ StopEndsTheLoop
    /\ NativeAsConfirmed /\ PackAsStored /\ RequestConfirmed /\ ModeAsRead
-----------------------------------------------------------------------------
(* Loading a language.                                                     *)

StoredTypes == stored \in [Kinds -> [Langs -> Values \cup {NoValue}]] /\ storedOff \subseteq Langs

\* A stored override goes into the pack, but a setting only under its language and a
\* phoneme only into a pack that is loaded; nothing else changes.
LEMMA MergeFacts ==
    ASSUME StoredTypes, NEW h \in Handles, NEW k \in Kinds, NEW l \in Langs
    PROVE  /\ Merge(h, k, l) \in Handles
           /\ Merge(h, k, l).lang = h.lang /\ Merge(h, k, l).mode = h.mode
           /\ \A other \in Kinds \ {k} : Merge(h, k, l).pack[other] = h.pack[other]
           /\ h.lang = l /\ k # "phoneme" =>
                Merge(h, k, l).pack[k] = IF stored[k][l] = NoValue THEN h.pack[k] ELSE stored[k][l]
<1> DEFINE v == Stored(k, l)
<1>1. v \in Values \cup {NoValue} /\ (k # "phoneme" => v = stored[k][l])
  BY AndroidAssumption DEF Stored, StoredTypes
<1> HIDE DEF v
<1>2. h.pack \in [Kinds -> Values \cup {NoValue}]
  BY DEF Handles
<1>3. CASE Merge(h, k, l) = h /\ (v = NoValue \/ k = "phoneme" \/ h.lang # l)
  BY <1>1, <1>3
<1>4. CASE v # NoValue /\ Merge(h, k, l) = [h EXCEPT !.pack = [h.pack EXCEPT ![k] = v]]
  <2>1. /\ [h.pack EXCEPT ![k] = v] \in [Kinds -> Values \cup {NoValue}]
        /\ [h.pack EXCEPT ![k] = v][k] = v
        /\ \A other \in Kinds \ {k} : [h.pack EXCEPT ![k] = v][other] = h.pack[other]
    BY <1>1, <1>2, <1>4
  <2> QED BY <1>1, <1>4, <2>1 DEF Handles
<1>5. \/ Merge(h, k, l) = h /\ (v = NoValue \/ k = "phoneme" \/ h.lang # l)
      \/ v # NoValue /\ Merge(h, k, l) = [h EXCEPT !.pack = [h.pack EXCEPT ![k] = v]]
  <2>1. CASE v = NoValue
    BY <2>1 DEF Merge, v
  <2>2. CASE v # NoValue /\ k = "dict"
    BY <2>2 DEF Merge, SetDictEntry, v
  <2>3. CASE v # NoValue /\ k # "dict"
    <3>1. Merge(h, k, l) = SetData(h, k, l, v)
      BY <2>3 DEF Merge, v
    <3> QED BY <2>3, <3>1 DEF SetData, Kinds
  <2> QED BY <2>1, <2>2, <2>3
<1> QED BY <1>3, <1>4, <1>5

LEMMA WithOverridesFacts ==
    ASSUME StoredTypes, NEW h \in Handles, NEW l \in Langs
    PROVE  /\ WithOverrides(h, l) \in Handles
           /\ WithOverrides(h, l).lang = h.lang /\ WithOverrides(h, l).mode = h.mode
           /\ h.lang = l => \A k \in {"setting", "dict"} :
                WithOverrides(h, l).pack[k] = IF stored[k][l] = NoValue THEN h.pack[k] ELSE stored[k][l]
<1> DEFINE h1 == Merge(h, "phoneme", l)
           h2 == Merge(h1, "setting", l)
           h3 == Merge(h2, "dict", l)
<1>0. {"phoneme", "setting", "dict"} \subseteq Kinds
  BY DEF Kinds
<1>1. WithOverrides(h, l) = IF l \in storedOff THEN SetDictType(h3, l, FALSE) ELSE h3
  BY DEF WithOverrides
<1> HIDE DEF h1, h2, h3
<1>2. /\ h1 \in Handles /\ h1.lang = h.lang /\ h1.mode = h.mode
      /\ \A k \in {"setting", "dict"} : h1.pack[k] = h.pack[k]
  BY <1>0, MergeFacts DEF h1
<1>3. /\ h2 \in Handles /\ h2.lang = h.lang /\ h2.mode = h.mode /\ h2.pack["dict"] = h.pack["dict"]
      /\ h.lang = l => h2.pack["setting"] = IF stored["setting"][l] = NoValue THEN h.pack["setting"]
                                            ELSE stored["setting"][l]
  BY <1>0, <1>2, MergeFacts DEF h2
<1>4. /\ h3 \in Handles /\ h3.lang = h.lang /\ h3.mode = h.mode /\ h3.pack["setting"] = h2.pack["setting"]
      /\ h.lang = l => h3.pack["dict"] = IF stored["dict"][l] = NoValue THEN h.pack["dict"]
                                         ELSE stored["dict"][l]
  BY <1>0, <1>3, MergeFacts DEF h3
<1>5. /\ SetDictType(h3, l, FALSE) \in Handles /\ SetDictType(h3, l, FALSE).lang = h3.lang
      /\ SetDictType(h3, l, FALSE).mode = h3.mode /\ SetDictType(h3, l, FALSE).pack = h3.pack
  BY <1>4 DEF SetDictType, Handles
<1> QED BY <1>1, <1>3, <1>4, <1>5

LEMMA SetLanguageFacts ==
    ASSUME NEW h \in Handles, NEW l \in Langs, NEW ok \in BOOLEAN
    PROVE  /\ SetLanguage(h, l, ok) \in Handles
           /\ ok => /\ SetLanguage(h, l, ok).lang = l
                    /\ \A k \in {"setting", "dict"} : SetLanguage(h, l, ok).pack[k] = NoValue
<1>1. FilePack \in [Kinds -> Values \cup {NoValue}] /\ \A k \in {"setting", "dict"} : FilePack[k] = NoValue
  BY DEF FilePack, Kinds
<1> QED BY <1>1 DEF Handles, SetLanguage

LEMMA SetPitchModeFacts ==
    ASSUME NEW h \in Handles, NEW m \in Modes
    PROVE  /\ SetPitchMode(h, m) \in Handles /\ SetPitchMode(h, m).lang = h.lang
           /\ SetPitchMode(h, m).pack = h.pack
           /\ Loaded(h) => SetPitchMode(h, m).mode = m
  BY DEF Handles, SetPitchMode

\* setNativeLanguage: the language is confirmed only with the frontend and eSpeak in it and
\* the overrides in the pack.
LEMMA SetNativeLanguageFacts ==
    ASSUME StoredTypes, lastLang \in Langs \cup {NoLang}, NEW h \in Handles, NEW l \in Langs,
           SetNativeLanguage(h, l)
    PROVE  /\ engine' \in Handles /\ lastLang' \in Langs \cup {NoLang}
           /\ confirmedNativeLang' \in {NoLang, l}
           /\ confirmedNativeLang' = l =>
                /\ engine'.lang = l /\ espeak'.lang = l
                /\ \A k \in {"setting", "dict"} : engine'.pack[k] = stored[k][l]
<1>1. PICK espeakOk \in BOOLEAN, frontendOk \in BOOLEAN :
        /\ espeak' = IF espeakOk THEN Voice(l, "service") ELSE espeak
        /\ IF espeakOk /\ frontendOk
           THEN /\ engine' = WithOverrides(SetLanguage(h, l, TRUE), l)
                /\ confirmedNativeLang' = l /\ lastLang' = l
           ELSE /\ engine' = SetLanguage(h, l, frontendOk)
                /\ confirmedNativeLang' = NoLang /\ lastLang' = lastLang
  BY DEF SetNativeLanguage
<1>2. NoLang # l
  BY HandleAssumption
<1>3. CASE espeakOk /\ frontendOk
  <2> DEFINE loaded == SetLanguage(h, l, TRUE)
  <2>1. loaded \in Handles /\ loaded.lang = l /\ \A k \in {"setting", "dict"} : loaded.pack[k] = NoValue
    BY SetLanguageFacts
  <2>2. /\ engine' = WithOverrides(loaded, l) /\ confirmedNativeLang' = l /\ lastLang' = l
        /\ espeak' = Voice(l, "service")
    BY <1>1, <1>3
  <2> HIDE DEF loaded
  <2>3. /\ engine' \in Handles /\ engine'.lang = l
        /\ \A k \in {"setting", "dict"} :
              engine'.pack[k] = IF stored[k][l] = NoValue THEN loaded.pack[k] ELSE stored[k][l]
    BY <2>1, <2>2, WithOverridesFacts
  <2> QED BY <2>1, <2>2, <2>3 DEF Voice
<1>4. CASE ~(espeakOk /\ frontendOk)
  <2>1. engine' = SetLanguage(h, l, frontendOk) /\ confirmedNativeLang' = NoLang /\ lastLang' = lastLang
    BY <1>1, <1>4
  <2> QED BY <1>2, <2>1, SetLanguageFacts
<1> QED BY <1>3, <1>4

-----------------------------------------------------------------------------
(* The steps.                                                              *)

LEMMA InitTts == Init => TtsInv
<1> SUFFICES ASSUME Init PROVE TtsInv
  OBVIOUS
<1> USE AndroidAssumption
<1>1. /\ service = "dead" /\ confirmedNativeLang = NoLang /\ late = 0 /\ stopRequested = FALSE
      /\ cachedOverridesVersion = -1 /\ version = 0 /\ editor = "closed" /\ lastLang = NoLang
      /\ currentLang = English /\ storedOff = {} /\ storedMode \in Modes
  BY DEF Init
<1>2. stored \in [Kinds -> [Langs -> Values \cup {NoValue}]]
  BY DEF Init
<1>3. engine \in Handles
  BY DEF Init, NewHandle, Handles, FilePack
<1>4. PrefsTypes
  BY <1>1, <1>2 DEF PrefsTypes
<1>5. ServiceTypes
  <2>1. currentLang \in Langs /\ confirmedNativeLang \in Langs \cup {NoLang} /\ service \in Stages
    BY <1>1 DEF Stages
  <2>2. cachedOverridesVersion \in Int /\ cachedOverridesVersion <= version
    BY <1>1
  <2>3. stopRequested \in BOOLEAN
    BY <1>1
  <2>4. late \in Nat
    BY <1>1
  <2> QED BY <1>3, <2>1, <2>2, <2>3, <2>4 DEF ServiceTypes
<1> QED BY <1>1, <1>4, <1>5
        DEF TtsInv, StopEndsTheLoop, NativeAsConfirmed, PackAsStored, RequestConfirmed, ModeAsRead

\* The service and its engine are gone; what it knew of the language goes with them.
LEMMA GoneKeeps ==
    ASSUME TtsInv, OnDestroy \/ Killed
    PROVE  TtsInv'
<1> USE AndroidAssumption
<1>1. /\ service' = "dead" /\ confirmedNativeLang' = NoLang /\ late' = 0 /\ stopRequested' = FALSE
      /\ cachedOverridesVersion' = -1 /\ currentLang' = English /\ engine' = NewHandle
      /\ UNCHANGED prefsVars /\ editor' \in {editor, "closed"}
  BY DEF OnDestroy, Killed, Gone, editorVars
<1>2. engine' \in Handles
  BY <1>1 DEF NewHandle, Handles, FilePack
<1>3. PrefsTypes'
  BY <1>1 DEF TtsInv, PrefsTypes, prefsVars
<1>4. ServiceTypes'
  <2>1. currentLang' \in Langs /\ confirmedNativeLang' \in Langs \cup {NoLang} /\ service' \in Stages
    BY <1>1 DEF Stages
  <2>2. version' \in Nat
    BY <1>1 DEF TtsInv, PrefsTypes, prefsVars
  <2>3. cachedOverridesVersion' \in Int /\ cachedOverridesVersion' <= version'
    BY <1>1, <2>2
  <2>4. stopRequested' \in BOOLEAN
    BY <1>1
  <2>5. late' \in Nat
    BY <1>1
  <2> QED BY <1>2, <2>1, <2>3, <2>4, <2>5 DEF ServiceTypes
<1> QED BY <1>1, <1>3, <1>4
        DEF TtsInv, StopEndsTheLoop, NativeAsConfirmed, PackAsStored, RequestConfirmed, ModeAsRead

LEMMA OnCreateKeeps ==
    ASSUME TtsInv, OnCreate
    PROVE  TtsInv'
<1>1. /\ service = "dead" /\ service' = "idle" /\ cachedOverridesVersion' = -1 /\ stopRequested' = FALSE
      /\ currentLang' = IF lastLang = NoLang THEN English ELSE lastLang
      /\ UNCHANGED <<settings, editorVars, late>>
  BY DEF OnCreate
<1>2. /\ lastLang \in Langs \cup {NoLang} /\ StoredTypes /\ version \in Nat /\ late = 0 /\ English \in Langs
      /\ currentLang' \in Langs
  BY <1>1, AndroidAssumption DEF TtsInv, PrefsTypes, StopEndsTheLoop, StoredTypes
<1>3. /\ engine' \in Handles /\ confirmedNativeLang' \in Langs \cup {NoLang}
      /\ lastLang' \in Langs \cup {NoLang}
  <2>1. PICK ok \in BOOLEAN :
          \/ /\ currentLang' # English
             /\ SetNativeLanguage(SetLanguage(NewHandle, English, ok), currentLang')
          \/ /\ engine' = SetLanguage(NewHandle, English, ok)
             /\ confirmedNativeLang' = English /\ UNCHANGED lastLang
    BY DEF OnCreate
  <2>2. NewHandle \in Handles
    BY DEF NewHandle, Handles, FilePack
  <2> DEFINE h == SetLanguage(NewHandle, English, ok)
  <2>3. h \in Handles
    BY <1>2, <2>2, SetLanguageFacts
  <2>4. ASSUME NEW l \in Langs, SetNativeLanguage(h, l)
        PROVE  /\ engine' \in Handles /\ confirmedNativeLang' \in Langs \cup {NoLang}
               /\ lastLang' \in Langs \cup {NoLang}
    BY <1>2, <2>3, <2>4, SetNativeLanguageFacts
  <2>5. \A l \in Langs : currentLang' = l /\ SetNativeLanguage(h, currentLang') => SetNativeLanguage(h, l)
    BY DEF SetNativeLanguage
  <2> QED BY <1>2, <2>1, <2>3, <2>4, <2>5
<1>4. PrefsTypes'
  <2>1. UNCHANGED <<stored, storedOff, version, storedMode, editor>>
    BY <1>1 DEF settings, editorVars
  <2> QED BY <1>3, <2>1 DEF TtsInv, PrefsTypes
<1>5. ServiceTypes'
  <2>1. cachedOverridesVersion' \in Int /\ cachedOverridesVersion' <= version'
    <3>1. cachedOverridesVersion' = -1 /\ version' = version
      BY <1>1 DEF settings
    <3> QED BY <1>2, <3>1
  <2>2. service' \in Stages /\ stopRequested' \in BOOLEAN
    BY <1>1 DEF Stages
  <2>3. late' \in Nat /\ currentLang' \in Langs
    BY <1>1, <1>2
  <2> QED BY <1>3, <2>1, <2>2, <2>3 DEF ServiceTypes
<1>6. StopEndsTheLoop' /\ RequestConfirmed' /\ ModeAsRead'
  BY <1>1, <1>2 DEF StopEndsTheLoop, RequestConfirmed, ModeAsRead
<1>7. NativeAsConfirmed' /\ PackAsStored'
  BY <1>1, <1>2 DEF NativeAsConfirmed, PackAsStored, settings
<1> QED BY <1>4, <1>5, <1>6, <1>7 DEF TtsInv

\* What the editor writes has its version with it, but for the import's first write and the
\* overrides that are applied again with every request.
LEMMA EditorKeeps ==
    ASSUME TtsInv, Editor
    PROVE  TtsInv'
<1>1. UNCHANGED serviceVars
  BY DEF Editor, OpenEditor, CloseEditor, SelectLanguage, EditSetting, EditDict, ImportClears,
     ImportSaves, EditPhoneme, EditDictType, EditMode
<1> USE DEF serviceVars, stopVars
<1>2. /\ StoredTypes /\ version \in Nat /\ storedMode \in Modes /\ editor \in {"closed", "open"} \cup Langs
      /\ cachedOverridesVersion \in Int /\ cachedOverridesVersion <= version
      /\ confirmedNativeLang \in Langs \cup {NoLang}
  BY DEF TtsInv, PrefsTypes, ServiceTypes, StoredTypes
<1>3. "setting" \in Kinds /\ "dict" \in Kinds /\ "phoneme" \in Kinds /\ "setting" # "phoneme"
  BY DEF Kinds
<1>4. /\ StopEndsTheLoop' /\ RequestConfirmed' /\ ModeAsRead'
  BY <1>1 DEF TtsInv, StopEndsTheLoop, RequestConfirmed, ModeAsRead, Loaded
<1>5. NativeAsConfirmed'
  <2>1. espeak' = espeak \/ espeak'.owner = "editor"
    BY DEF Editor, OpenEditor, CloseEditor, SelectLanguage, EditSetting, EditDict, ImportClears,
       ImportSaves, EditPhoneme, EditDictType, EditMode, Reload, Voice
  <2> QED BY <1>1, <2>1 DEF TtsInv, NativeAsConfirmed
<1>6. ASSUME NEW k \in Kinds, NEW l \in Langs, NEW v \in Values \cup {NoValue},
             stored' = [stored EXCEPT ![k] = [stored[k] EXCEPT ![l] = v]]
      PROVE  /\ stored' \in [Kinds -> [Langs -> Values \cup {NoValue}]]
             /\ \A other \in Kinds \ {k} : stored'[other] = stored[other]
             /\ \A m \in Langs \ {l} : stored'[k][m] = stored[k][m]
  <2>1. stored[k] \in [Langs -> Values \cup {NoValue}]
    BY <1>2 DEF StoredTypes
  <2>2. /\ [stored[k] EXCEPT ![l] = v] \in [Langs -> Values \cup {NoValue}]
        /\ \A m \in Langs \ {l} : [stored[k] EXCEPT ![l] = v][m] = stored[k][m]
    BY <2>1
  <2>3. stored'[k] = [stored[k] EXCEPT ![l] = v]
    BY <1>2, <1>6 DEF StoredTypes
  <2> QED BY <1>2, <1>6, <2>2, <2>3 DEF StoredTypes
<1>7. ASSUME stored' \in [Kinds -> [Langs -> Values \cup {NoValue}]], storedOff' \subseteq Langs,
             storedMode' \in Modes, editor' \in {"closed", "open"} \cup Langs,
             \/ version' = version + 1
             \/ /\ version' = version
                /\ editor # confirmedNativeLang \/ editor' = editor
                /\ \A k \in {"setting", "dict"}, l \in Langs : stored'[k][l] = stored[k][l] \/ editor' = l
      PROVE  TtsInv'
  <2>1. PrefsTypes' /\ ServiceTypes'
    BY <1>1, <1>2, <1>7 DEF TtsInv, PrefsTypes, ServiceTypes
  <2>2. PackAsStored'
    <3>1. CASE version' = version + 1
      BY <1>1, <1>2, <3>1 DEF PackAsStored
    <3>2. CASE version' = version
      BY <1>1, <1>2, <1>7, <3>2 DEF TtsInv, PackAsStored
    <3> QED BY <1>7, <3>1, <3>2
  <2> QED BY <1>4, <1>5, <2>1, <2>2 DEF TtsInv
<1>8. CASE OpenEditor \/ CloseEditor \/ SelectLanguage
  <2>1. UNCHANGED settings /\ editor' \in {"closed", "open"} /\ (editor \in {"closed", "open"})
    BY <1>8 DEF OpenEditor, CloseEditor, SelectLanguage, editorVars
  <2>2. editor # confirmedNativeLang \/ confirmedNativeLang = NoLang
    BY <1>2, <2>1, AndroidAssumption
  <2>3. CASE editor # confirmedNativeLang
    BY <1>2, <1>7, <2>1, <2>3 DEF settings, StoredTypes
  <2>4. CASE confirmedNativeLang = NoLang
    <3>1. PrefsTypes' /\ ServiceTypes'
      BY <1>1, <1>2, <2>1 DEF TtsInv, PrefsTypes, ServiceTypes, settings
    <3>2. PackAsStored'
      BY <1>1, <2>4 DEF PackAsStored
    <3> QED BY <1>4, <1>5, <3>1, <3>2 DEF TtsInv
  <2> QED BY <2>2, <2>3, <2>4
<1>9. CASE EditSetting \/ ImportSaves
  <2>1. \E l \in Langs, v \in Values \cup {NoValue} : stored' = [stored EXCEPT !["setting"] = [stored["setting"] EXCEPT ![l] = v]]
    BY <1>9 DEF EditSetting, ImportSaves
  <2>2. version' = version + 1 /\ UNCHANGED <<storedOff, storedMode>> /\ editor' \in {editor, "open"}
    BY <1>9 DEF EditSetting, ImportSaves
  <2> QED BY <1>2, <1>3, <1>6, <1>7, <2>1, <2>2 DEF StoredTypes
<1>10. CASE EditDict
  <2>1. \E l \in Langs, v \in Values \cup {NoValue} : stored' = [stored EXCEPT !["dict"] = [stored["dict"] EXCEPT ![l] = v]]
    BY <1>10 DEF EditDict
  <2>2. version' = version + 1 /\ UNCHANGED <<storedOff, storedMode, editor>>
    BY <1>10 DEF EditDict
  <2> QED BY <1>2, <1>3, <1>6, <1>7, <2>1, <2>2 DEF StoredTypes
<1>11. CASE ImportClears
  <2>1. /\ editor = "open" /\ editor' \in Langs /\ UNCHANGED <<version, storedOff, storedMode>>
        /\ stored' = [stored EXCEPT !["setting"] = [stored["setting"] EXCEPT ![editor'] = NoValue]]
    BY <1>11 DEF ImportClears, Edit
  <2>2. /\ stored' \in [Kinds -> [Langs -> Values \cup {NoValue}]]
        /\ stored'["dict"] = stored["dict"]
        /\ \A m \in Langs : m # editor' => stored'["setting"][m] = stored["setting"][m]
    <3>1. PICK l \in Langs : l = editor'
      BY <2>1
    <3>2. stored' = [stored EXCEPT !["setting"] = [stored["setting"] EXCEPT ![l] = NoValue]]
      BY <2>1, <3>1
    <3> QED BY <1>3, <1>6, <3>1, <3>2 DEF Kinds
  <2>3. \A k \in {"setting", "dict"}, l \in Langs : stored'[k][l] = stored[k][l] \/ editor' = l
    BY <2>2
  <2>4. CASE confirmedNativeLang = NoLang
    <3>1. PrefsTypes' /\ ServiceTypes'
      BY <1>1, <1>2, <2>1, <2>2 DEF TtsInv, PrefsTypes, ServiceTypes, StoredTypes
    <3>2. PackAsStored'
      BY <1>1, <2>4 DEF PackAsStored
    <3> QED BY <1>4, <1>5, <3>1, <3>2 DEF TtsInv
  <2>5. CASE confirmedNativeLang # NoLang
    <3>1. editor # confirmedNativeLang
      BY <1>2, <2>1, <2>5, AndroidAssumption
    <3> QED BY <1>2, <1>7, <2>1, <2>2, <2>3, <3>1 DEF StoredTypes
  <2> QED BY <2>4, <2>5
<1>12. CASE EditPhoneme \/ EditDictType \/ EditMode
  <2>1. UNCHANGED <<version, editor>> /\ storedOff' \subseteq Langs /\ storedMode' \in Modes
    BY <1>2, <1>12 DEF EditPhoneme, EditDictType, EditMode, StoredTypes
  <2>2. /\ stored' \in [Kinds -> [Langs -> Values \cup {NoValue}]]
        /\ \A k \in {"setting", "dict"} : stored'[k] = stored[k]
    <3>1. CASE EditPhoneme
      <4>1. PICK v \in Values \cup {NoValue} :
              stored' = [stored EXCEPT !["phoneme"] = [stored["phoneme"] EXCEPT ![English] = v]]
        BY <3>1 DEF EditPhoneme
      <4>2. English \in Langs
        BY AndroidAssumption
      <4>3. {"setting", "dict"} \subseteq Kinds \ {"phoneme"}
        BY DEF Kinds
      <4> QED BY <1>3, <1>6, <4>1, <4>2, <4>3
    <3>2. CASE EditDictType \/ EditMode
      BY <1>2, <3>2 DEF EditDictType, EditMode, StoredTypes
    <3> QED BY <1>12, <3>1, <3>2
  <2> QED BY <1>2, <1>7, <2>1, <2>2
<1> QED BY <1>8, <1>9, <1>10, <1>11, <1>12 DEF Editor

\* The steps of the service that load nothing.
LEMMA RequestKeeps ==
    ASSUME TtsInv,
           Begin \/ CheckVersion \/ Advanced \/ OnLoadVoiceSettings \/ Start \/ Queue \/ Pull \/ Take
           \/ OnStop \/ OnStopNative \/ UNCHANGED vars
    PROVE  TtsInv'
<1> USE DEF langVars, stopVars, Stages
<1>1. /\ UNCHANGED <<settings, editor, espeak, confirmedNativeLang, lastLang>>
      /\ engine' = engine \/ engine' = ApplyAdvanced(engine) \/ \E ok \in BOOLEAN : engine' = QueueIPA(engine, ok)
  BY DEF Begin, CheckVersion, Advanced, OnLoadVoiceSettings, Start, Queue,
        SynthesizeClauses, Pull, Take, OnStop,
     OnStopNative, vars, prefsVars, editorVars, settings
<1>2. /\ engine \in Handles /\ storedMode \in Modes /\ version \in Nat
      /\ confirmedNativeLang \in Langs \cup {NoLang}
      /\ cachedOverridesVersion \in Int /\ cachedOverridesVersion <= version
      /\ late \in Nat /\ currentLang \in Langs /\ stopRequested \in BOOLEAN /\ service \in Stages
  BY DEF TtsInv, PrefsTypes, ServiceTypes
<1>3. /\ engine' \in Handles
      /\ Loaded(engine) => engine'.lang = engine.lang /\ engine'.pack = engine.pack
  <2>1. CASE engine' = ApplyAdvanced(engine)
    BY <1>2, <2>1, SetPitchModeFacts DEF ApplyAdvanced
  <2>2. ASSUME NEW ok \in BOOLEAN, engine' = QueueIPA(engine, ok)
        PROVE  engine' \in Handles /\ (Loaded(engine) => engine' = engine)
    BY <1>2, <2>2 DEF QueueIPA, Handles, FilePack
  <2> QED BY <1>1, <1>2, <2>1, <2>2
<1>4. PrefsTypes'
  BY <1>1 DEF TtsInv, PrefsTypes, settings
\* Each step leaves the version it knows, or takes the one the preferences have.
<1>5. /\ service' \in Stages /\ currentLang' \in Langs /\ version' = version
      /\ \/ /\ cachedOverridesVersion' = cachedOverridesVersion
            /\ service # "reload" \/ service' = "reload"
         \/ /\ service = "check" /\ cachedOverridesVersion' = version
            /\ service' = IF confirmedNativeLang # currentLang \/ version # cachedOverridesVersion
                          THEN "reload" ELSE "reapply"
  BY <1>2 DEF Begin, CheckVersion, Advanced, OnLoadVoiceSettings, Start, Queue,
        SynthesizeClauses, Pull, Take, OnStop,
     OnStopNative, vars, prefsVars
<1>6. StopEndsTheLoop' /\ late' \in Nat /\ stopRequested' \in BOOLEAN
  <2>1. CASE Begin
    <3>1. stopRequested' = FALSE /\ late' = 0
      BY <2>1 DEF Begin
    <3>2. late' \in Nat /\ late' <= 1 /\ late' # 1
      BY <3>1
    <3>3. stopRequested' \in BOOLEAN
      BY <3>1
    <3> QED BY <3>1, <3>2, <3>3 DEF StopEndsTheLoop
  <2>2. CASE Take
    <3>1. /\ service = "take" /\ service' \in {"idle", "pull"} /\ UNCHANGED stopRequested
          /\ late' = late \/ (stopRequested /\ late' = late + 1)
      BY <2>2 DEF Take
    <3>2. late = 0
      BY <3>1 DEF TtsInv, StopEndsTheLoop
    <3> QED BY <1>2, <3>1, <3>2 DEF StopEndsTheLoop
  <2>3. CASE Pull
    <3>1. /\ UNCHANGED <<stopRequested, late>> /\ service' \in {"idle", "take"}
          /\ service' = "take" => ~stopRequested
      BY <2>3 DEF Pull
    <3> QED BY <1>2, <3>1 DEF TtsInv, StopEndsTheLoop
  <2>4. CASE OnStop
    <3>1. stopRequested' = TRUE /\ UNCHANGED <<late, service>>
      BY <2>4 DEF OnStop
    <3> QED BY <1>2, <3>1 DEF TtsInv, StopEndsTheLoop
  <2>5. CASE OnStopNative \/ UNCHANGED vars
    <3>1. UNCHANGED <<late, service, stopRequested>>
      BY <2>5 DEF OnStopNative, vars
    <3> QED BY <1>2, <3>1 DEF TtsInv, StopEndsTheLoop
  <2>6. CASE CheckVersion \/ Advanced \/ OnLoadVoiceSettings \/ Start \/ Queue
    <3>1. UNCHANGED <<late, stopRequested>> /\ service' \notin {"dead", "take"}
      BY <2>6 DEF CheckVersion, Advanced, OnLoadVoiceSettings, Start, Queue,
        SynthesizeClauses
    <3> QED BY <1>2, <3>1 DEF TtsInv, StopEndsTheLoop
  <2> QED BY <2>1, <2>2, <2>3, <2>4, <2>5, <2>6
<1>7. ServiceTypes'
  <2>1. cachedOverridesVersion' \in Int /\ cachedOverridesVersion' <= version'
    BY <1>2, <1>5
  <2> QED BY <1>1, <1>2, <1>3, <1>5, <1>6, <2>1 DEF ServiceTypes
<1>8. NativeAsConfirmed'
  <2> SUFFICES ASSUME confirmedNativeLang # NoLang, cachedOverridesVersion' # -1, service' # "reload"
               PROVE  /\ engine'.lang = confirmedNativeLang
                      /\ espeak.owner = "service" => espeak.lang = confirmedNativeLang
    BY <1>1 DEF NativeAsConfirmed
  <2>1. cachedOverridesVersion # -1 /\ service # "reload"
    BY <1>2, <1>5
  <2>2. /\ engine.lang = confirmedNativeLang
        /\ espeak.owner = "service" => espeak.lang = confirmedNativeLang
    BY <2>1 DEF TtsInv, NativeAsConfirmed
  <2> QED BY <1>3, <2>2 DEF Loaded
<1>9. PackAsStored'
  <2> SUFFICES ASSUME confirmedNativeLang # NoLang, cachedOverridesVersion' = version,
                      editor # confirmedNativeLang, service' # "reload"
               PROVE  \A k \in {"setting", "dict"} : engine'.pack[k] = stored[k][confirmedNativeLang]
    BY <1>1, <1>5 DEF PackAsStored, settings
  <2>1. cachedOverridesVersion = version /\ service # "reload" /\ cachedOverridesVersion # -1
    BY <1>2, <1>5
  <2>2. engine.lang = confirmedNativeLang
    BY <2>1 DEF TtsInv, NativeAsConfirmed
  <2>3. engine'.pack = engine.pack
    BY <1>3, <2>2 DEF Loaded
  <2> QED BY <2>1, <2>3 DEF TtsInv, PackAsStored
<1>10. RequestConfirmed'
  <2>1. CASE Begin
    BY <1>1, <2>1 DEF Begin, RequestConfirmed
  <2>2. CASE CheckVersion
    <3>1. cachedOverridesVersion' # -1
      BY <1>2, <2>2 DEF CheckVersion
    <3> QED BY <1>1, <2>2, <3>1 DEF CheckVersion, RequestConfirmed
  <2>3. CASE Advanced \/ Start \/ Queue
    <3>1. service \in {"advanced", "start", "queue"} /\ UNCHANGED <<currentLang, cachedOverridesVersion>>
          /\ service' \in {"start", "queue", "pull", "idle"}
      BY <2>3 DEF Advanced, Start, Queue, SynthesizeClauses
    <3> QED BY <1>1, <3>1 DEF TtsInv, RequestConfirmed
  <2>4. CASE OnLoadVoiceSettings \/ Pull \/ Take
    BY <2>4 DEF OnLoadVoiceSettings, Pull, Take, RequestConfirmed
  <2>5. CASE OnStop \/ OnStopNative \/ UNCHANGED vars
    <3>1. UNCHANGED <<service, currentLang, confirmedNativeLang, cachedOverridesVersion>>
      BY <1>1, <2>5 DEF OnStop, OnStopNative, vars
    <3> QED BY <3>1 DEF TtsInv, RequestConfirmed
  <2> QED BY <2>1, <2>2, <2>3, <2>4, <2>5
<1>11. ModeAsRead'
  <2>1. CASE Begin \/ CheckVersion \/ OnLoadVoiceSettings \/ Queue \/ Pull \/ Take
    BY <2>1 DEF Begin, CheckVersion, OnLoadVoiceSettings, Queue, Pull, Take, ModeAsRead
  <2>2. CASE Advanced
    <3>1. engine' = SetPitchMode(engine, storedMode) /\ spokenMode' = storedMode
      BY <2>2 DEF Advanced, ApplyAdvanced
    <3>2. Loaded(engine') => engine'.mode = storedMode
      BY <1>2, <3>1, SetPitchModeFacts DEF Loaded
    <3>3. Loaded(engine)' <=> Loaded(engine')
      BY DEF Loaded
    <3> QED BY <3>1, <3>2, <3>3 DEF ModeAsRead
  <2>3. CASE Start
    <3>1. service = "start" /\ UNCHANGED <<engine, spokenMode>>
      BY <2>3 DEF Start
    <3> QED BY <3>1 DEF TtsInv, ModeAsRead, Loaded
  <2>4. CASE OnStop \/ OnStopNative \/ UNCHANGED vars
    <3>1. UNCHANGED <<service, engine, spokenMode>>
      BY <2>4 DEF OnStop, OnStopNative, vars
    <3> QED BY <3>1 DEF TtsInv, ModeAsRead, Loaded
  <2> QED BY <2>1, <2>2, <2>3, <2>4
<1> QED BY <1>4, <1>6, <1>7, <1>8, <1>9, <1>10, <1>11 DEF TtsInv

\* The steps that load a language, or apply the overrides again.
LEMMA LoadKeeps ==
    ASSUME TtsInv, Load \/ OnLoadLanguage \/ OnLoadVoice
    PROVE  TtsInv'
<1> USE DEF stopVars, Stages
<1>1. /\ service \in {"reload", "reapply", "idle"} /\ service' \in {"advanced", "idle", "voice"}
      /\ service = "idle" <=> service' # "advanced"
      /\ UNCHANGED <<stored, storedOff, version, storedMode, editor, late, stopRequested,
                     cachedOverridesVersion>>
  BY DEF Load, OnLoadLanguage, OnLoadVoice, settings, editorVars
<1>2. /\ StoredTypes /\ lastLang \in Langs \cup {NoLang} /\ engine \in Handles /\ currentLang \in Langs
      /\ version \in Nat
  BY DEF TtsInv, PrefsTypes, ServiceTypes, StoredTypes
<1>3. NoLang \notin Langs
  BY HandleAssumption
\* Either way the pack of a language that is confirmed is the stored one.
<1>4. /\ currentLang' \in Langs /\ engine' \in Handles /\ lastLang' \in Langs \cup {NoLang}
      /\ confirmedNativeLang' \in {NoLang, currentLang'}
      /\ confirmedNativeLang' # NoLang /\ cachedOverridesVersion # -1 =>
           /\ engine'.lang = confirmedNativeLang'
           /\ espeak'.owner = "service" => espeak'.lang = confirmedNativeLang'
      /\ confirmedNativeLang' # NoLang /\ cachedOverridesVersion = version /\ editor # confirmedNativeLang' =>
           \A k \in {"setting", "dict"} : engine'.pack[k] = stored[k][confirmedNativeLang']
  <2>1. CASE \E l \in Langs : currentLang' = l /\ SetNativeLanguage(engine, l)
    <3>1. PICK l \in Langs : currentLang' = l /\ SetNativeLanguage(engine, l)
      BY <2>1
    <3> QED BY <1>2, <3>1, SetNativeLanguageFacts
  <2>2. CASE /\ service = "reapply" /\ engine' = WithOverrides(engine, currentLang)
             /\ UNCHANGED <<espeak, confirmedNativeLang, lastLang, currentLang>>
    <3>1. confirmedNativeLang = currentLang /\ service # "reload"
      BY <2>2 DEF TtsInv, RequestConfirmed
    <3>2. /\ engine' \in Handles /\ engine'.lang = engine.lang
          /\ engine.lang = currentLang => \A k \in {"setting", "dict"} :
               engine'.pack[k] = IF stored[k][currentLang] = NoValue THEN engine.pack[k]
                                 ELSE stored[k][currentLang]
      BY <1>2, <2>2, WithOverridesFacts
    <3>3. confirmedNativeLang # NoLang /\ cachedOverridesVersion # -1 =>
            /\ engine.lang = confirmedNativeLang
            /\ espeak.owner = "service" => espeak.lang = confirmedNativeLang
      BY <3>1 DEF TtsInv, NativeAsConfirmed
    <3>4. ASSUME cachedOverridesVersion = version, editor # confirmedNativeLang
          PROVE  \A k \in {"setting", "dict"} : engine'.pack[k] = stored[k][confirmedNativeLang]
      <4>1. cachedOverridesVersion # -1 /\ confirmedNativeLang # NoLang
        BY <1>2, <1>3, <3>1, <3>4
      <4>2. engine.lang = currentLang
        BY <3>1, <3>3, <4>1
      <4>3. \A k \in {"setting", "dict"} : engine.pack[k] = stored[k][confirmedNativeLang]
        BY <3>1, <3>4, <4>1 DEF TtsInv, PackAsStored
      <4> QED BY <3>1, <3>2, <4>2, <4>3
    <3> QED BY <1>2, <2>2, <3>1, <3>2, <3>3, <3>4
  <2>3. CASE Load
    <3>1. currentLang' = currentLang
      BY <2>3 DEF Load
    <3>2. CASE service = "reload" /\ SetNativeLanguage(engine, currentLang)
      BY <1>2, <2>1, <3>1, <3>2
    <3> QED BY <2>2, <2>3, <3>1, <3>2 DEF Load
  <2> QED BY <2>1, <2>3 DEF OnLoadLanguage, OnLoadVoice
<1>5. PrefsTypes'
  BY <1>1, <1>4 DEF TtsInv, PrefsTypes
<1>6. ServiceTypes'
  BY <1>1, <1>4 DEF TtsInv, ServiceTypes
<1>7. StopEndsTheLoop' /\ ModeAsRead'
  BY <1>1 DEF TtsInv, StopEndsTheLoop, ModeAsRead
<1>8. NativeAsConfirmed'
  BY <1>1, <1>4 DEF NativeAsConfirmed
<1>9. PackAsStored'
  BY <1>1, <1>4 DEF PackAsStored
<1>10. RequestConfirmed'
  BY <1>1, <1>4 DEF TtsInv, RequestConfirmed
<1> QED BY <1>5, <1>6, <1>7, <1>8, <1>9, <1>10 DEF TtsInv

LEMMA TtsInductive == Spec => []TtsInv
<1>1. TtsInv /\ [Next]_vars => TtsInv'
  BY GoneKeeps, OnCreateKeeps, EditorKeeps, RequestKeeps, LoadKeeps DEF Next, Synthesis
<1> QED BY <1>1, InitTts, PTL DEF Spec

-----------------------------------------------------------------------------
(* The theorems.                                                           *)

\* After onStop one chunk at most is still handed over, whatever nativeQueueText does to the
\* native flag.
THEOREM StopsPromptly == Spec => []StopIsPrompt
<1>1. TtsInv => StopIsPrompt
  BY DEF TtsInv, StopEndsTheLoop, StopIsPrompt
<1> QED BY <1>1, TtsInductive, PTL

\* A request is spoken in a language that is not loaded only while the service knows: the next
\* one loads it again.
THEOREM FailuresAreKnown == Spec => []FailedLoadIsRetried
<1>1. TtsInv => FailedLoadIsRetried
  <2> SUFFICES ASSUME TtsInv, service = "queue", confirmedNativeLang # NoLang
               PROVE  /\ engine.lang = currentLang
                      /\ espeak.owner = "service" => espeak.lang = currentLang
    BY DEF FailedLoadIsRetried
  <2>1. confirmedNativeLang = currentLang /\ cachedOverridesVersion # -1
    BY DEF TtsInv, RequestConfirmed
  <2> QED BY <2>1 DEF TtsInv, NativeAsConfirmed
<1> QED BY <1>1, TtsInductive, PTL

\* A request is spoken in the pitch mode and from the overrides that are stored, those taken
\* back included, unless its language did not load or the editor has written since.
THEOREM SpokenAsEdited == Spec => []SpokenAsStored
<1>1. TtsInv => SpokenAsStored
  <2> SUFFICES ASSUME TtsInv, service = "queue"
               PROVE  /\ Loaded(engine) => engine.mode = spokenMode
                      /\ (/\ editor # currentLang
                          /\ confirmedNativeLang = currentLang /\ cachedOverridesVersion = version)
                         => \A k \in {"setting", "dict"} : engine.pack[k] = Stored(k, currentLang)
    BY DEF SpokenAsStored
  <2>1. Loaded(engine) => engine.mode = spokenMode
    BY DEF TtsInv, ModeAsRead
  <2>2. ASSUME editor # currentLang, confirmedNativeLang = currentLang, cachedOverridesVersion = version
        PROVE  \A k \in {"setting", "dict"} : engine.pack[k] = Stored(k, currentLang)
    <3>1. currentLang # NoLang
      BY HandleAssumption DEF TtsInv, ServiceTypes
    <3>2. \A k \in {"setting", "dict"} : engine.pack[k] = stored[k][currentLang]
      BY <2>2, <3>1 DEF TtsInv, PackAsStored
    <3> QED BY <3>2 DEF Stored
  <2> QED BY <2>1, <2>2
<1> QED BY <1>1, TtsInductive, PTL

================================================================================
