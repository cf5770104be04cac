----------------------------- MODULE AndroidTts -----------------------------
(***************************************************************************)
(* The Android text-to-speech service and the editor that shares its       *)
(* process (src/src/platforms/android): TgsbTtsService.kt with the native  *)
(* engine below it (tgsb_jni.cpp), and TgsbViewModel.kt, which stores      *)
(* overrides in the shared preferences and has a native engine of its own. *)
(* Both engines use the one eSpeak of the process.                         *)
(*                                                                         *)
(* Four threads: the synthesis thread runs one request at a time, a binder *)
(* thread delivers onStop, the user interface runs the editor, and the     *)
(* system kills the process.  Preferences written with apply() are seen by *)
(* the whole process at once; what a kill loses of them is left out, as    *)
(* are the pack in the editor's own engine and how a voice sounds.         *)
(***************************************************************************)
EXTENDS Integers, FrontendHandle

CONSTANTS
    English,      \* en-us, which a new native engine starts with
    MaxEdits,     \* bound on what the user changes in the editor
    MaxFailures,  \* bound on the language loads that fail
    MaxChunks     \* chunks of audio of an utterance

ASSUME AndroidAssumption ==
    /\ English \in Langs /\ {"closed", "open"} \cap Langs = {}
    /\ {MaxEdits, MaxFailures, MaxChunks} \subseteq Nat

VARIABLES
    stored,      \* overrides in the preferences, by kind and language
    storedOff,   \* languages whose dictionary type is switched off
    version,     \* pack_overrides_version
    lastLang,    \* PREF_LAST_LANG
    storedMode,  \* adv_pitchMode
    editor,      \* "closed", "open", or the language whose import is half written
    espeak       \* the voice of the process's eSpeak, NoLang when terminated, and which
                 \* engine set it last (history)

VARIABLES
    service,         \* "dead", "idle", or where onSynthesizeText is
    engine,          \* its frontend handle
    currentLang, confirmedNativeLang, cachedOverridesVersion,
    stopRequested,   \* the service's flag
    nativeStop,      \* the native engine's flag
    binder,          \* "idle" or "native": between onStop's two flags
    chunks           \* audio still to pull; what an utterance leaves, the next one drops

\* History and bounds: the mode applyAdvancedSettings read, chunks handed over
\* after onStop raised the flag, edits and failed loads so far.
VARIABLES spokenMode, late, edits, failures

prefsVars == <<stored, storedOff, version, lastLang, storedMode>>
editorVars == <<editor, edits>>
stopVars == <<stopRequested, nativeStop, binder, late>>
langVars == <<espeak, engine, confirmedNativeLang, lastLang, failures>>
settings == <<stored, storedOff, version, storedMode>>
vars == <<prefsVars, editorVars, stopVars, langVars, service, currentLang,
          cachedOverridesVersion, chunks, spokenMode>>

Voice(l, owner) == [lang |-> l, owner |-> owner]

\* Overrides are stored per language but for the phonemes', which are global.
Stored(kind, l) == stored[kind][IF kind = "phoneme" THEN English ELSE l]

Init ==
    /\ stored \in {[k \in Kinds |-> [l \in Langs |-> v]] : v \in Values \cup {NoValue}}
    /\ storedOff = {} /\ version = 0 /\ lastLang = NoLang /\ storedMode \in Modes
    /\ editor = "closed" /\ espeak = Voice(NoLang, "service")
    /\ service = "dead" /\ engine = NewHandle
    /\ currentLang = English /\ confirmedNativeLang = NoLang /\ cachedOverridesVersion = -1
    /\ stopRequested = FALSE /\ nativeStop = FALSE /\ binder = "idle" /\ chunks = 0
    /\ spokenMode = storedMode /\ late = 0 /\ edits = 0 /\ failures = 0

\* The service object and its native engine are gone.
Gone ==
    /\ service' = "dead" /\ engine' = NewHandle
    /\ espeak' = Voice(NoLang, "service")
    /\ currentLang' = English /\ confirmedNativeLang' = NoLang /\ cachedOverridesVersion' = -1
    /\ stopRequested' = FALSE /\ nativeStop' = FALSE /\ binder' = "idle" /\ chunks' = 0
    /\ spokenMode' = storedMode /\ late' = 0

-----------------------------------------------------------------------------
(* Loading a language into the native engine.                              *)

Merge(h, k, l) ==
    LET v == Stored(k, l) IN
    IF v = NoValue THEN h ELSE IF k = "dict" THEN SetDictEntry(h, v) ELSE SetData(h, k, l, v)

\* applyStoredOverrides: it adds what is stored and takes nothing away.
WithOverrides(h, l) ==
    LET merged == Merge(Merge(Merge(h, "phoneme", l), "setting", l), "dict", l)
    IN  IF l \in storedOff THEN SetDictType(merged, l, FALSE) ELSE merged

\* Slip: the frontend's result alone decides.
SetNativeLanguageTrusting(h, l) ==
    \E espeakOk, frontendOk \in BOOLEAN :
        /\ espeak' = IF espeakOk THEN Voice(l, "service") ELSE espeak
        /\ failures' = IF espeakOk /\ frontendOk THEN failures ELSE failures + 1
        /\ failures' <= MaxFailures
        /\ engine' = WithOverrides(SetLanguage(h, l, frontendOk), l)
        /\ confirmedNativeLang' = l /\ lastLang' = l

\* nativeSetLanguage tries eSpeak and the frontend and reports -1 when either
\* fails; setNativeLanguage notes the outcome and applies the overrides.
SetNativeLanguage(h, l) ==
    \E espeakOk, frontendOk \in BOOLEAN :
        /\ espeak' = IF espeakOk THEN Voice(l, "service") ELSE espeak
        /\ IF espeakOk /\ frontendOk
           THEN /\ engine' = WithOverrides(SetLanguage(h, l, TRUE), l)
                /\ confirmedNativeLang' = l /\ lastLang' = l
                /\ UNCHANGED failures
           ELSE /\ failures < MaxFailures /\ failures' = failures + 1
                /\ engine' = SetLanguage(h, l, frontendOk)
                /\ confirmedNativeLang' = NoLang /\ UNCHANGED lastLang

\* onCreate: nativeCreate starts eSpeak and a frontend in en-us and ignores how
\* that went; a language saved by an earlier process is set at once.
OnCreate ==
    /\ service = "dead" /\ service' = "idle"
    /\ cachedOverridesVersion' = -1 /\ stopRequested' = FALSE /\ nativeStop' = FALSE
    /\ currentLang' = IF lastLang = NoLang THEN English ELSE lastLang
    /\ \E ok \in BOOLEAN :
         LET h == SetLanguage(NewHandle, English, ok) IN
         IF currentLang' # English
         THEN SetNativeLanguage(h, currentLang')
         ELSE /\ engine' = h /\ espeak' = Voice(English, "service")
              /\ confirmedNativeLang' = English
              /\ failures' = IF ok THEN failures ELSE failures + 1
              /\ failures' <= MaxFailures /\ UNCHANGED lastLang
    /\ UNCHANGED <<settings, editorVars, binder, late, chunks, spokenMode>>

\* onDestroy: eSpeak is terminated for the editor as well.
OnDestroy ==
    /\ service = "idle" /\ Gone
    /\ UNCHANGED <<prefsVars, editorVars, failures>>

\* The system kills the process: the preferences are all that stays.
Killed ==
    /\ service # "dead" /\ Gone /\ editor' = "closed"
    /\ UNCHANGED <<prefsVars, edits, failures>>

OnLoadLanguage ==
    /\ service = "idle"
    /\ \E l \in Langs : currentLang' = l /\ SetNativeLanguage(engine, l)
    /\ UNCHANGED <<settings, editorVars, stopVars, service, cachedOverridesVersion,
                   chunks, spokenMode>>

\* applyAdvancedSettings, of which the pitch mode alone can be lost.
ApplyAdvanced(h) == SetPitchMode(h, storedMode)

\* onLoadVoice: the language first, then the settings.
OnLoadVoice ==
    /\ service = "idle"
    /\ \E l \in Langs :
         /\ currentLang' = l
         /\ service' = "voice"
         /\ SetNativeLanguage(engine, l)
    /\ UNCHANGED <<settings, editorVars, stopVars, cachedOverridesVersion, chunks, spokenMode>>

OnLoadVoiceSettings ==
    /\ service = "voice" /\ service' = "idle"
    /\ engine' = ApplyAdvanced(engine)
    /\ UNCHANGED <<prefsVars, editorVars, stopVars, espeak, confirmedNativeLang, failures,
                   currentLang, cachedOverridesVersion, chunks, spokenMode>>

-----------------------------------------------------------------------------
(* onSynthesizeText, on the synthesis thread.                              *)

\* The request names a language, or the preferences lock one; a language that is
\* not known leaves the current one.
Begin ==
    /\ service = "idle" /\ service' = "check"
    /\ stopRequested' = FALSE /\ late' = 0
    /\ currentLang' \in Langs
    /\ UNCHANGED <<prefsVars, editorVars, langVars, nativeStop, binder,
                   cachedOverridesVersion, chunks, spokenMode>>

\* Slip: a changed version does not reload.
CheckLanguageOnly ==
    /\ service = "check"
    /\ cachedOverridesVersion' = version
    /\ service' = IF confirmedNativeLang # currentLang THEN "reload" ELSE "reapply"
    /\ UNCHANGED <<prefsVars, editorVars, stopVars, langVars, currentLang, chunks, spokenMode>>

\* The version is read before the overrides it stands for.
CheckVersion ==
    /\ service = "check"
    /\ cachedOverridesVersion' = version
    /\ service' = IF confirmedNativeLang # currentLang \/ version # cachedOverridesVersion
                  THEN "reload" ELSE "reapply"
    /\ UNCHANGED <<prefsVars, editorVars, stopVars, langVars, currentLang, chunks, spokenMode>>

Load ==
    /\ \/ service = "reload" /\ SetNativeLanguage(engine, currentLang)
       \/ /\ service = "reapply" /\ engine' = WithOverrides(engine, currentLang)
          /\ UNCHANGED <<espeak, confirmedNativeLang, lastLang, failures>>
    /\ service' = "advanced"
    /\ UNCHANGED <<settings, editorVars, stopVars, currentLang, cachedOverridesVersion,
                   chunks, spokenMode>>

Advanced ==
    /\ service = "advanced" /\ service' = "start"
    /\ engine' = ApplyAdvanced(engine) /\ spokenMode' = storedMode
    /\ UNCHANGED <<prefsVars, editorVars, stopVars, espeak, confirmedNativeLang, failures,
                   currentLang, cachedOverridesVersion, chunks>>

\* callback.start can refuse, and there may be no text.
Start ==
    /\ service = "start" /\ service' \in {"queue", "idle"}
    /\ UNCHANGED <<prefsVars, editorVars, stopVars, langVars, currentLang,
                   cachedOverridesVersion, chunks, spokenMode>>

\* The chunks of audio a text gives, clause by clause; none without a pack.
SynthesizeClauses(e) == IF Loaded(e) THEN 0 .. MaxChunks ELSE {0}

\* nativeQueueText: it lowers the native flag, purges the player and queues the
\* clauses.
Queue ==
    /\ service = "queue" /\ service' = "pull"
    /\ nativeStop' = FALSE
    /\ \E ok \in BOOLEAN :
         /\ engine' = QueueIPA(engine, ok)
         /\ chunks' \in SynthesizeClauses(engine')
    /\ UNCHANGED <<prefsVars, editorVars, stopRequested, binder, late, espeak,
                   confirmedNativeLang, failures, currentLang, cachedOverridesVersion,
                   spokenMode>>

\* Slip: only the native flag ends the loop.
PullRegardless ==
    /\ service = "pull" /\ service' = "take"
    /\ UNCHANGED <<prefsVars, editorVars, stopVars, langVars, currentLang,
                   cachedOverridesVersion, chunks, spokenMode>>

\* Around the loop: the service's flag is looked at, the utterance ends in error().
Pull ==
    /\ service = "pull"
    /\ IF stopRequested THEN service' = "idle" /\ chunks' = 0
                        ELSE service' = "take" /\ UNCHANGED chunks
    /\ UNCHANGED <<prefsVars, editorVars, stopVars, langVars, currentLang,
                   cachedOverridesVersion, spokenMode>>

\* nativePullAudio: nothing when stopped or dry, and then the utterance is over;
\* else the chunk goes to audioAvailable, which can fail.
Take ==
    /\ service = "take"
    /\ IF nativeStop \/ chunks = 0
       THEN service' = "idle" /\ chunks' = 0 /\ UNCHANGED late
       ELSE /\ late' = IF stopRequested THEN late + 1 ELSE late
            /\ \/ service' = "pull" /\ chunks' = chunks - 1
               \/ service' = "idle" /\ chunks' = 0
    /\ UNCHANGED <<prefsVars, editorVars, langVars, stopRequested, nativeStop, binder,
                   currentLang, cachedOverridesVersion, spokenMode>>

\* onStop, on a binder thread.
OnStop ==
    /\ service # "dead" /\ binder = "idle"
    /\ stopRequested' = TRUE /\ binder' = "native"
    /\ UNCHANGED <<prefsVars, editorVars, langVars, nativeStop, late, service, currentLang,
                   cachedOverridesVersion, chunks, spokenMode>>

OnStopNative ==
    /\ binder = "native" /\ binder' = "idle" /\ nativeStop' = TRUE
    /\ UNCHANGED <<prefsVars, editorVars, langVars, stopRequested, late, service, currentLang,
                   cachedOverridesVersion, chunks, spokenMode>>

Synthesis == Begin \/ CheckVersion \/ Load \/ Advanced \/ Start \/ Queue \/ Pull \/ Take
             \/ OnLoadLanguage \/ OnLoadVoice \/ OnLoadVoiceSettings

-----------------------------------------------------------------------------
(* The editor, on the user interface's thread.                             *)

serviceVars == <<engine, confirmedNativeLang, lastLang, failures, service, currentLang,
                 cachedOverridesVersion, stopVars, chunks, spokenMode>>

\* An edit counts, and most reload the language selected in the editor, which sets
\* eSpeak's.
Edit == editor = "open" /\ edits < MaxEdits /\ edits' = edits + 1
Reload == \E l \in Langs : espeak' = Voice(l, "editor")

OpenEditor ==
    /\ editor = "closed" /\ editor' = "open" /\ Reload
    /\ UNCHANGED <<settings, edits, serviceVars>>

\* onCleared: shutdown destroys the engine, and eSpeak with it.
CloseEditor ==
    /\ editor = "open" /\ editor' = "closed" /\ espeak' = Voice(NoLang, "editor")
    /\ UNCHANGED <<settings, edits, serviceVars>>

\* onLanguageSelected; speak and speakText load the language again.
SelectLanguage ==
    /\ editor = "open" /\ Reload
    /\ UNCHANGED <<settings, editorVars, serviceVars>>

\* setEditorOverride, removeEditorOverride, resetAllEditorOverrides.
EditSetting ==
    /\ Edit
    /\ \E l \in Langs, v \in Values \cup {NoValue} :
         stored' = [stored EXCEPT !["setting"][l] = v]
    /\ version' = version + 1
    /\ Reload
    /\ UNCHANGED <<storedOff, storedMode, editor, serviceVars>>

\* addDictEntry and maskDictEntry of a pronunciation; deleteDictEntry, which loads
\* the language of the entry.
EditDict ==
    /\ Edit
    /\ \E l \in Langs, v \in Values \cup {NoValue} :
         /\ stored' = [stored EXCEPT !["dict"][l] = v]
         /\ espeak' = IF v = NoValue THEN Voice(l, "editor") ELSE espeak
    /\ version' = version + 1
    /\ UNCHANGED <<storedOff, storedMode, editor, serviceVars>>

\* importPackYaml: the old overrides go without a new version, the new ones with it.
ImportClears ==
    /\ Edit
    /\ editor' \in Langs
    /\ stored' = [stored EXCEPT !["setting"][editor'] = NoValue]
    /\ UNCHANGED <<version, storedOff, storedMode, espeak, serviceVars>>

ImportSaves ==
    /\ editor \in Langs /\ editor' = "open"
    /\ \E v \in Values : stored' = [stored EXCEPT !["setting"][editor] = v]
    /\ version' = version + 1
    /\ Reload
    /\ UNCHANGED <<storedOff, storedMode, edits, serviceVars>>

\* setPhonemeOverride, removePhonemeOverride, the resets and importPhonemeOverrides:
\* no new version.
EditPhoneme ==
    /\ Edit
    /\ \E v \in Values \cup {NoValue} : stored' = [stored EXCEPT !["phoneme"][English] = v]
    /\ Reload \/ UNCHANGED espeak
    /\ UNCHANGED <<version, storedOff, storedMode, editor, serviceVars>>

\* setDictTypeEnabled: no new version either.
EditDictType ==
    /\ Edit
    /\ \E l \in Langs : storedOff' \in {storedOff \cup {l}, storedOff \ {l}}
    /\ UNCHANGED <<stored, version, storedMode, espeak, editor, serviceVars>>

\* onPitchModeChanged.
EditMode ==
    /\ Edit
    /\ storedMode' \in Modes
    /\ UNCHANGED <<stored, version, storedOff, espeak, editor, serviceVars>>

Editor == OpenEditor \/ CloseEditor \/ SelectLanguage \/ EditSetting \/ EditDict
          \/ ImportClears \/ ImportSaves \/ EditPhoneme \/ EditDictType \/ EditMode

Next == Synthesis \/ OnCreate \/ OnDestroy \/ Killed \/ OnStop \/ OnStopNative \/ Editor

Spec == Init /\ [][Next]_vars
-----------------------------------------------------------------------------
\* Text is spoken in the pitch mode the preferences had, before and after the first pack
\* ("setPitchMode writes to h->pack which requires a loaded language pack",
\* TgsbTtsService.kt 648), and from a pack that is the files' under the overrides stored
\* for its language, those that were taken back included ("force a full pack reload so
\* cleared/changed overrides take effect", 651), however the editor's writes cross the
\* request: unless a language could not be loaded, or the editor has written since the
\* version was read.
SpokenAsStored ==
    service = "queue" =>
        /\ Loaded(engine) => engine.mode = spokenMode
        /\ (/\ editor # currentLang
            /\ confirmedNativeLang = currentLang /\ cachedOverridesVersion = version)
           => \A k \in {"setting", "dict"} : engine.pack[k] = Stored(k, currentLang)

\* A request whose language is not the frontend's, or not eSpeak's, is spoken only while
\* confirmedNativeLang says so: the next request loads again ("null = unknown/failed —
\* forces re-try on next synthesis", TgsbTtsService.kt 171).  The exception: the editor
\* set or terminated the one eSpeak of the process last, which the service cannot know.
FailedLoadIsRetried ==
    /\ service = "queue"
    /\ engine.lang # currentLang \/ (espeak.lang # currentLang /\ espeak.owner = "service")
    => confirmedNativeLang = NoLang

\* After onStop at most the chunk in hand is delivered, though nativeQueueText lowers
\* the flag a stop may just have raised.
StopIsPrompt == late <= 1
=============================================================================
