------------------------------ MODULE AudioUnit ------------------------------
(***************************************************************************)
(* The iOS and macOS speech provider (src/src/platforms/ios):              *)
(* TGSBAudioUnit.swift over the engine of tgsb_bridge.cpp, and the host    *)
(* application (TgsbEngine.swift, EngineSettingsView.swift), a process of  *)
(* its own that writes the preferences both share.                         *)
(*                                                                         *)
(* Three threads of the extension: the one that synthesizes a request into *)
(* a buffer, the one that cancels, and the audio thread that renders the   *)
(* buffer in blocks; a semaphore guards the buffer.  Left out: a provider  *)
(* that could not create its engine, what the host application speaks      *)
(* itself, the sample rate, which is applied with the tone, the volume,    *)
(* and preferences that every request reads anew.                          *)
(***************************************************************************)
EXTENDS Integers, Sequences, FrontendHandle

CONSTANTS
    English,      \* en-us, which tgsb_create loads
    Voices,       \* voice presets
    Adam,         \* the voice of a new engine
    MaxRequests,  \* bound on the utterances
    MaxEdits,     \* bound on what the user changes in the host application
    MaxSamples,   \* samples of an utterance
    MaxFrames     \* frames the system asks for in one render

ASSUME AudioUnitAssumption ==
    /\ English \in Langs /\ Adam \in Voices /\ NoLang \notin Voices
    /\ {"idle", "bump"} \cap Langs = {}
    /\ {MaxRequests, MaxEdits, MaxSamples} \subseteq Nat /\ MaxFrames \in Nat \ {0}

VARIABLES
    stored,       \* overrides in the preferences, by kind and language
    storedTone,   \* of each voice, the tone sliders; NoValue: never moved
    storedMode,   \* of each voice, the pitch mode
    version,      \* adv_settingsVersion
    host,         \* "idle", "bump" when a write waits for its version, or the
                  \* language whose import has cleared the old overrides
    missing       \* languages without a pack file

VARIABLES
    engine,       \* the frontend handle
    tone,         \* the player's voicing tone: the voice's own and the sliders'
    cachedVoice, cachedLang, cachedSettingsVersion,
    synth,        \* "idle" or where synthesizeSpeechRequest is
    request,      \* its number, voice and language
    curVersion,   \* its local copy of the version
    changed,      \* settingsChanged || voiceChanged || languageChanged
    stopRequested,
    left, samples,   \* of the utterance: still in the player, already pulled
    output, outputOffset,
    canceller     \* "idle" or "clear": between tgsb_stop and the semaphore

\* History: what was rendered, the last request whose buffer was handed over, the
\* last that is over, the last that must stay silent; and edits so far.
VARIABLES heard, handed, finished, silenced, edits

prefsVars == <<stored, storedTone, storedMode, version, host, missing, edits>>
soundVars == <<engine, tone, cachedVoice, cachedLang, cachedSettingsVersion>>
jobVars == <<synth, request, curVersion, changed, left, samples>>
bufferVars == <<output, outputOffset, heard, handed, finished, silenced>>
cancelVars == <<stopRequested, canceller>>
vars == <<prefsVars, soundVars, jobVars, bufferVars, cancelVars>>

Stored(kind, l) == stored[kind][IF kind = "phoneme" THEN English ELSE l]

Init ==
    /\ stored \in {[k \in Kinds |-> [l \in Langs |-> v]] : v \in Values \cup {NoValue}}
    /\ storedTone = [v \in Voices |-> NoValue]
    /\ storedMode \in {[v \in Voices |-> m] : m \in Modes}
    /\ version = 0 /\ host = "idle" /\ edits = 0
    /\ missing \in SUBSET (Langs \ {English})
    /\ engine = SetLanguage(NewHandle, English, TRUE)
    /\ tone = <<Adam, NoValue>>
    /\ cachedVoice = NoLang /\ cachedLang = NoLang /\ cachedSettingsVersion = -1
    /\ synth = "idle" /\ request = [number |-> 0, voice |-> Adam, lang |-> English]
    /\ curVersion = 0 /\ changed = FALSE /\ stopRequested = FALSE
    /\ left = 0 /\ samples = 0 /\ output = <<>> /\ outputOffset = 0 /\ canceller = "idle"
    /\ heard = <<>> /\ handed = 0 /\ finished = 0 /\ silenced = 0

-----------------------------------------------------------------------------
(* synthesizeSpeechRequest.                                                *)

\* Text that is empty but for the first request is one silent frame.
Begin ==
    /\ synth = "idle" /\ request.number < MaxRequests
    /\ \E v \in Voices, l \in Langs, empty \in BOOLEAN :
         /\ request' = [number |-> request.number + 1, voice |-> v, lang |-> l]
         /\ IF empty /\ request.number > 0
            THEN synth' = "hand" /\ samples' = 1
            ELSE synth' = "version" /\ samples' = 0
    /\ UNCHANGED <<prefsVars, soundVars, curVersion, changed, left, bufferVars, cancelVars>>

ReadVersion ==
    /\ synth = "version" /\ synth' = "identity"
    /\ curVersion' = version
    /\ UNCHANGED <<prefsVars, soundVars, request, changed, left, samples, bufferVars, cancelVars>>

\* Slip: whether the voice changed is asked after the cache has it.
IdentityVoiceLost ==
    /\ synth = "identity" /\ synth' = "settings"
    /\ cachedVoice' = request.voice /\ cachedLang' = request.lang
    /\ tone' = IF request.voice # cachedVoice THEN <<request.voice, NoValue>> ELSE tone
    /\ LET reload == request.lang # cachedLang \/ curVersion # cachedSettingsVersion IN
       /\ changed' = reload
       /\ engine' = IF reload THEN SetLanguage(engine, request.lang, request.lang \notin missing)
                    ELSE engine
    /\ UNCHANGED <<prefsVars, cachedSettingsVersion, request, curVersion, left, samples,
                   bufferVars, cancelVars>>

\* The voice first, which resets the tone, then the language, which reloads the
\* pack; a new version reloads it too.  The caches take what was asked for, however
\* it went.
Identity ==
    /\ synth = "identity" /\ synth' = "settings"
    /\ cachedVoice' = request.voice /\ cachedLang' = request.lang
    /\ LET voiceChanged == request.voice # cachedVoice
           reload == request.lang # cachedLang \/ curVersion # cachedSettingsVersion
       IN  /\ tone' = IF voiceChanged THEN <<request.voice, NoValue>> ELSE tone
           /\ engine' = IF reload
                        THEN SetLanguage(engine, request.lang, request.lang \notin missing)
                        ELSE engine
           /\ changed' = (voiceChanged \/ reload)
    /\ UNCHANGED <<prefsVars, cachedSettingsVersion, request, curVersion, left, samples,
                   bufferVars, cancelVars>>

\* applyEngineSettings, of which the tone and the pitch mode can be lost.
Settings ==
    /\ synth = "settings" /\ synth' = "overrides"
    /\ IF changed
       THEN /\ tone' = <<tone[1], storedTone[request.voice]>>
            /\ engine' = SetPitchMode(engine, storedMode[request.voice])
            /\ cachedSettingsVersion' = curVersion
       ELSE UNCHANGED <<tone, engine, cachedSettingsVersion>>
    /\ UNCHANGED <<prefsVars, cachedVoice, cachedLang, request, curVersion, changed, left,
                   samples, bufferVars, cancelVars>>

Merge(h, k, l) ==
    LET v == Stored(k, l) IN
    IF v = NoValue THEN h ELSE IF k = "dict" THEN SetDictEntry(h, v) ELSE SetData(h, k, l, v)

\* applyPhonemeOverrides, applyStoredOverrides, applyDictOverrides: every request
\* adds what is stored and takes nothing away.
Overrides ==
    /\ synth = "overrides" /\ synth' = "queue"
    /\ LET l == request.lang IN
       engine' = Merge(Merge(Merge(engine, "phoneme", l), "setting", l), "dict", l)
    /\ UNCHANGED <<prefsVars, tone, cachedVoice, cachedLang, cachedSettingsVersion, request,
                   curVersion, changed, left, samples, bufferVars, cancelVars>>

\* tgsb_queue_text lowers the stop flag and purges the player.
Queue ==
    /\ synth = "queue" /\ synth' = "pull"
    /\ stopRequested' = FALSE
    /\ left' \in 0 .. MaxSamples
    /\ UNCHANGED <<prefsVars, soundVars, request, curVersion, changed, samples, bufferVars,
                   canceller>>

\* tgsb_pull_audio until it has nothing.
Pull ==
    /\ synth = "pull"
    /\ IF stopRequested \/ left = 0
       THEN synth' = "hand" /\ left' = 0 /\ UNCHANGED samples
       ELSE left' = left - 1 /\ samples' = samples + 1 /\ UNCHANGED synth
    /\ UNCHANGED <<prefsVars, soundVars, request, curVersion, changed, bufferVars, cancelVars>>

\* Slip: the new buffer is read from where the old one was.
HandOffsetKept ==
    /\ synth = "hand" /\ synth' = "idle"
    /\ output' = [k \in 1 .. samples |-> <<request.number, k>>]
    /\ handed' = request.number
    /\ UNCHANGED <<prefsVars, soundVars, request, curVersion, changed, left, samples,
                   outputOffset, heard, finished, silenced, cancelVars>>

\* The buffer is replaced as a whole, under the semaphore.
Hand ==
    /\ synth = "hand" /\ synth' = "idle"
    /\ output' = [k \in 1 .. samples |-> <<request.number, k>>] /\ outputOffset' = 0
    /\ handed' = request.number
    /\ UNCHANGED <<prefsVars, soundVars, request, curVersion, changed, left, samples,
                   heard, finished, silenced, cancelVars>>

Synthesize == Begin \/ ReadVersion \/ Identity \/ Settings \/ Overrides \/ Queue \/ Pull \/ Hand

-----------------------------------------------------------------------------
(* cancelSpeechRequest, and the render block on the audio thread.          *)

CancelStop ==
    /\ canceller = "idle" /\ canceller' = "clear"
    /\ request.number > 0
    /\ stopRequested' = TRUE
    /\ UNCHANGED <<prefsVars, soundVars, jobVars, bufferVars>>

\* The requests before the one being synthesized are over for good.
Over == IF synth = "idle" THEN request.number ELSE request.number - 1

\* Slip: the buffer is left to the render block.
CancelKeepsBuffer ==
    /\ canceller = "clear" /\ canceller' = "idle"
    /\ outputOffset' = 0
    /\ finished' = Over /\ silenced' = Over
    /\ UNCHANGED <<prefsVars, soundVars, jobVars, output, heard, handed, stopRequested>>

CancelClear ==
    /\ canceller = "clear" /\ canceller' = "idle"
    /\ output' = <<>> /\ outputOffset' = 0
    /\ finished' = Over /\ silenced' = Over
    /\ UNCHANGED <<prefsVars, soundVars, jobVars, heard, handed, stopRequested>>

\* Slip: Complete only when the offset has passed the end.
RenderPastEnd ==
    \E frames \in 1 .. MaxFrames :
        LET rest == Len(output) - outputOffset
            count == IF rest < frames THEN rest ELSE frames
        IN  /\ heard' = heard \o SubSeq(output, outputOffset + 1, outputOffset + count)
            /\ IF outputOffset + count > Len(output)
               THEN output' = <<>> /\ outputOffset' = 0 /\ finished' = handed
               ELSE outputOffset' = outputOffset + count /\ UNCHANGED <<output, finished>>
            /\ UNCHANGED <<prefsVars, soundVars, jobVars, handed, silenced, cancelVars>>

\* A block of the buffer; when it is drained, Complete.
Render ==
    \E frames \in 1 .. MaxFrames :
        LET rest == Len(output) - outputOffset
            count == IF rest < frames THEN rest ELSE frames
        IN  /\ heard' = heard \o SubSeq(output, outputOffset + 1, outputOffset + count)
            /\ IF outputOffset + count >= Len(output)
               THEN /\ output' = <<>> /\ outputOffset' = 0
                    /\ finished' = IF handed > finished THEN handed ELSE finished
               ELSE outputOffset' = outputOffset + count /\ UNCHANGED <<output, finished>>
            /\ UNCHANGED <<prefsVars, soundVars, jobVars, handed, silenced, cancelVars>>

-----------------------------------------------------------------------------
(* The host application, on its main thread.                               *)

extensionVars == <<soundVars, jobVars, bufferVars, cancelVars, missing>>
Edit == host = "idle" /\ edits < MaxEdits /\ edits' = edits + 1

\* A slider of a voice, or its pitch mode.
EditTone ==
    /\ Edit /\ host' = "bump"
    /\ \E v \in Voices :
         \/ \E x \in Values : storedTone' = [storedTone EXCEPT ![v] = x] /\ UNCHANGED storedMode
         \/ \E m \in Modes : storedMode' = [storedMode EXCEPT ![v] = m] /\ UNCHANGED storedTone
    /\ UNCHANGED <<stored, version, extensionVars>>

\* setEditorOverride, removeEditorOverride, resetAllEditorOverrides.
EditSetting ==
    /\ Edit /\ host' = "bump"
    /\ \E l \in Langs, v \in Values \cup {NoValue} :
         stored' = [stored EXCEPT !["setting"][l] = v]
    /\ UNCHANGED <<storedTone, storedMode, version, extensionVars>>

\* importPackYaml: first the old overrides go, without a new version.
ImportClears ==
    /\ Edit /\ host' \in Langs
    /\ stored' = [stored EXCEPT !["setting"][host'] = NoValue]
    /\ UNCHANGED <<storedTone, storedMode, version, extensionVars>>

ImportSaves ==
    /\ host \in Langs /\ host' = "bump"
    /\ \E v \in Values : stored' = [stored EXCEPT !["setting"][host] = v]
    /\ UNCHANGED <<storedTone, storedMode, version, edits, extensionVars>>

BumpVersion ==
    /\ host = "bump" /\ host' = "idle"
    /\ version' = version + 1
    /\ UNCHANGED <<stored, storedTone, storedMode, edits, extensionVars>>

\* Phoneme and dictionary edits: they bump pack_overrides_version, not this version.
EditPhonemeOrDict ==
    /\ Edit /\ UNCHANGED host
    /\ \E k \in {"phoneme", "dict"}, l \in Langs, v \in Values \cup {NoValue} :
         stored' = [stored EXCEPT ![k][IF k = "phoneme" THEN English ELSE l] = v]
    /\ UNCHANGED <<storedTone, storedMode, version, extensionVars>>

Host == EditTone \/ EditSetting \/ ImportClears \/ ImportSaves \/ BumpVersion
        \/ EditPhonemeOrDict

Next == Synthesize \/ CancelStop \/ CancelClear \/ Render \/ Host

Spec == Init /\ [][Next]_vars

\* A call that has begun runs on, and the system keeps rendering.
FairSpec ==
    /\ Spec /\ WF_vars(synth # "idle" /\ Synthesize)
    /\ WF_vars(CancelClear) /\ WF_vars(Render)
-----------------------------------------------------------------------------
\* The request is about to be spoken in a pack that could be loaded, and the host
\* application has written nothing since the version it was prepared with.
Prepared ==
    /\ synth = "queue" /\ engine.lang = request.lang
    /\ host = "idle" /\ cachedSettingsVersion = version

\* Text is spoken from a pack with the settings stored for its language, those taken
\* back included ("Force pack reload to wipe stale in-memory overrides",
\* TGSBAudioUnit.swift 365), and with the tone and the pitch mode stored for the request's
\* voice: neither the preset of a voice that was just chosen nor the pack's mode of a
\* language that was just loaded ("Engine settings must be applied AFTER these"), however
\* the host's two writes cross the request.
SpokenWithStoredSettings ==
    Prepared => /\ engine.pack["setting"] = Stored("setting", request.lang)
                /\ tone = <<request.voice, storedTone[request.voice]>>
                /\ engine.mode = storedMode[request.voice]

\* What is rendered is each buffer from its first sample on, without a gap or a
\* repetition, and never an earlier request after a later one: the buffer is replaced
\* and cleared between two renders.
RenderedInOrder ==
    \A i \in DOMAIN heard :
        \/ heard[i][2] = 1 /\ (i > 1 => heard[i - 1][1] < heard[i][1])
        \/ i > 1 /\ heard[i] = <<heard[i - 1][1], heard[i - 1][2] + 1>>

\* After cancelSpeechRequest nothing is rendered of the requests it found complete.
CancelSilences ==
    [][\A i \in Len(heard) + 1 .. Len(heard') : heard'[i][1] > silenced]_vars

\* Every request is completed or cancelled ("still need to signal render block to
\* complete so VoiceOver doesn't hang", TGSBAudioUnit.swift 279), one that yields no
\* audio as well.
EveryRequestCompletes ==
    \A n \in 1 .. MaxRequests : request.number = n ~> finished >= n
=============================================================================
