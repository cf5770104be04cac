----------------------------- MODULE SapiRuntime -----------------------------
(***************************************************************************)
(* The synthesis pipelines of the SAPI engine (src/src/sapi): the runtime  *)
(* of tgsb_runtime.cpp, one per COM object, the cache of                   *)
(* ISpTTSEngineImpl.cpp through which one object leaves its runtime to the *)
(* next, and eSpeak, of which the process has one for all of them.         *)
(*                                                                         *)
(* Every runtime has its own espeak_guard_, and a host speaks with one     *)
(* object at a time: what two runtimes do with eSpeak at once is left out. *)
(* Files that are missing at start-up are left out too.                    *)
(***************************************************************************)
EXTENDS Integers, FiniteSets

CONSTANTS
    Engines,     \* COM objects the host may hold
    Runtimes,    \* the runtimes the process may make
    Langs,       \* language tags of the registered voices
    Named,       \* those of them eSpeak finds in its list or by their name
    English,     \* en-us
    Profiles,    \* voice profiles
    Builtin,     \* a built-in preset, which has no profile
    NoLang, None

ASSUME RuntimeAssumption ==
    /\ IsFiniteSet(Runtimes) /\ None \notin Runtimes
    /\ English \in Named /\ Named \subseteq Langs /\ NoLang \notin Langs
    /\ Builtin \notin Profiles

Voices == Profiles \cup {Builtin}

VARIABLES
    espeakUp,     \* espeak_Initialize was called, and espeak_Terminate not after it
    espeakVoice,  \* the voice set last
    runtimes,     \* of each, its members
    made,         \* the runtimes constructed so far
    cached,       \* g_cached_runtime
    rt            \* of each COM object its runtime, None: there is no object

runtimeVars == <<espeakUp, espeakVoice, runtimes, made, cached, rt>>

\* pack is the language of the frontend, identifier the resolved eSpeak voice, silence
\* what a purge has queued.
NewRuntime == [init |-> FALSE, pack |-> NoLang, langTag |-> NoLang, espeakTag |-> NoLang,
               identifier |-> NoLang, profile |-> Builtin, tone |-> Builtin,
               silence |-> FALSE]

RuntimeInit ==
    /\ espeakUp = FALSE /\ espeakVoice = NoLang
    /\ runtimes = [r \in Runtimes |-> NewRuntime]
    /\ made = {} /\ cached = None
    /\ rt = [e \in Engines |-> None]

-----------------------------------------------------------------------------
\* The constructor: the cached runtime, purged and drained, or one of its own.
Create(e) ==
    /\ rt[e] = None
    /\ \/ /\ cached # None
          /\ rt' = [rt EXCEPT ![e] = cached]
          /\ runtimes' = [runtimes EXCEPT ![cached].silence = FALSE]
          /\ cached' = None
          /\ UNCHANGED made
       \/ /\ cached = None
          /\ \E r \in Runtimes \ made :
                /\ \A s \in Runtimes \ made : r <= s
                /\ rt' = [rt EXCEPT ![e] = r]
                /\ made' = made \cup {r}
          /\ UNCHANGED <<runtimes, cached>>
    /\ UNCHANGED <<espeakUp, espeakVoice>>

\* The destructor: the runtime goes to the cache, or, when there is one in it, is
\* destroyed, and ~runtime terminates eSpeak if it had initialized it.
Destroy(e) ==
    /\ rt[e] # None
    /\ rt' = [rt EXCEPT ![e] = None]
    /\ \/ /\ cached = None
          /\ cached' = rt[e]
          /\ runtimes' = [runtimes EXCEPT ![rt[e]].silence = FALSE]
          /\ UNCHANGED <<espeakUp, espeakVoice>>
       \/ /\ cached # None
          /\ espeakUp' = (espeakUp /\ ~runtimes[rt[e]].init)
          /\ espeakVoice' = IF espeakUp' THEN espeakVoice ELSE NoLang
          /\ UNCHANGED <<runtimes, cached>>
    /\ UNCHANGED made

\* ensure_initialized, which GetOutputFormat calls too.
Initialized(r) == [runtimes[r] EXCEPT !.init = TRUE]
UpAfter(r) == espeakUp \/ ~runtimes[r].init

\* select_espeak_voice for language l: the runtimes and eSpeak voices it can lead to.  A
\* language without a voice of its own gets the nearest one by its properties,
\* which has no identifier, or English; eSpeak is external.
Selected(m, l, up, voice) ==
    IF m.espeakTag = l \/ ~up THEN {<<m, voice>>}
    ELSE IF l \in Named THEN {<<[m EXCEPT !.espeakTag = l, !.identifier = l], l>>}
    ELSE {<<[m EXCEPT !.espeakTag = l, !.identifier = NoLang], v>> : v \in Langs}
         \cup {<<[m EXCEPT !.espeakTag = English, !.identifier = English], English>>}

\* set_language: when the frontend cannot load the pack nothing is changed; read is
\* whether it can.
LanguageSet(m, l, read, up, voice) ==
    IF l # m.langTag /\ ~read THEN {<<m, voice>>}
    ELSE Selected([m EXCEPT !.pack = l, !.langTag = l], l, up, voice)

\* Slip: the tone of the profile that was left stays.
ToneKept(m, v) == [m EXCEPT !.profile = v, !.tone = IF v = Builtin THEN m.tone ELSE v]

\* The voice of queue_text: apply_voicing_tone_if_available with the profile so far, then
\* the change of profile, which applies the tone again only for a new profile.
VoiceSet(m, v) ==
    [m EXCEPT !.profile = v,
              !.tone = IF v \in Profiles /\ v # m.profile THEN v ELSE m.profile]

\* The voice text_to_ipa_utf8 has set when it asks for phonemes.
VoiceOfPhonemes(m, up, voice) ==
    IF up /\ m.identifier # NoLang THEN m.identifier ELSE voice

=============================================================================
