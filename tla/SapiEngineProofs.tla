--------------------------- MODULE SapiEngineProofs ---------------------------
(***************************************************************************)
(* Proofs about SapiEngine, for every set of objects, runtimes, languages  *)
(* and voices, every text, and every size of clauses, audio and chunks.    *)
(***************************************************************************)
EXTENDS SapiEngine, WellFoundedInduction, TLAPS

Busy == step # "idle"
Speaker == runtimes[rt[engine]]

-----------------------------------------------------------------------------
(* An abort cuts the speech.                                               *)

\* The engine asks the site before each write of a batch, so that only the write it had
\* begun can be late; the silence at the end is written without asking.
WritesAreAsked ==
    /\ lateWrites \in Nat
    /\ actions = "none" => lateWrites = 0
    /\ step = "write" => lateWrites = 0
    /\ step # "return" => lateWrites <= 1
    /\ lateWrites <= 2

LEMMA InitWrites == Init => WritesAreAsked
  BY DEF Init, WritesAreAsked

LEMMA NextWrites == WritesAreAsked /\ [Next]_vars => WritesAreAsked'
<1> SUFFICES ASSUME WritesAreAsked, [Next]_vars PROVE WritesAreAsked'
  OBVIOUS
<1> USE DEF WritesAreAsked
<1>1. CASE UNCHANGED vars
  BY <1>1 DEF vars, history
<1>2. ASSUME NEW e \in Engines, Manage(e) PROVE WritesAreAsked'
  BY <1>2 DEF Manage, SetObjectToken, CreateObject, ReleaseObject, GetOutputFormat, history
<1>3. CASE Silence
  BY <1>3 DEF Silence, history
<1>4. ASSUME NEW e \in Engines, Speak(e) PROVE WritesAreAsked'
  BY <1>4 DEF Speak
<1>5. CASE GiveUp
  BY <1>5 DEF GiveUp, history
<1>6. CASE MarksBatch \/ BeginBatch \/ QueueClause \/ SkipSilentBatch \/ BeginPlay
  BY <1>6 DEF MarksBatch, BeginBatch, QueueClause, SkipSilentBatch, BeginPlay, history
<1>7. CASE ReportDue
  BY <1>7 DEF ReportDue
<1>8. CASE WriteChunk
  <2>1. step = "write" /\ lateWrites' = (IF actions = "none" THEN 0 ELSE lateWrites + 1)
        /\ UNCHANGED actions /\ step' \in {"play", "marks"}
    BY <1>8 DEF WriteChunk
  <2> QED BY <2>1
<1>9. CASE EndBatch
  BY <1>9 DEF EndBatch
<1>10. CASE PadEnd
  BY <1>10 DEF PadEnd
<1>11. CASE Return
  BY <1>11 DEF Return
<1> QED
  BY <1>1, <1>2, <1>3, <1>4, <1>5, <1>6, <1>7, <1>8, <1>9, <1>10, <1>11
     DEF Next, Host, SpeakStep

\* Behind an abort come at most the chunk in hand and the silence at the end.
THEOREM AbortSafety == Spec => []AbortCutsSpeech
<1>1. WritesAreAsked => AbortCutsSpeech
  BY DEF WritesAreAsked, AbortCutsSpeech
<1> QED BY <1>1, InitWrites, NextWrites, PTL DEF Spec

-----------------------------------------------------------------------------
(* A clause is spoken in its voice.                                        *)

Members ==
    [init : BOOLEAN, pack : Langs \cup {NoLang}, langTag : Langs \cup {NoLang},
     espeakTag : Langs \cup {NoLang}, identifier : Langs \cup {NoLang},
     profile : Voices, tone : Voices, silence : BOOLEAN]

SpeakTypes ==
    /\ runtimes \in [Runtimes -> Members] /\ made \subseteq Runtimes
    /\ cached \in Runtimes \cup {None}
    /\ rt \in [Engines -> Runtimes \cup {None}]
    /\ token \in [Engines -> Tokens \cup {NoToken}]
    /\ clause.number \in Nat

\* A runtime remembers the identifier of every eSpeak voice it chose by name.
Identified(m) == m.espeakTag \in Named => m.identifier = m.espeakTag

\* An object has a runtime and a token; the one that speaks keeps its own.
ObjectsAreWhole ==
    /\ \A e \in Engines : rt[e] # None => token[e] \in Tokens
    /\ Busy => /\ engine \in Engines /\ rt[engine] # None
               /\ wanted.lang \in Langs /\ wanted.voice \in Voices

\* Once Speak has set a language that could be read, the runtime and eSpeak are in it.
LanguageIsWanted ==
    Busy /\ wanted.read =>
        /\ Speaker.pack = wanted.lang /\ Speaker.langTag = wanted.lang
        /\ espeakUp /\ wanted.lang \in Named => Speaker.identifier = wanted.lang

\* From the first clause on the runtime has the profile of this Speak.
ProfileIsWanted ==
    /\ Busy /\ clause.number > 0 => Speaker.profile = wanted.voice
    /\ ~Busy => clause = NoClause

VInv == /\ SpeakTypes
        /\ \A r \in Runtimes : Identified(runtimes[r])
        /\ ObjectsAreWhole
        /\ LanguageIsWanted
        /\ ProfileIsWanted
        /\ SpokenInItsVoice

-----------------------------------------------------------------------------
(* What the calls of the runtime return.                                   *)

LEMMA NewRuntimeFacts == NewRuntime \in Members /\ Identified(NewRuntime)
<1>1. Builtin \in Voices
  BY DEF Voices
<1>2. NoLang \notin Named
  BY RuntimeAssumption
<1> QED BY <1>1, <1>2 DEF NewRuntime, Members, Identified

LEMMA SelectedFacts ==
    ASSUME NEW m \in Members, NEW l \in Langs, NEW up, NEW voice, Identified(m),
           NEW chosen \in Selected(m, l, up, voice)
    PROVE  /\ chosen[1] \in Members /\ Identified(chosen[1])
           /\ chosen[1].pack = m.pack /\ chosen[1].langTag = m.langTag
           /\ chosen[1].profile = m.profile /\ chosen[1].tone = m.tone
           /\ up /\ l \in Named => chosen[1].identifier = l
<1> USE DEF Members, Identified
<1>1. English \in Named /\ English \in Langs
  BY RuntimeAssumption
<1>2. CASE chosen = <<m, voice>> /\ (m.espeakTag = l \/ ~up)
  BY <1>2
<1>3. CASE l \in Named /\ chosen = <<[m EXCEPT !.espeakTag = l, !.identifier = l], l>>
  BY <1>3
<1>4. ASSUME NEW v \in Langs, l \notin Named,
             chosen = <<[m EXCEPT !.espeakTag = l, !.identifier = NoLang], v>>
      PROVE  /\ chosen[1] \in Members /\ Identified(chosen[1])
             /\ chosen[1].pack = m.pack /\ chosen[1].langTag = m.langTag
             /\ chosen[1].profile = m.profile /\ chosen[1].tone = m.tone
  BY <1>4
<1>5. CASE l \notin Named
           /\ chosen = <<[m EXCEPT !.espeakTag = English, !.identifier = English], English>>
  BY <1>1, <1>5
<1> QED BY <1>2, <1>3, <1>4, <1>5 DEF Selected

LEMMA LanguageSetFacts ==
    ASSUME NEW m \in Members, NEW l \in Langs, NEW read \in BOOLEAN, NEW up, NEW voice,
           Identified(m), NEW chosen \in LanguageSet(m, l, read, up, voice)
    PROVE  /\ chosen[1] \in Members /\ Identified(chosen[1])
           /\ chosen[1].profile = m.profile /\ chosen[1].tone = m.tone
           /\ read => /\ chosen[1].pack = l /\ chosen[1].langTag = l
                      /\ up /\ l \in Named => chosen[1].identifier = l
<1>1. CASE l # m.langTag /\ ~read
  BY <1>1 DEF LanguageSet
<1>2. CASE ~(l # m.langTag /\ ~read)
  <2> DEFINE n == [m EXCEPT !.pack = l, !.langTag = l]
  <2>1. n \in Members /\ Identified(n) /\ n.pack = l /\ n.langTag = l
        /\ n.profile = m.profile /\ n.tone = m.tone
    BY DEF Members, Identified
  <2>2. chosen \in Selected(n, l, up, voice)
    BY <1>2 DEF LanguageSet
  <2> HIDE DEF n
  <2> QED BY <2>1, <2>2, SelectedFacts
<1> QED BY <1>1, <1>2

LEMMA VoiceSetFacts ==
    ASSUME NEW m \in Members, NEW v \in Voices, Identified(m)
    PROVE  LET n == VoiceSet(m, v) IN
           /\ n \in Members /\ Identified(n)
           /\ n.pack = m.pack /\ n.langTag = m.langTag /\ n.identifier = m.identifier
           /\ n.profile = v
           /\ m.profile = v => n.tone = v
<1>1. Profiles \subseteq Voices
  BY DEF Voices
<1> QED BY <1>1 DEF VoiceSet, Members, Identified

-----------------------------------------------------------------------------
(* The invariant is inductive.                                             *)

LEMMA InitVoices == Init => VInv
<1> SUFFICES ASSUME Init PROVE VInv
  OBVIOUS
<1>1. runtimes = [r \in Runtimes |-> NewRuntime] /\ rt = [e \in Engines |-> None]
      /\ token = [e \in Engines |-> NoToken] /\ made = {} /\ cached = None
      /\ step = "idle" /\ clause = NoClause
  BY DEF Init, RuntimeInit
<1>2. SpeakTypes
  BY <1>1, NewRuntimeFacts DEF SpeakTypes, NoClause
<1>3. \A r \in Runtimes : Identified(runtimes[r])
  BY <1>1, NewRuntimeFacts
<1> QED
  BY <1>1, <1>2, <1>3 DEF VInv, ObjectsAreWhole, LanguageIsWanted, ProfileIsWanted,
     SpokenInItsVoice, Busy, NoClause

\* Nothing of it changes while batches are cut up, written and reported.
LEMMA VoicesUntouched ==
    ASSUME VInv, UNCHANGED <<runtimeVars, token, engine, wanted, clause>>, Busy' = Busy
    PROVE  VInv'
  BY DEF VInv, SpeakTypes, ObjectsAreWhole, LanguageIsWanted, ProfileIsWanted,
         SpokenInItsVoice, Speaker, runtimeVars

LEMMA ClauseDropped ==
    ASSUME VInv, Busy, Busy', clause' = [NoClause EXCEPT !.number = clause.number],
           UNCHANGED <<runtimeVars, token, engine, wanted>>
    PROVE  VInv'
<1>1. ~clause'.spoken /\ clause'.number = clause.number
  BY DEF NoClause
<1> QED
  BY <1>1 DEF VInv, SpeakTypes, ObjectsAreWhole, LanguageIsWanted, ProfileIsWanted,
     SpokenInItsVoice, Speaker, runtimeVars

\* A purge, or its end, leaves the voice of a runtime alone.
LEMMA SilenceFacts ==
    ASSUME SpeakTypes, \A r \in Runtimes : Identified(runtimes[r]),
           NEW s \in Runtimes, NEW b \in BOOLEAN,
           runtimes' = [runtimes EXCEPT ![s].silence = b]
    PROVE  /\ runtimes' \in [Runtimes -> Members]
           /\ \A r \in Runtimes :
                 /\ Identified(runtimes'[r])
                 /\ runtimes'[r].pack = runtimes[r].pack
                 /\ runtimes'[r].langTag = runtimes[r].langTag
                 /\ runtimes'[r].identifier = runtimes[r].identifier
                 /\ runtimes'[r].profile = runtimes[r].profile
  BY DEF SpeakTypes, Members, Identified

LEMMA GiveUpVoices == VInv /\ GiveUp => VInv'
<1> SUFFICES ASSUME VInv, GiveUp PROVE VInv'
  OBVIOUS
<1>1. /\ runtimes' = [runtimes EXCEPT ![rt[engine]].silence = TRUE]
      /\ Busy /\ Busy'
      /\ UNCHANGED <<espeakUp, made, cached, rt, token, engine, wanted, clause>>
  BY DEF GiveUp, Busy, history
<1>2. rt[engine] \in Runtimes
  BY <1>1 DEF VInv, SpeakTypes, ObjectsAreWhole
<1>3. /\ runtimes' \in [Runtimes -> Members]
      /\ \A r \in Runtimes :
            /\ Identified(runtimes'[r])
            /\ runtimes'[r].pack = runtimes[r].pack
            /\ runtimes'[r].langTag = runtimes[r].langTag
            /\ runtimes'[r].identifier = runtimes[r].identifier
            /\ runtimes'[r].profile = runtimes[r].profile
  BY <1>1, <1>2, SilenceFacts DEF VInv
<1> QED
  BY <1>1, <1>2, <1>3 DEF VInv, SpeakTypes, ObjectsAreWhole, LanguageIsWanted,
     ProfileIsWanted, SpokenInItsVoice, Speaker

\* The host's calls between two calls of Speak: the speaker's parts are vacuous.
LEMMA IdleVoices ==
    ASSUME VInv, ~Busy, ~Busy', UNCHANGED clause, SpeakTypes',
           \A r \in Runtimes : Identified(runtimes'[r]),
           \A e \in Engines : rt'[e] # None => token'[e] \in Tokens
    PROVE  VInv'
  BY DEF VInv, ObjectsAreWhole, LanguageIsWanted, ProfileIsWanted, SpokenInItsVoice,
         NoClause

LEMMA ManageVoices ==
    ASSUME VInv, NEW e \in Engines, Manage(e)
    PROVE  VInv'
<1> USE DEF VInv
<1>1. CASE SetObjectToken(e)
  <2>1. /\ UNCHANGED <<runtimeVars, step, engine, wanted, clause>>
        /\ \E t \in Tokens : token' = [token EXCEPT ![e] = t]
    BY <1>1 DEF SetObjectToken, speakVars, history
  <2> QED
    BY <2>1 DEF SpeakTypes, ObjectsAreWhole, LanguageIsWanted, ProfileIsWanted,
       SpokenInItsVoice, Speaker, Busy, runtimeVars
<1>2. CASE CreateObject(e)
  <2>1. /\ ~Busy /\ ~Busy' /\ UNCHANGED clause /\ Create(e)
        /\ \E t \in Tokens : token' = [token EXCEPT ![e] = t]
    BY <1>2 DEF CreateObject, Busy, speakVars, history
  <2>2. CASE cached # None
    <3>1. /\ rt' = [rt EXCEPT ![e] = cached] /\ cached' = None /\ UNCHANGED made
          /\ runtimes' = [runtimes EXCEPT ![cached].silence = FALSE]
      BY <2>1, <2>2 DEF Create
    <3>2. runtimes' \in [Runtimes -> Members] /\ \A r \in Runtimes : Identified(runtimes'[r])
      BY <2>2, <3>1, SilenceFacts DEF SpeakTypes
    <3>3. SpeakTypes'
      BY <2>1, <2>2, <3>1, <3>2 DEF SpeakTypes
    <3>4. \A d \in Engines : rt'[d] # None => token'[d] \in Tokens
      BY <2>1, <3>1 DEF SpeakTypes, ObjectsAreWhole
    <3> QED BY <2>1, <3>2, <3>3, <3>4, IdleVoices
  <2>3. CASE cached = None
    <3>1. /\ \E r \in Runtimes \ made : rt' = [rt EXCEPT ![e] = r] /\ made' = made \cup {r}
          /\ UNCHANGED <<runtimes, cached>>
      BY <2>1, <2>3 DEF Create
    <3>2. SpeakTypes'
      BY <2>1, <3>1 DEF SpeakTypes
    <3>3. \A d \in Engines : rt'[d] # None => token'[d] \in Tokens
      BY <2>1, <3>1 DEF SpeakTypes, ObjectsAreWhole
    <3> QED BY <2>1, <3>1, <3>2, <3>3, IdleVoices
  <2> QED BY <2>2, <2>3
<1>3. CASE ReleaseObject(e)
  <2>1. /\ ~Busy /\ ~Busy' /\ UNCHANGED <<clause, made>> /\ rt[e] # None
        /\ rt' = [rt EXCEPT ![e] = None] /\ token' = [token EXCEPT ![e] = NoToken]
    BY <1>3 DEF ReleaseObject, Destroy, Busy, speakVars, history
  <2>2. CASE cached = None
    <3>1. /\ rt[e] \in Runtimes /\ cached' = rt[e]
          /\ runtimes' = [runtimes EXCEPT ![rt[e]].silence = FALSE]
      BY <1>3, <2>1, <2>2 DEF ReleaseObject, Destroy, SpeakTypes
    <3>2. runtimes' \in [Runtimes -> Members] /\ \A r \in Runtimes : Identified(runtimes'[r])
      BY <3>1, SilenceFacts
    <3>3. SpeakTypes'
      BY <2>1, <3>1, <3>2 DEF SpeakTypes
    <3>4. \A d \in Engines : rt'[d] # None => token'[d] \in Tokens
      BY <2>1 DEF SpeakTypes, ObjectsAreWhole
    <3> QED BY <2>1, <3>2, <3>3, <3>4, IdleVoices
  <2>3. CASE cached # None
    <3>1. UNCHANGED <<runtimes, cached>>
      BY <1>3, <2>3 DEF ReleaseObject, Destroy
    <3>2. SpeakTypes'
      BY <2>1, <3>1 DEF SpeakTypes
    <3>3. \A d \in Engines : rt'[d] # None => token'[d] \in Tokens
      BY <2>1 DEF SpeakTypes, ObjectsAreWhole
    <3> QED BY <2>1, <3>1, <3>2, <3>3, IdleVoices
  <2> QED BY <2>2, <2>3
<1>4. CASE GetOutputFormat(e)
  <2>1. /\ ~Busy /\ ~Busy' /\ rt[e] \in Runtimes
        /\ runtimes' = [runtimes EXCEPT ![rt[e]] = Initialized(rt[e])]
        /\ UNCHANGED <<made, cached, rt, token, clause>>
    BY <1>4 DEF GetOutputFormat, Busy, speakVars, history, SpeakTypes
  <2>2. Initialized(rt[e]) \in Members /\ Identified(Initialized(rt[e]))
    BY <2>1 DEF Initialized, Members, Identified, SpeakTypes
  <2>3. runtimes' \in [Runtimes -> Members] /\ \A r \in Runtimes : Identified(runtimes'[r])
    BY <2>1, <2>2 DEF SpeakTypes
  <2>4. SpeakTypes'
    BY <2>1, <2>3 DEF SpeakTypes
  <2> QED BY <2>1, <2>3, <2>4, IdleVoices DEF ObjectsAreWhole
<1> QED BY <1>1, <1>2, <1>3, <1>4 DEF Manage

\* Speak begins: the object's token is wanted, and the runtime set to its language.
LEMMA SpeakVoices ==
    ASSUME VInv, NEW e \in Engines, Speak(e)
    PROVE  VInv'
<1> USE DEF VInv
<1>1. /\ ~Busy /\ Busy' /\ rt[e] # None /\ engine' = e
      /\ UNCHANGED <<made, cached, rt, token, clause>>
  BY DEF Speak, Busy
<1>2. rt[e] \in Runtimes /\ token[e] \in [lang : Langs, voice : Voices]
  BY <1>1, EngineAssumption DEF SpeakTypes, ObjectsAreWhole
<1>3. PICK text \in Texts, read \in BOOLEAN :
        /\ wanted' = [lang |-> token[e].lang, voice |-> token[e].voice, read |-> read,
                      text |-> text]
        /\ \E chosen \in LanguageSet(Initialized(rt[e]), token[e].lang, read,
                                     espeakUp', espeakVoice) :
              runtimes' = [runtimes EXCEPT ![rt[e]] = chosen[1]]
  BY DEF Speak
<1>4. PICK chosen \in LanguageSet(Initialized(rt[e]), token[e].lang, read,
                                  espeakUp', espeakVoice) :
        runtimes' = [runtimes EXCEPT ![rt[e]] = chosen[1]]
  BY <1>3
<1>5. Initialized(rt[e]) \in Members /\ Identified(Initialized(rt[e]))
  BY <1>2 DEF Initialized, Members, Identified, SpeakTypes
<1>6. /\ chosen[1] \in Members /\ Identified(chosen[1])
      /\ read => /\ chosen[1].pack = token[e].lang /\ chosen[1].langTag = token[e].lang
                 /\ espeakUp' /\ token[e].lang \in Named
                      => chosen[1].identifier = token[e].lang
  BY <1>2, <1>5, LanguageSetFacts
<1>7. /\ runtimes' \in [Runtimes -> Members] /\ \A r \in Runtimes : Identified(runtimes'[r])
      /\ Speaker' = chosen[1]
  BY <1>1, <1>2, <1>4, <1>6 DEF SpeakTypes, Speaker
<1>8. SpeakTypes' /\ ObjectsAreWhole'
  BY <1>1, <1>2, <1>3, <1>7 DEF SpeakTypes, ObjectsAreWhole
<1>9. LanguageIsWanted'
  BY <1>3, <1>6, <1>7 DEF LanguageIsWanted
<1>10. clause' = NoClause
  BY <1>1 DEF ProfileIsWanted
<1>11. ProfileIsWanted' /\ SpokenInItsVoice'
  BY <1>1, <1>10 DEF ProfileIsWanted, SpokenInItsVoice, NoClause
<1> QED BY <1>7, <1>8, <1>9, <1>11

\* A clause: the profile is set, the language stays, and eSpeak is told the voice again.
LEMMA QueueClauseVoices ==
    ASSUME VInv, QueueClause
    PROVE  VInv'
<1> USE DEF VInv
<1> DEFINE m == VoiceSet(Speaker, wanted.voice)
<1>1. /\ Busy /\ Busy'
      /\ UNCHANGED <<espeakUp, made, cached, rt, token, engine, wanted>>
  BY DEF QueueClause, Busy
<1>2. /\ rt[engine] \in Runtimes /\ Speaker \in Members /\ Identified(Speaker)
      /\ wanted.lang \in Langs /\ wanted.voice \in Voices
  BY <1>1 DEF SpeakTypes, ObjectsAreWhole, Speaker
<1>3. /\ m \in Members /\ Identified(m) /\ m.profile = wanted.voice
      /\ m.pack = Speaker.pack /\ m.langTag = Speaker.langTag
      /\ m.identifier = Speaker.identifier
      /\ Speaker.profile = wanted.voice => m.tone = wanted.voice
  BY <1>2, VoiceSetFacts
<1>4. PICK chosen \in IF m.langTag # NoLang THEN {<<m, espeakVoice>>}
                      ELSE UNION {LanguageSet(m, English, read, espeakUp, espeakVoice) :
                                  read \in BOOLEAN} :
        /\ clause' = [number |-> clause.number + 1, spoken |-> TRUE,
                      pack |-> chosen[1].pack, up |-> espeakUp,
                      voice |-> VoiceOfPhonemes(chosen[1], espeakUp, chosen[2]),
                      profile |-> chosen[1].profile, tone |-> chosen[1].tone]
        /\ \/ runtimes' = [runtimes EXCEPT ![rt[engine]] = chosen[1]]
           \/ runtimes' = [runtimes EXCEPT ![rt[engine]] = [chosen[1] EXCEPT !.silence = FALSE]]
  BY DEF QueueClause, Speaker
<1> HIDE DEF m
<1>5. /\ chosen[1] \in Members /\ Identified(chosen[1])
      /\ chosen[1].profile = wanted.voice /\ chosen[1].tone = m.tone
      /\ m.langTag # NoLang => chosen[1] = m
  <2>1. CASE m.langTag # NoLang
    BY <1>3, <1>4, <2>1
  <2>2. CASE m.langTag = NoLang
    <3>1. PICK read \in BOOLEAN : chosen \in LanguageSet(m, English, read, espeakUp, espeakVoice)
      BY <1>4, <2>2
    <3>2. English \in Langs
      BY RuntimeAssumption
    <3> QED BY <1>3, <2>2, <3>1, <3>2, LanguageSetFacts
  <2> QED BY <2>1, <2>2
<1>6. /\ runtimes' \in [Runtimes -> Members] /\ \A r \in Runtimes : Identified(runtimes'[r])
      /\ Speaker'.pack = chosen[1].pack /\ Speaker'.langTag = chosen[1].langTag
      /\ Speaker'.identifier = chosen[1].identifier
      /\ Speaker'.profile = chosen[1].profile
  <2>1. PICK n \in Members :
          /\ runtimes' = [runtimes EXCEPT ![rt[engine]] = n]
          /\ Identified(n) /\ n.pack = chosen[1].pack /\ n.langTag = chosen[1].langTag
          /\ n.identifier = chosen[1].identifier /\ n.profile = chosen[1].profile
    <3> DEFINE n == [chosen[1] EXCEPT !.silence = FALSE]
    <3>1. /\ n \in Members /\ Identified(n)
          /\ n.pack = chosen[1].pack /\ n.langTag = chosen[1].langTag
          /\ n.identifier = chosen[1].identifier /\ n.profile = chosen[1].profile
      BY <1>5 DEF Members, Identified
    <3>2. \/ runtimes' = [runtimes EXCEPT ![rt[engine]] = chosen[1]]
          \/ runtimes' = [runtimes EXCEPT ![rt[engine]] = n]
      BY <1>4
    <3> HIDE DEF n
    <3> QED BY <1>5, <3>1, <3>2
  <2> QED BY <1>1, <1>2, <2>1 DEF SpeakTypes, Speaker
<1>7. SpeakTypes' /\ ObjectsAreWhole'
  BY <1>1, <1>4, <1>6 DEF SpeakTypes, ObjectsAreWhole
<1>8. wanted.read =>
        /\ chosen[1] = m /\ m.pack = wanted.lang
        /\ espeakUp /\ wanted.lang \in Named => m.identifier = wanted.lang
  <2>1. NoLang \notin Langs
    BY RuntimeAssumption
  <2> QED BY <1>1, <1>2, <1>3, <1>5, <2>1 DEF LanguageIsWanted
<1>9. LanguageIsWanted'
  BY <1>1, <1>3, <1>6, <1>8 DEF LanguageIsWanted
<1>10. ProfileIsWanted'
  BY <1>1, <1>5, <1>6 DEF ProfileIsWanted
<1>11. SpokenInItsVoice'
  <2>1. clause'.profile = wanted.voice
    BY <1>4, <1>5
  <2>2. clause'.number > 1 => clause'.tone = wanted.voice
    <3> SUFFICES ASSUME clause'.number > 1 PROVE chosen[1].tone = wanted.voice
      BY <1>4
    <3>1. clause.number > 0
      BY <1>4 DEF SpeakTypes
    <3>2. Speaker.profile = wanted.voice
      BY <1>1, <3>1 DEF ProfileIsWanted
    <3> QED BY <1>3, <1>5, <3>2
  <2>3. ASSUME wanted.read
        PROVE  /\ clause'.pack = wanted.lang
               /\ clause'.up /\ wanted.lang \in Named => clause'.voice = wanted.lang
    <3>1. NoLang \notin Named
      BY RuntimeAssumption
    <3> QED BY <1>4, <1>8, <2>3, <3>1 DEF VoiceOfPhonemes
  <2> QED BY <1>1, <2>1, <2>2, <2>3 DEF SpokenInItsVoice
<1> QED BY <1>6, <1>7, <1>9, <1>10, <1>11

LEMMA NextVoices == VInv /\ [Next]_vars => VInv'
<1> SUFFICES ASSUME VInv, [Next]_vars PROVE VInv'
  OBVIOUS
<1>1. CASE UNCHANGED vars
  BY <1>1, VoicesUntouched DEF vars, speakVars, history, Busy
<1>2. CASE Silence \/ MarksBatch \/ BeginBatch \/ ReportDue \/ EndBatch
  <2>1. UNCHANGED <<runtimeVars, token, engine, wanted, clause>> /\ Busy' = Busy
    BY <1>2 DEF Silence, MarksBatch, BeginBatch, ReportDue, EndBatch, Busy, speakVars, history
  <2> QED BY <2>1, VoicesUntouched
<1>3. CASE WriteChunk
  <2>1. UNCHANGED <<runtimeVars, token, engine, wanted, clause>> /\ Busy' = Busy
    BY <1>3 DEF WriteChunk, Busy
  <2> QED BY <2>1, VoicesUntouched
<1>4. CASE PadEnd
  <2>1. UNCHANGED <<runtimeVars, token, engine, wanted, clause>> /\ Busy' = Busy
    BY <1>4 DEF PadEnd, Busy, speakVars
  <2> QED BY <2>1, VoicesUntouched
<1>5. CASE SkipSilentBatch \/ BeginPlay
  <2>1. /\ Busy /\ Busy' /\ clause' = [NoClause EXCEPT !.number = clause.number]
        /\ UNCHANGED <<runtimeVars, token, engine, wanted>>
    BY <1>5 DEF SkipSilentBatch, BeginPlay, Busy
  <2> QED BY <2>1, ClauseDropped
<1>6. CASE Return
  <2>1. /\ ~Busy' /\ clause' = NoClause /\ UNCHANGED <<runtimeVars, token>>
    BY <1>6 DEF Return, Busy
  <2> QED
    BY <2>1 DEF VInv, SpeakTypes, ObjectsAreWhole, LanguageIsWanted, ProfileIsWanted,
       SpokenInItsVoice, NoClause, runtimeVars
<1> QED
  BY <1>1, <1>2, <1>3, <1>4, <1>5, <1>6, GiveUpVoices, QueueClauseVoices, SpeakVoices,
     ManageVoices DEF Next, Host, SpeakStep

\* Every clause is spoken in the voice of its token, whatever other objects did to the
\* runtime and to eSpeak before.
THEOREM VoiceSafety == Spec => []SpokenInItsVoice
<1>1. VInv => SpokenInItsVoice
  BY DEF VInv
<1> QED BY <1>1, InitVoices, NextVoices, PTL DEF Spec

-----------------------------------------------------------------------------
(* Bookmarks keep their place.                                             *)

Mark == [id : Nat, at : Nat]
Batch == [chars : Nat, marks : Seq(Mark)]
Event == [id : Nat, early : BOOLEAN, late : BOOLEAN]
Ids(marks) == {marks[k].id : k \in DOMAIN marks}
MarksIn(bs) == UNION {Ids(bs[i].marks) : i \in DOMAIN bs}

\* The marks of a batch are in the order of the text, none behind its end.
Whole(b) ==
    /\ b \in Batch
    /\ \A k \in DOMAIN b.marks : b.marks[k].at <= b.chars
    /\ \A k, l \in DOMAIN b.marks :
          k < l => b.marks[k].id < b.marks[l].id /\ b.marks[k].at <= b.marks[l].at

\* So are the batches.
AllWhole(bs) ==
    /\ bs \in Seq(Batch) /\ \A i \in DOMAIN bs : Whole(bs[i])
    /\ \A i, j \in DOMAIN bs : i < j =>
          \A x \in Ids(bs[i].marks), y \in Ids(bs[j].marks) : x < y

\* What was reported comes before what is left.
EventsInOrder ==
    /\ events \in Seq(Event)
    /\ \A j, k \in DOMAIN events : j < k => events[j].id < events[k].id
    /\ \A k \in DOMAIN events : \A x \in MarksIn(batches) : events[k].id < x
    /\ \A k \in DOMAIN events : ~events[k].early /\ ~events[k].late

\* No mark gets lost.
MarksAccounted ==
    /\ Busy => MarksOf(wanted.text) = silent \cup Ids(events) \cup MarksIn(batches)
    /\ ~Busy => events = <<>> /\ silent = {} /\ audio = 0

\* Where the audio is, at each step of Speak.
AudioFits ==
    /\ {audio, position, written} \subseteq Nat
    /\ step \in {"idle", "batch", "clause", "play", "write", "marks", "return"}
    /\ step = "batch" => audio = 0
    /\ step \in {"clause", "play", "write", "marks"} => batches # <<>> /\ Head(batches).chars > 0
    /\ step \in {"play", "write", "marks"} => audio > 0
    /\ step \in {"play", "write"} => written <= position /\ position <= audio
    /\ step = "write" => position < audio
    /\ step = "marks" => aborted
    /\ step = "return" /\ ~aborted => batches = <<>>

\* A mark that is left was not due when the last chunk was begun.
NotYetLate ==
    step \in {"play", "write", "marks"} =>
        \A k \in DOMAIN Marks :
            written < Threshold(Marks[k]) + (IF step = "write" THEN 0 ELSE Chunk)

MInv == AllWhole(batches) /\ EventsInOrder /\ MarksAccounted /\ AudioFits /\ NotYetLate

-----------------------------------------------------------------------------
(* Induction over a set of numbers.                                        *)

LEMMA MinNat ==
  ASSUME NEW T \in SUBSET Nat, T # {} PROVE \E m \in T : \A y \in T : m <= y
<1> DEFINE R == {ss \in Nat \X Nat : ss[1] < ss[2]}
<1>1. IsWellFoundedOn(R, Nat)
  BY NatLessThanWellFounded, Zenon DEF OpToRel
<1>2. PICK m \in T : \A y \in T : ~ (<<y, m>> \in R)
  BY <1>1, WFMin
<1>3. ASSUME NEW y \in T PROVE m <= y
  <2>1. <<y, m>> \in Nat \X Nat /\ ~ (y < m) BY <1>2
  <2> QED BY <2>1
<1> QED BY <1>3

LEMMA UpTo ==
  ASSUME NEW n \in Nat, NEW G, 0 \in G, \A k \in 0 .. n - 1 : k \in G => k + 1 \in G
  PROVE  \A k \in 0 .. n : k \in G
<1> DEFINE Bad == {k \in 0 .. n : k \notin G}
<1>1. SUFFICES ASSUME Bad # {} PROVE FALSE
  OBVIOUS
<1>0. Bad \in SUBSET Nat
  OBVIOUS
<1>2. PICK m \in Bad : \A y \in Bad : m <= y
  BY <1>0, <1>1, MinNat
<1>3. m - 1 \in 0 .. n - 1 /\ m - 1 \notin Bad
  BY <1>2
<1>4. m - 1 + 1 \in G
  BY <1>3
<1> QED BY <1>2, <1>4

\* Of the numbers up to n, those in a set that has 0 have a last one.
LEMMA LastOf ==
  ASSUME NEW n \in Nat, NEW T \in SUBSET (0 .. n), 0 \in T
  PROVE  \E m \in T : \A k \in T : k <= m
<1> DEFINE Bounds == {m \in 0 .. n : \A k \in T : k <= m}
<1>1. Bounds \in SUBSET Nat /\ Bounds # {}
  <2>1. n \in Bounds
    OBVIOUS
  <2> QED BY <2>1
<1>2. PICK m \in Bounds : \A y \in Bounds : m <= y
  BY <1>1, MinNat
<1>3. m \in T
  <2>1. CASE m = 0
    BY <2>1
  <2>2. CASE m # 0
    <3>1. m - 1 \in 0 .. n /\ m - 1 \notin Bounds
      BY <1>2, <2>2
    <3>2. PICK k \in T : k > m - 1
      BY <3>1
    <3> QED BY <1>2, <3>2
  <2> QED BY <2>1, <2>2
<1> QED BY <1>2, <1>3

-----------------------------------------------------------------------------
(* The batches of a text.                                                  *)

NoBatches == [done |-> <<>>, cur |-> NoBatch]
JoinStep(text, f, n) == IF n = 0 THEN NoBatches ELSE AddFragment(f[n - 1], text[n], n)
IsJoined(text, n, f) == f = [k \in 0 .. n |-> JoinStep(text, f, k)]

LEMMA JoinedFacts ==
  ASSUME NEW text, Len(text) \in Nat
  PROVE  /\ Joined(text)[0] = NoBatches
         /\ \A n \in 0 .. Len(text) - 1 :
               Joined(text)[n + 1] = AddFragment(Joined(text)[n], text[n + 1], n + 1)
<1> DEFINE len == Len(text)
           Done(n) == \E f : IsJoined(text, n, f)
           G == {n \in 0 .. len : Done(n)}
<1>1. Done(0)
  <2> DEFINE f == [k \in 0 .. 0 |-> NoBatches]
  <2>1. f = [k \in 0 .. 0 |-> JoinStep(text, f, k)]
    BY DEF JoinStep
  <2> HIDE DEF f
  <2> QED BY <2>1, Zenon DEF IsJoined
<1>2. ASSUME NEW n \in 0 .. len - 1, Done(n) PROVE Done(n + 1)
  <2>1. PICK f : IsJoined(text, n, f)
    BY <1>2
  <2> DEFINE g == [k \in 0 .. n + 1 |-> JoinStep(text, f, k)]
  <2>2. ASSUME NEW k \in 0 .. n PROVE g[k] = f[k]
    BY <2>1 DEF IsJoined
  <2>3. ASSUME NEW k \in 0 .. n + 1 PROVE JoinStep(text, g, k) = JoinStep(text, f, k)
    <3>1. k # 0 => k - 1 \in 0 .. n
      OBVIOUS
    <3> HIDE DEF g
    <3> QED BY <2>2, <3>1 DEF JoinStep
  <2>4. g = [k \in 0 .. n + 1 |-> JoinStep(text, g, k)]
    BY <2>3, Zenon
  <2> HIDE DEF g
  <2> QED BY <2>4, Zenon DEF IsJoined
<1> HIDE DEF Done
<1>3. \A n \in 0 .. len : n \in G
  <2>1. 0 \in G /\ \A n \in 0 .. len - 1 : n \in G => n + 1 \in G
    BY <1>1, <1>2
  <2> HIDE DEF G
  <2> QED BY <2>1, UpTo
<1>4. \E f : IsJoined(text, len, f)
  BY <1>3 DEF Done
<1>5. \A f : IsJoined(text, len, f)
                <=> f = [k \in 0 .. len |-> IF k = 0 THEN NoBatches
                                            ELSE AddFragment(f[k - 1], text[k], k)]
  BY Zenon DEF IsJoined, JoinStep
<1>6. Joined(text) = [k \in 0 .. len |-> IF k = 0 THEN NoBatches
                                         ELSE AddFragment(Joined(text)[k - 1], text[k], k)]
  BY <1>4, <1>5, Zenon DEF Joined, NoBatches
<1> QED BY <1>6

\* A batch behind others.
LEMMA AppendFacts ==
  ASSUME NEW bs, AllWhole(bs), NEW b, Whole(b), \A x \in MarksIn(bs), y \in Ids(b.marks) : x < y
  PROVE  /\ AllWhole(Append(bs, b))
         /\ MarksIn(Append(bs, b)) = MarksIn(bs) \cup Ids(b.marks)
<1> DEFINE new == Append(bs, b)
<1>1. bs \in Seq(Batch) /\ b \in Batch
  BY DEF AllWhole, Whole
<1>2. /\ new \in Seq(Batch) /\ Len(bs) \in Nat /\ DOMAIN bs = 1 .. Len(bs)
      /\ DOMAIN new = 1 .. Len(bs) + 1 /\ new[Len(bs) + 1] = b
      /\ \A i \in 1 .. Len(bs) : new[i] = bs[i]
  BY <1>1
<1> HIDE DEF new
<1>3. \A i \in DOMAIN new : Whole(new[i])
  BY <1>2 DEF AllWhole
<1>4. ASSUME NEW i \in DOMAIN new, NEW j \in DOMAIN new, i < j,
             NEW x \in Ids(new[i].marks), NEW y \in Ids(new[j].marks)
      PROVE  x < y
  <2>1. i \in DOMAIN bs /\ x \in Ids(bs[i].marks)
    BY <1>2, <1>4
  <2>2. CASE j \in DOMAIN bs
    BY <1>2, <1>4, <2>1, <2>2 DEF AllWhole
  <2>3. CASE j \notin DOMAIN bs
    <3>1. y \in Ids(b.marks)
      BY <1>2, <1>4, <2>3
    <3>2. x \in MarksIn(bs)
      BY <2>1 DEF MarksIn
    <3> QED BY <3>1, <3>2
  <2> QED BY <2>2, <2>3
<1>5. MarksIn(new) = MarksIn(bs) \cup Ids(b.marks)
  <2>1. \A i \in DOMAIN new : i \in DOMAIN bs \/ new[i] = b
    BY <1>2
  <2>2. \A x \in MarksIn(new) : x \in MarksIn(bs) \cup Ids(b.marks)
    BY <1>2, <2>1 DEF MarksIn
  <2>3. \A x \in MarksIn(bs) \cup Ids(b.marks) : x \in MarksIn(new)
    BY <1>2 DEF MarksIn
  <2> QED BY <2>2, <2>3
<1>6. AllWhole(new)
  BY <1>2, <1>3, <1>4 DEF AllWhole
<1> QED BY <1>5, <1>6 DEF new

\* What the first fragments make: their marks, in order.
Joins(acc, text, n) ==
    /\ acc = [done |-> acc.done, cur |-> acc.cur]
    /\ AllWhole(acc.done) /\ Whole(acc.cur)
    /\ \A x \in MarksIn(acc.done), y \in Ids(acc.cur.marks) : x < y
    /\ MarksIn(acc.done) \cup Ids(acc.cur.marks) = {i \in 1 .. n : text[i] = "mark"}

LEMMA NoBatchFacts ==
  /\ Whole(NoBatch) /\ Ids(NoBatch.marks) = {}
  /\ Whole([NoBatch EXCEPT !.chars = 1]) /\ Ids([NoBatch EXCEPT !.chars = 1].marks) = {}
<1> DEFINE none == [chars |-> 0, marks |-> <<>>]
           one == [chars |-> 1, marks |-> <<>>]
<1>1. NoBatch = none /\ [NoBatch EXCEPT !.chars = 1] = one
  BY DEF NoBatch
<1>2. none \in Batch /\ one \in Batch
  BY DEF Batch
<1>3. DOMAIN none.marks = {} /\ DOMAIN one.marks = {}
  OBVIOUS
<1> HIDE DEF none, one
<1>4. Whole(none) /\ Whole(one) /\ Ids(none.marks) = {} /\ Ids(one.marks) = {}
  BY <1>2, <1>3 DEF Whole, Ids
<1> QED BY <1>1, <1>4

LEMMA FlushFacts ==
  ASSUME NEW acc, NEW text, NEW n, Joins(acc, text, n)
  PROVE  Joins(Flush(acc), text, n) /\ Flush(acc).cur = NoBatch
<1>1. CASE acc.cur = NoBatch
  <2>1. Flush(acc) = acc
    BY <1>1 DEF Flush
  <2> QED BY <1>1, <2>1
<1>2. CASE acc.cur # NoBatch
  <2> DEFINE more == Append(acc.done, acc.cur)
  <2>1. Flush(acc) = [done |-> more, cur |-> NoBatch]
    BY <1>2 DEF Flush
  <2>2. AllWhole(more) /\ MarksIn(more) = MarksIn(acc.done) \cup Ids(acc.cur.marks)
    BY AppendFacts DEF Joins
  <2> HIDE DEF more
  <2> QED BY <2>1, <2>2, NoBatchFacts DEF Joins
<1> QED BY <1>1, <1>2

LEMMA AddFragmentFacts ==
  ASSUME NEW acc, NEW text, NEW n \in Nat, Joins(acc, text, n),
         text[n + 1] \in {"mark", "text", "spell", "other"}
  PROVE  Joins(AddFragment(acc, text[n + 1], n + 1), text, n + 1)
<1> DEFINE new == AddFragment(acc, text[n + 1], n + 1)
<1>0. {i \in 1 .. n + 1 : text[i] = "mark"} =
         {i \in 1 .. n : text[i] = "mark"} \cup (IF text[n + 1] = "mark" THEN {n + 1} ELSE {})
  OBVIOUS
<1>1. CASE text[n + 1] = "mark"
  <2> DEFINE b == acc.cur
             m == [id |-> n + 1, at |-> b.chars]
             more == Append(b.marks, m)
             c == [chars |-> b.chars, marks |-> more]
  <2>1. new = [done |-> acc.done, cur |-> c]
    <3>1. new = [acc EXCEPT !.cur.marks = Append(@, m)]
      BY <1>1 DEF AddFragment
    <3> QED BY <3>1 DEF Joins, Whole, Batch
  <2>2. /\ b.marks \in Seq(Mark) /\ m \in Mark /\ b.chars \in Nat
        /\ \A k \in DOMAIN b.marks : b.marks[k].at <= b.chars
        /\ \A k, l \in DOMAIN b.marks :
              k < l => b.marks[k].id < b.marks[l].id /\ b.marks[k].at <= b.marks[l].at
    BY DEF Joins, Whole, Batch, Mark
  <2>3. /\ more \in Seq(Mark) /\ Len(b.marks) \in Nat /\ DOMAIN b.marks = 1 .. Len(b.marks)
        /\ DOMAIN more = 1 .. Len(b.marks) + 1 /\ more[Len(b.marks) + 1] = m
        /\ \A k \in 1 .. Len(b.marks) : more[k] = b.marks[k]
    BY <2>2
  <2>4. m.id = n + 1 /\ m.at = b.chars
    OBVIOUS
  <2>5. \A x \in MarksIn(acc.done) \cup Ids(b.marks) : x \in 1 .. n
    BY DEF Joins
  <2>6. \A k \in DOMAIN b.marks : b.marks[k].id \in 1 .. n
    BY <2>5 DEF Ids
  <2> HIDE DEF more, m
  <2>7. c \in Batch
    BY <2>2, <2>3 DEF Batch
  <2>8. \A k \in DOMAIN more : more[k].at <= b.chars
    <3>1. \A k \in DOMAIN b.marks : more[k].at <= b.chars
      BY <2>2, <2>3
    <3>2. more[Len(b.marks) + 1].at <= b.chars
      BY <2>2, <2>3, <2>4
    <3>3. \A k \in DOMAIN more : k \in DOMAIN b.marks \/ k = Len(b.marks) + 1
      BY <2>3
    <3> QED BY <3>1, <3>2, <3>3
  <2>9. ASSUME NEW k \in DOMAIN more, NEW l \in DOMAIN more, k < l
        PROVE  more[k].id < more[l].id /\ more[k].at <= more[l].at
    <3>1. k \in DOMAIN b.marks /\ more[k] = b.marks[k]
      BY <2>3, <2>9
    <3>2. CASE l \in DOMAIN b.marks
      BY <2>2, <2>3, <2>9, <3>1, <3>2
    <3>3. CASE l \notin DOMAIN b.marks
      <4>1. more[l] = m
        BY <2>3, <3>3
      <4> QED BY <2>2, <2>4, <2>6, <3>1, <4>1
    <3> QED BY <3>2, <3>3
  <2>10. Whole(c)
    BY <2>7, <2>8, <2>9 DEF Whole
  <2>11. Ids(more) = Ids(b.marks) \cup {n + 1}
    <3>1. \A k \in DOMAIN more : k \in DOMAIN b.marks \/ more[k] = m
      BY <2>3
    <3>2. \A x \in Ids(more) : x \in Ids(b.marks) \cup {n + 1}
      BY <2>3, <2>4, <3>1 DEF Ids
    <3>3. \A x \in Ids(b.marks) \cup {n + 1} : x \in Ids(more)
      BY <2>3, <2>4 DEF Ids
    <3> QED BY <3>2, <3>3
  <2>12. \A x \in MarksIn(acc.done), y \in Ids(more) : x < y
    BY <2>5, <2>11 DEF Joins
  <2>13. MarksIn(acc.done) \cup Ids(more) = {i \in 1 .. n + 1 : text[i] = "mark"}
    BY <1>0, <1>1, <2>11 DEF Joins
  <2> QED BY <2>1, <2>10, <2>12, <2>13 DEF Joins
<1>2. CASE text[n + 1] = "text"
  <2> DEFINE b == acc.cur
             c == [chars |-> IF b.chars = 0 THEN 1 ELSE b.chars + 2, marks |-> b.marks]
  <2>1. new = [done |-> acc.done, cur |-> c]
    <3>1. new = [acc EXCEPT !.cur.chars = IF @ = 0 THEN 1 ELSE @ + 2]
      BY <1>2 DEF AddFragment
    <3> QED BY <3>1 DEF Joins, Whole, Batch
  <2>2. Whole(b)
    BY DEF Joins
  <2>3. c \in Batch /\ b.chars \in Nat /\ b.chars <= c.chars
    BY <2>2 DEF Whole, Batch
  <2>4. \A k \in DOMAIN b.marks : b.marks[k].at \in Nat
    <3>1. b.marks \in Seq(Mark)
      BY <2>2 DEF Whole, Batch
    <3>2. \A k \in DOMAIN b.marks : b.marks[k] \in Mark
      BY <3>1
    <3> QED BY <3>2 DEF Mark
  <2>5. Whole(c)
    BY <2>2, <2>3, <2>4 DEF Whole
  <2> QED BY <1>0, <1>2, <2>1, <2>5 DEF Joins
<1>3. CASE text[n + 1] = "spell"
  <2> DEFINE f == Flush(acc)
             b == [NoBatch EXCEPT !.chars = 1]
             more == Append(f.done, b)
  <2>1. Joins(f, text, n) /\ f.cur = NoBatch
    BY FlushFacts
  <2>2. new = [f EXCEPT !.done = Append(@, b)]
    BY <1>3 DEF AddFragment
  <2> HIDE DEF f, b
  <2>3. new = [done |-> more, cur |-> NoBatch]
    BY <2>1, <2>2 DEF Joins
  <2>4. Whole(b) /\ Ids(b.marks) = {}
    BY NoBatchFacts DEF b
  <2>5. AllWhole(more) /\ MarksIn(more) = MarksIn(f.done)
    <3>1. AllWhole(f.done) /\ \A x \in MarksIn(f.done), y \in Ids(b.marks) : x < y
      BY <2>1, <2>4 DEF Joins
    <3>2. AllWhole(more) /\ MarksIn(more) = MarksIn(f.done) \cup Ids(b.marks)
      BY <2>4, <3>1, AppendFacts
    <3> QED BY <2>4, <3>2
  <2> HIDE DEF more, new
  <2> QED BY <1>0, <1>3, <2>1, <2>3, <2>5, NoBatchFacts DEF Joins, new
<1>4. CASE text[n + 1] = "other"
  <2>1. new = Flush(acc)
    BY <1>4 DEF AddFragment
  <2>2. Joins(new, text, n)
    BY <2>1, FlushFacts
  <2> QED BY <1>0, <1>4, <2>2 DEF Joins
<1> QED BY <1>1, <1>2, <1>3, <1>4

LEMMA BatchesFacts ==
  ASSUME NEW text \in Texts
  PROVE  AllWhole(Batches(text)) /\ MarksIn(Batches(text)) = MarksOf(text)
<1> DEFINE len == Len(text)
           acc == Joined(text)
           Done(n) == Joins(acc[n], text, n)
           G == {n \in 0 .. len : Done(n)}
<1>1. /\ text \in Seq({"mark", "text", "spell", "other"}) /\ len \in Nat
      /\ DOMAIN text = 1 .. len
  BY EngineAssumption
<1>2. /\ acc[0] = NoBatches
      /\ \A n \in 0 .. len - 1 : acc[n + 1] = AddFragment(acc[n], text[n + 1], n + 1)
  BY <1>1, JoinedFacts
<1> HIDE DEF acc
<1>3. Done(0)
  <2>1. AllWhole(<<>>) /\ MarksIn(<<>>) = {}
    BY DEF AllWhole, MarksIn
  <2> QED BY <1>2, <2>1, NoBatchFacts DEF Joins, NoBatches
<1>4. ASSUME NEW n \in 0 .. len - 1, Done(n) PROVE Done(n + 1)
  <2>1. text[n + 1] \in {"mark", "text", "spell", "other"}
    BY <1>1
  <2>2. Joins(AddFragment(acc[n], text[n + 1], n + 1), text, n + 1)
    BY <1>4, <2>1, AddFragmentFacts
  <2> QED BY <1>2, <2>2
<1> HIDE DEF Done
<1>5. \A n \in 0 .. len : n \in G
  <2>1. 0 \in G /\ \A n \in 0 .. len - 1 : n \in G => n + 1 \in G
    BY <1>1, <1>3, <1>4
  <2> HIDE DEF G
  <2> QED BY <1>1, <2>1, UpTo
<1>6. Joins(acc[len], text, len)
  BY <1>1, <1>5 DEF Done
<1>7. Joins(Flush(acc[len]), text, len) /\ Flush(acc[len]).cur = NoBatch
  BY <1>6, FlushFacts
<1>8. Batches(text) = Flush(acc[len]).done
  BY DEF Batches, acc
<1> QED BY <1>1, <1>7, <1>8, NoBatchFacts DEF Joins, MarksOf

-----------------------------------------------------------------------------
(* What is reported of a batch, and what is left.                          *)

LEMMA Quotient ==
  ASSUME NEW a \in Nat, NEW b \in Nat, NEW x \in Nat, NEW c \in Nat, c > 0, a <= b
  PROVE  /\ (a * x) \div c \in Nat
         /\ (a * x) \div c <= (b * x) \div c
         /\ (c * x) \div c = x
<1> DEFINE p == (a * x) \div c
           q == (b * x) \div c
<1>1. a * x \in Nat /\ b * x \in Nat /\ a * x <= b * x
  OBVIOUS
<1>2. p \in Int /\ q \in Int /\ c * p <= a * x /\ a * x < c * p + c /\ c * q <= b * x /\ b * x < c * q + c
  BY <1>1
<1>3. p >= 0
  BY <1>1, <1>2
<1>4. p <= q
  BY <1>1, <1>2
<1>5. (c * x) \div c = x
  OBVIOUS
<1> QED BY <1>2, <1>3, <1>4, <1>5

\* The marks of the first batch, and their thresholds: in order, none behind the audio.
LEMMA ThresholdFacts ==
  ASSUME AllWhole(batches), batches # <<>>, Head(batches).chars > 0, audio \in Nat
  PROVE  /\ Marks \in Seq(Mark)
         /\ \A k \in DOMAIN Marks : /\ Threshold(Marks[k]) \in Nat
                                    /\ Threshold(Marks[k]) <= audio
         /\ \A k, l \in DOMAIN Marks : k < l =>
               /\ Marks[k].id < Marks[l].id
               /\ Threshold(Marks[k]) <= Threshold(Marks[l])
<1> DEFINE b == Head(batches)
<1>1. Whole(b) /\ b.chars > 0
  BY DEF AllWhole
<1>2. Marks = b.marks /\ \A m : Threshold(m) = (m.at * audio) \div b.chars
  BY DEF Marks, Threshold
<1> HIDE DEF b
<1>3. /\ b.marks \in Seq(Mark) /\ b.chars \in Nat
      /\ \A k \in DOMAIN b.marks : b.marks[k].at <= b.chars
      /\ \A k, l \in DOMAIN b.marks :
            k < l => b.marks[k].id < b.marks[l].id /\ b.marks[k].at <= b.marks[l].at
  BY <1>1 DEF Whole, Batch
<1>4. \A k \in DOMAIN b.marks : b.marks[k].at \in Nat
  <2>1. \A k \in DOMAIN b.marks : b.marks[k] \in Mark
    BY <1>3
  <2> QED BY <2>1 DEF Mark
<1>5. ASSUME NEW k \in DOMAIN Marks
      PROVE  Threshold(Marks[k]) \in Nat /\ Threshold(Marks[k]) <= audio
  <2> DEFINE at == b.marks[k].at
  <2>1. at \in Nat /\ at <= b.chars
    BY <1>2, <1>3, <1>4
  <2>2. Threshold(Marks[k]) = (at * audio) \div b.chars
    BY <1>2
  <2> HIDE DEF at
  <2>3. PICK c : c = b.chars
    OBVIOUS
  <2>4. c \in Nat /\ c > 0 /\ at <= c
    BY <1>1, <1>3, <2>1, <2>3
  <2>5. /\ (at * audio) \div c \in Nat
        /\ (at * audio) \div c <= (c * audio) \div c
        /\ (c * audio) \div c = audio
    BY <2>1, <2>4, Quotient
  <2> QED BY <2>2, <2>3, <2>5
<1>6. ASSUME NEW k \in DOMAIN Marks, NEW l \in DOMAIN Marks, k < l
      PROVE  Marks[k].id < Marks[l].id /\ Threshold(Marks[k]) <= Threshold(Marks[l])
  <2> DEFINE one == b.marks[k].at
             two == b.marks[l].at
  <2>1. one \in Nat /\ two \in Nat /\ one <= two /\ b.marks[k].id < b.marks[l].id
    BY <1>2, <1>3, <1>4, <1>6
  <2>2. /\ Threshold(Marks[k]) = (one * audio) \div b.chars
        /\ Threshold(Marks[l]) = (two * audio) \div b.chars
    BY <1>2
  <2> HIDE DEF one, two
  <2>3. (one * audio) \div b.chars <= (two * audio) \div b.chars
    BY <1>1, <1>3, <2>1, Quotient
  <2> QED BY <1>2, <2>1, <2>2, <2>3
<1> QED BY <1>2, <1>3, <1>5, <1>6

LEMMA HeadFacts ==
  ASSUME AllWhole(batches), batches # <<>>
  PROVE  /\ AllWhole(Tail(batches)) /\ Marks \in Seq(Mark)
         /\ \A k, l \in DOMAIN Marks : k < l => Marks[k].id < Marks[l].id
         /\ MarksIn(batches) = Ids(Marks) \cup MarksIn(Tail(batches))
         /\ \A x \in Ids(Marks), y \in MarksIn(Tail(batches)) : x < y
<1> DEFINE rest == Tail(batches)
           n == Len(batches)
<1>1. /\ batches \in Seq(Batch) /\ n \in Nat /\ n > 0 /\ DOMAIN batches = 1 .. n
      /\ Head(batches) = batches[1]
      /\ rest \in Seq(Batch) /\ DOMAIN rest = 1 .. n - 1
      /\ \A i \in 1 .. n - 1 : rest[i] = batches[i + 1]
  BY DEF AllWhole
<1> HIDE DEF rest, n
<1>2. Marks = batches[1].marks /\ Whole(batches[1])
  BY <1>1 DEF Marks, AllWhole
<1>3. Marks \in Seq(Mark) /\ \A k, l \in DOMAIN Marks : k < l => Marks[k].id < Marks[l].id
  BY <1>2 DEF Whole, Batch
<1>4. AllWhole(rest)
  <2>1. \A i \in DOMAIN rest : Whole(rest[i])
    BY <1>1 DEF AllWhole
  <2>2. ASSUME NEW i \in DOMAIN rest, NEW j \in DOMAIN rest, i < j,
               NEW x \in Ids(rest[i].marks), NEW y \in Ids(rest[j].marks)
        PROVE  x < y
    <3>1. i + 1 \in DOMAIN batches /\ j + 1 \in DOMAIN batches /\ i + 1 < j + 1
          /\ rest[i] = batches[i + 1] /\ rest[j] = batches[j + 1]
      BY <1>1, <2>2
    <3> QED BY <2>2, <3>1 DEF AllWhole
  <2> QED BY <1>1, <2>1, <2>2 DEF AllWhole
<1>5. MarksIn(batches) = Ids(Marks) \cup MarksIn(rest)
  <2>1. \A i \in DOMAIN batches : i = 1 \/ (i - 1 \in DOMAIN rest /\ rest[i - 1] = batches[i])
    BY <1>1
  <2>2. \A x \in MarksIn(batches) : x \in Ids(Marks) \cup MarksIn(rest)
    BY <1>2, <2>1 DEF MarksIn
  <2>3. \A i \in DOMAIN rest : i + 1 \in DOMAIN batches /\ rest[i] = batches[i + 1]
    BY <1>1
  <2>4. \A x \in MarksIn(rest) : x \in MarksIn(batches)
    BY <2>3 DEF MarksIn
  <2>5. \A x \in Ids(Marks) : x \in MarksIn(batches)
    BY <1>1, <1>2 DEF MarksIn
  <2> QED BY <2>2, <2>4, <2>5
<1>6. ASSUME NEW x \in Ids(Marks), NEW y \in MarksIn(rest) PROVE x < y
  <2>1. PICK j \in DOMAIN rest : y \in Ids(rest[j].marks)
    BY DEF MarksIn
  <2>2. j + 1 \in DOMAIN batches /\ 1 < j + 1 /\ rest[j] = batches[j + 1] /\ 1 \in DOMAIN batches
    BY <1>1
  <2> QED BY <1>2, <2>1, <2>2 DEF AllWhole
<1> QED BY <1>3, <1>4, <1>5, <1>6 DEF rest

\* The first marks of the first batch are taken out.
LEMMA CutFacts ==
  ASSUME AllWhole(batches), batches # <<>>, NEW n \in 0 .. Len(Marks),
         batches' = [batches EXCEPT ![1].marks = SubSeq(@, n + 1, Len(@))]
  PROVE  /\ AllWhole(batches') /\ batches' # <<>>
         /\ Head(batches').chars = Head(batches).chars
         /\ Head(batches').marks = SubSeq(Marks, n + 1, Len(Marks))
         /\ MarksIn(batches) = Ids(SubSeq(Marks, 1, n)) \cup MarksIn(batches')
         /\ \A x \in Ids(SubSeq(Marks, 1, n)), y \in MarksIn(batches') : x < y
<1> DEFINE b == batches[1]
           left == SubSeq(Marks, n + 1, Len(Marks))
           out == SubSeq(Marks, 1, n)
           c == [chars |-> b.chars, marks |-> left]
<1>1. /\ batches \in Seq(Batch) /\ 1 \in DOMAIN batches /\ Head(batches) = b /\ Marks = b.marks
      /\ batches[1] = b
      /\ b \in Batch /\ Whole(b) /\ DOMAIN batches = 1 .. Len(batches)
      /\ Len(batches) \in Nat
  BY DEF AllWhole, Marks
<1>2. Marks \in Seq(Mark) /\ b.chars \in Nat /\ b = [chars |-> b.chars, marks |-> Marks]
  BY <1>1 DEF Batch
<1>3. /\ left \in Seq(Mark) /\ DOMAIN left = 1 .. Len(Marks) - n
      /\ \A k \in DOMAIN left : k + n \in DOMAIN Marks /\ left[k] = Marks[k + n]
  BY <1>2
<1>4. DOMAIN out = 1 .. n /\ \A k \in 1 .. n : k \in DOMAIN Marks /\ out[k] = Marks[k]
  BY <1>2
<1>5. batches' = [i \in DOMAIN batches |-> IF i = 1 THEN c ELSE batches[i]]
  <2>1. SubSeq(b.marks, n + 1, Len(b.marks)) = left
    BY <1>1
  <2>2. batches' = [batches EXCEPT ![1] = [b EXCEPT !.marks = left]]
    BY <2>1
  <2> HIDE DEF b, left
  <2>3. [b EXCEPT !.marks = left] = c
    BY <1>2
  <2> HIDE DEF c
  <2> QED BY <1>1, <2>2, <2>3
<1> HIDE DEF b, left, out
<1>6. Whole(c)
  <2>1. /\ \A k \in DOMAIN Marks : Marks[k].at <= b.chars
        /\ \A k, l \in DOMAIN Marks :
              k < l => Marks[k].id < Marks[l].id /\ Marks[k].at <= Marks[l].at
    BY <1>1 DEF Whole
  <2>2. c \in Batch
    BY <1>2, <1>3 DEF Batch
  <2>3. \A k \in DOMAIN left : left[k].at <= b.chars
    BY <1>3, <2>1
  <2>4. ASSUME NEW k \in DOMAIN left, NEW l \in DOMAIN left, k < l
        PROVE  left[k].id < left[l].id /\ left[k].at <= left[l].at
    <3>1. k + n \in DOMAIN Marks /\ l + n \in DOMAIN Marks /\ k + n < l + n
      BY <1>2, <1>3, <2>4
    <3> QED BY <1>3, <2>1, <3>1
  <2> QED BY <2>2, <2>3, <2>4 DEF Whole
<1>7. Ids(Marks) = Ids(out) \cup Ids(left)
  <2>1. \A x \in Ids(out) \cup Ids(left) : x \in Ids(Marks)
    BY <1>3, <1>4 DEF Ids
  <2>2. ASSUME NEW k \in DOMAIN Marks PROVE Marks[k].id \in Ids(out) \cup Ids(left)
    <3>1. CASE k <= n
      <4>1. k \in 1 .. n
        BY <1>2, <3>1
      <4> QED BY <1>4, <4>1 DEF Ids
    <3>2. CASE k > n
      <4>1. k - n \in DOMAIN left /\ left[k - n] = Marks[k]
        BY <1>2, <1>3, <3>2
      <4> QED BY <4>1 DEF Ids
    <3> QED BY <1>2, <3>1, <3>2
  <2> QED BY <2>1, <2>2 DEF Ids
<1>8. ASSUME NEW x \in Ids(out), NEW y \in Ids(left) PROVE x < y
  <2>1. PICK k \in 1 .. n : x = Marks[k].id /\ k \in DOMAIN Marks
    BY <1>4 DEF Ids
  <2>2. PICK l \in DOMAIN left : y = Marks[l + n].id /\ l + n \in DOMAIN Marks
    BY <1>3 DEF Ids
  <2>3. k < l + n
    BY <1>3, <2>1, <2>2
  <2> QED BY <1>1, <2>1, <2>2, <2>3 DEF Whole
<1>9. /\ DOMAIN batches' = DOMAIN batches /\ batches'[1] = c
      /\ \A i \in DOMAIN batches : i # 1 => batches'[i] = batches[i]
  BY <1>1, <1>5
<1>10. batches' \in Seq(Batch) /\ batches' # <<>> /\ Head(batches') = c
  <2>1. c \in Batch
    BY <1>6 DEF Whole
  <2>2. \A i \in 1 .. Len(batches) : batches'[i] \in Batch
    BY <1>1, <1>9, <2>1
  <2>3. batches' = [i \in 1 .. Len(batches) |-> batches'[i]]
    BY <1>1, <1>5
  <2>4. PICK q, m : q = batches' /\ m = Len(batches)
    OBVIOUS
  <2>5. m \in Nat /\ q = [i \in 1 .. m |-> q[i]] /\ \A i \in 1 .. m : q[i] \in Batch
    BY <1>1, <2>2, <2>3, <2>4
  <2>6. q \in Seq(Batch) /\ Len(q) = m
    BY <2>5
  <2>7. m >= 1
    BY <1>1, <2>4
  <2>8. q # <<>> /\ Head(q) = q[1]
    BY <2>6, <2>7
  <2> QED BY <1>9, <2>4, <2>6, <2>8
<1> HIDE DEF c
<1>11. c.chars = b.chars /\ c.marks = left
  BY DEF c
<1>12. \A i \in DOMAIN batches' : Ids(batches'[i].marks) \subseteq Ids(batches[i].marks)
  BY <1>1, <1>7, <1>9, <1>11
<1>13. AllWhole(batches')
  <2>1. \A i \in DOMAIN batches' : Whole(batches'[i])
    BY <1>6, <1>9 DEF AllWhole
  <2>2. \A i, j \in DOMAIN batches' : i < j =>
           \A x \in Ids(batches'[i].marks), y \in Ids(batches'[j].marks) : x < y
    BY <1>9, <1>12 DEF AllWhole
  <2> QED BY <1>10, <2>1, <2>2 DEF AllWhole
<1>14. MarksIn(batches) = Ids(out) \cup MarksIn(batches')
  <2>1. ASSUME NEW i \in DOMAIN batches, NEW x \in Ids(batches[i].marks)
        PROVE  x \in Ids(out) \cup MarksIn(batches')
    <3>1. CASE i = 1
      <4>1. x \in Ids(out) \cup Ids(batches'[1].marks)
        BY <1>1, <1>7, <1>9, <1>11, <2>1, <3>1
      <4> QED BY <1>1, <1>9, <4>1 DEF MarksIn
    <3>2. CASE i # 1
      BY <1>9, <2>1, <3>2 DEF MarksIn
    <3> QED BY <3>1, <3>2
  <2>2. \A x \in MarksIn(batches') : x \in MarksIn(batches)
    BY <1>9, <1>12 DEF MarksIn
  <2>3. \A x \in Ids(out) : x \in MarksIn(batches)
    BY <1>1, <1>7 DEF MarksIn
  <2> QED BY <2>1, <2>2, <2>3 DEF MarksIn
<1>15. ASSUME NEW x \in Ids(out), NEW y \in MarksIn(batches') PROVE x < y
  <2>1. PICK i \in DOMAIN batches' : y \in Ids(batches'[i].marks)
    BY DEF MarksIn
  <2>2. CASE i = 1
    BY <1>8, <1>9, <1>11, <2>1, <2>2
  <2>3. CASE i # 1
    <3>1. x \in Ids(batches[1].marks) /\ y \in Ids(batches[i].marks) /\ 1 < i
      BY <1>1, <1>7, <1>9, <1>12, <2>1, <2>3
    <3> QED BY <1>1, <1>9, <3>1 DEF AllWhole
  <2> QED BY <2>2, <2>3
<1> QED BY <1>1, <1>10, <1>11, <1>13, <1>14, <1>15 DEF left, out, b

\* Marks that are reported, neither early nor late, behind the others.
LEMMA ReportFacts ==
  ASSUME EventsInOrder, NEW marks \in Seq(Mark),
         \A k, l \in DOMAIN marks : k < l => marks[k].id < marks[l].id,
         Ids(marks) \subseteq MarksIn(batches),
         \A x \in Ids(marks), y \in MarksIn(batches') : x < y,
         MarksIn(batches') \subseteq MarksIn(batches),
         {audio, position, written} \subseteq Nat,
         audio > 0 => \A k \in DOMAIN marks :
             /\ Threshold(marks[k]) \in Nat
             /\ aborted \/ position >= Threshold(marks[k])
             /\ written < Threshold(marks[k]) + Chunk,
         events' = events \o Reported(marks)
  PROVE  EventsInOrder' /\ Ids(events') = Ids(events) \cup Ids(marks)
<1> DEFINE new == Reported(marks)
<1>1. Chunk \in Nat
  BY EngineAssumption
<1>2. ASSUME NEW k \in DOMAIN marks
      PROVE  new[k] = [id |-> marks[k].id, early |-> FALSE, late |-> FALSE]
  <2>1. CASE audio = 0
    BY <2>1 DEF Reported
  <2>2. CASE audio # 0
    <3> DEFINE t == Threshold(marks[k])
    <3>1. t \in Nat /\ (aborted \/ position >= t) /\ written < t + Chunk
      BY <2>2
    <3>2. new[k] = [id |-> marks[k].id, early |-> ~aborted /\ position < t,
                    late |-> written >= t + Chunk]
      BY <2>2 DEF Reported
    <3> HIDE DEF t, new
    <3>3. (~aborted /\ position < t) = FALSE /\ (written >= t + Chunk) = FALSE
      BY <1>1, <3>1
    <3> QED BY <3>2, <3>3, Zenon
  <2> QED BY <2>1, <2>2
<1>3. DOMAIN new = DOMAIN marks /\ new = [k \in DOMAIN marks |-> new[k]]
  BY DEF Reported
<1> HIDE DEF new
<1>4. /\ Len(marks) \in Nat /\ DOMAIN marks = 1 .. Len(marks)
      /\ \A k \in DOMAIN marks : marks[k].id \in Nat
  <2>1. \A k \in DOMAIN marks : marks[k] \in Mark
    OBVIOUS
  <2> QED BY <2>1 DEF Mark
<1>5. /\ new \in Seq(Event) /\ DOMAIN new = DOMAIN marks
      /\ \A k \in DOMAIN marks : /\ new[k].id = marks[k].id
                                 /\ ~new[k].early /\ ~new[k].late
  <2>1. \A k \in DOMAIN marks : new[k] \in Event
    <3>1. \A x \in Nat : [id |-> x, early |-> FALSE, late |-> FALSE] \in Event
      BY DEF Event
    <3> QED BY <1>2, <1>4, <3>1
  <2>2. new = [k \in 1 .. Len(marks) |-> new[k]]
    BY <1>3, <1>4
  <2>3. new \in Seq(Event)
    BY <1>4, <2>1, <2>2
  <2> QED BY <1>2, <1>3, <2>3
<1>6. /\ events' \in Seq(Event) /\ Len(events) \in Nat
      /\ DOMAIN events = 1 .. Len(events)
      /\ DOMAIN events' = 1 .. Len(events) + Len(marks)
      /\ \A k \in DOMAIN events : k \in DOMAIN events' /\ events'[k] = events[k]
      /\ \A k \in DOMAIN marks : k + Len(events) \in DOMAIN events'
                                 /\ events'[k + Len(events)] = new[k]
      /\ \A k \in DOMAIN events' : k \in DOMAIN events \/ k - Len(events) \in DOMAIN marks
  <2>1. events \in Seq(Event) /\ events' = events \o new
    BY DEF EventsInOrder, new
  <2>2. Len(new) = Len(marks)
    BY <1>4, <1>5
  <2>3. events' \in Seq(Event) /\ Len(events') = Len(events) + Len(new) /\ Len(events) \in Nat
    BY <1>5, <2>1
  <2>4. \A k \in 1 .. Len(events) : events'[k] = events[k]
    BY <1>5, <2>1
  <2>5. \A k \in 1 .. Len(new) : events'[k + Len(events)] = new[k]
    <3> SUFFICES ASSUME NEW k \in 1 .. Len(new) PROVE events'[k + Len(events)] = new[k]
      OBVIOUS
    <3>1. k + Len(events) \in 1 .. Len(events) + Len(new) /\ k + Len(events) > Len(events)
      BY <1>5, <2>3
    <3> QED BY <1>5, <2>1, <2>3, <3>1
  <2>6. DOMAIN events = 1 .. Len(events) /\ DOMAIN events' = 1 .. Len(events) + Len(marks)
    BY <2>1, <2>2, <2>3
  <2> QED BY <1>4, <2>2, <2>3, <2>4, <2>5, <2>6
<1>7. \A k \in DOMAIN events' :
         \/ k \in DOMAIN events /\ events'[k] = events[k]
         \/ /\ k - Len(events) \in DOMAIN marks
            /\ events'[k].id = marks[k - Len(events)].id
            /\ ~events'[k].early /\ ~events'[k].late
  <2> SUFFICES ASSUME NEW k \in DOMAIN events', k \notin DOMAIN events
               PROVE  /\ k - Len(events) \in DOMAIN marks
                      /\ events'[k].id = marks[k - Len(events)].id
                      /\ ~events'[k].early /\ ~events'[k].late
    BY <1>6
  <2>1. k - Len(events) \in DOMAIN marks /\ k - Len(events) + Len(events) = k
    BY <1>6
  <2> QED BY <1>5, <1>6, <2>1
<1>8. Ids(events') = Ids(events) \cup Ids(marks)
  <2>1. \A x \in Ids(events') : x \in Ids(events) \cup Ids(marks)
    BY <1>7 DEF Ids
  <2>2. \A x \in Ids(events) : x \in Ids(events')
    BY <1>6 DEF Ids
  <2>3. \A x \in Ids(marks) : x \in Ids(events')
    <3>1. \A k \in DOMAIN marks : /\ k + Len(events) \in DOMAIN events'
                                  /\ marks[k].id = events'[k + Len(events)].id
      BY <1>5, <1>6
    <3> QED BY <3>1 DEF Ids
  <2> QED BY <2>1, <2>2, <2>3
<1>9. ASSUME NEW j \in DOMAIN events', NEW k \in DOMAIN events', j < k
      PROVE  events'[j].id < events'[k].id
  <2>1. CASE k \in DOMAIN events
    BY <1>6, <1>9, <2>1 DEF EventsInOrder
  <2>2. CASE k \notin DOMAIN events /\ j \in DOMAIN events
    <3>1. events'[k].id \in MarksIn(batches)
      BY <1>7, <2>2 DEF Ids
    <3> QED BY <1>6, <2>2, <3>1 DEF EventsInOrder
  <2>3. CASE k \notin DOMAIN events /\ j \notin DOMAIN events
    <3>1. /\ events'[j].id = marks[j - Len(events)].id
          /\ events'[k].id = marks[k - Len(events)].id
          /\ j - Len(events) \in DOMAIN marks /\ k - Len(events) \in DOMAIN marks
          /\ j - Len(events) < k - Len(events)
      BY <1>6, <1>7, <1>9, <2>3
    <3> QED BY <3>1
  <2> QED BY <2>1, <2>2, <2>3
<1>10. ASSUME NEW k \in DOMAIN events', NEW y \in MarksIn(batches')
       PROVE  events'[k].id < y
  <2>1. CASE k \in DOMAIN events
    BY <1>6, <2>1 DEF EventsInOrder
  <2>2. CASE k \notin DOMAIN events
    <3>1. events'[k].id \in Ids(marks)
      BY <1>7, <2>2 DEF Ids
    <3> QED BY <3>1
  <2> QED BY <2>1, <2>2
<1>11. \A k \in DOMAIN events' : ~events'[k].early /\ ~events'[k].late
  BY <1>7 DEF EventsInOrder
<1> QED BY <1>6, <1>8, <1>9, <1>10, <1>11 DEF EventsInOrder

-----------------------------------------------------------------------------
(* Every step keeps the marks.                                             *)

LEMMA InitMarks == Init => MInv
<1> SUFFICES ASSUME Init PROVE MInv
  OBVIOUS
<1>1. AllWhole(batches) /\ MarksIn(batches) = {}
  BY DEF Init, AllWhole, MarksIn
<1>2. EventsInOrder
  BY DEF Init, EventsInOrder
<1>3. MarksAccounted /\ AudioFits /\ NotYetLate
  BY DEF Init, MarksAccounted, Busy, AudioFits, NotYetLate
<1> QED BY <1>1, <1>2, <1>3 DEF MInv

\* Steps that neither report a mark nor leave a batch.
LEMMA QuietMarks ==
  ASSUME MInv, UNCHANGED <<batches, events, silent, wanted>>, Busy' = Busy,
         ~Busy => UNCHANGED audio, AudioFits', NotYetLate'
  PROVE  MInv'
<1>1. AllWhole(batches')
  BY DEF MInv
<1>2. EventsInOrder'
  BY DEF MInv, EventsInOrder, MarksIn
<1>3. MarksAccounted'
  BY DEF MInv, MarksAccounted, MarksIn, MarksOf
<1> QED BY <1>1, <1>2, <1>3 DEF MInv

LEMMA UntouchedMarks ==
  ASSUME MInv,
         UNCHANGED <<step, wanted, batches, audio, position, written, aborted, events, silent>>
  PROVE  MInv'
<1>1. AudioFits' /\ Busy' = Busy
  BY DEF MInv, AudioFits, Busy
<1>2. NotYetLate'
  BY DEF MInv, NotYetLate, Marks, Threshold
<1> QED BY <1>1, <1>2, QuietMarks

LEMMA SpeakMarks == ASSUME MInv, NEW e \in Engines, Speak(e) PROVE MInv'
<1>1. PICK text \in Texts : batches' = Batches(text) /\ wanted'.text = text
  BY DEF Speak
<1>2. AllWhole(batches') /\ MarksIn(batches') = MarksOf(text)
  BY <1>1, BatchesFacts
<1>3. step = "idle" /\ step' = "batch" /\ UNCHANGED <<audio, position, written, aborted, events, silent>>
  BY DEF Speak
<1>4. events = <<>> /\ silent = {} /\ audio = 0
  BY <1>3 DEF MInv, MarksAccounted, Busy
<1>5. EventsInOrder'
  BY <1>3, <1>4 DEF EventsInOrder
<1>6. Ids(events') = {}
  BY <1>3, <1>4 DEF Ids
<1>7. MarksAccounted'
  BY <1>1, <1>2, <1>3, <1>4, <1>6 DEF MarksAccounted, Busy
<1>8. AudioFits' /\ NotYetLate'
  BY <1>3, <1>4 DEF MInv, AudioFits, NotYetLate
<1> QED BY <1>2, <1>5, <1>7, <1>8 DEF MInv

LEMMA GiveUpMarks == ASSUME MInv, GiveUp PROVE MInv'
<1>1. /\ UNCHANGED <<batches, events, silent, wanted, audio, position, written>>
      /\ aborted' = TRUE
      /\ \/ step = "batch" /\ step' = "return"
         \/ step = "play" /\ step' = "marks"
  BY DEF GiveUp, history
<1>2. AudioFits' /\ Busy' = Busy
  BY <1>1 DEF MInv, AudioFits, Busy
<1>3. NotYetLate'
  BY <1>1 DEF MInv, NotYetLate, Marks, Threshold
<1> QED BY <1>1, <1>2, <1>3, QuietMarks

LEMMA QueueClauseMarks == ASSUME MInv, BeginBatch \/ QueueClause PROVE MInv'
<1>1. CASE BeginBatch
  <2>1. /\ UNCHANGED <<batches, events, silent, wanted, audio, position, written, aborted>>
        /\ step = "batch" /\ step' = "clause" /\ batches # <<>> /\ Head(batches).chars > 0
    BY <1>1 DEF BeginBatch, history
  <2>2. AudioFits' /\ Busy' = Busy /\ NotYetLate'
    BY <2>1 DEF MInv, AudioFits, Busy, NotYetLate
  <2> QED BY <2>1, <2>2, QuietMarks
<1>2. CASE QueueClause
  <2>1. /\ UNCHANGED <<batches, events, silent, wanted, position, written, aborted, step>>
        /\ step = "clause"
    BY <1>2 DEF QueueClause
  <2>2. audio' \in Nat
    <3>1. audio \in Nat /\ MaxAudio \in Nat
      BY EngineAssumption DEF MInv, AudioFits
    <3>2. audio' = audio \/ \E n \in 0 .. MaxAudio :
              audio' = audio + n + (IF VoiceSet(Speaker, wanted.voice).silence THEN 1 ELSE 0)
      BY <1>2 DEF QueueClause, Speaker
    <3> QED BY <3>1, <3>2
  <2>3. AudioFits' /\ Busy' = Busy /\ NotYetLate'
    BY <2>1, <2>2 DEF MInv, AudioFits, Busy, NotYetLate
  <2> QED BY <2>1, <2>3, QuietMarks DEF Busy
<1> QED BY <1>1, <1>2

LEMMA BeginPlayMarks == ASSUME MInv, BeginPlay PROVE MInv'
<1>1. /\ UNCHANGED <<batches, events, silent, wanted, audio, aborted>>
      /\ step = "clause" /\ step' = "play" /\ audio > 0 /\ position' = 0 /\ written' = 0
  BY DEF BeginPlay
<1>2. AudioFits' /\ Busy' = Busy
  BY <1>1 DEF MInv, AudioFits, Busy
<1>3. \A k \in DOMAIN Marks : Threshold(Marks[k]) \in Nat
  BY <1>1, ThresholdFacts DEF MInv, AudioFits
<1>4. NotYetLate'
  <2>1. Chunk \in Nat \ {0}
    BY EngineAssumption
  <2>2. Marks' = Marks /\ \A m : Threshold(m)' = Threshold(m)
    BY <1>1 DEF Marks, Threshold
  <2>3. \A k \in DOMAIN Marks' : Threshold(Marks[k])' = Threshold(Marks[k])
    BY <1>1 DEF Marks, Threshold
  <2> QED BY <1>1, <1>3, <2>1, <2>2, <2>3 DEF NotYetLate
<1> QED BY <1>1, <1>2, <1>4, QuietMarks

LEMMA WriteChunkMarks == ASSUME MInv, WriteChunk PROVE MInv'
<1> DEFINE chunk == IF audio - position < Chunk THEN audio - position ELSE Chunk
<1>1. PICK took \in 0 .. chunk, ok \in BOOLEAN :
         /\ written' = written + took
         /\ position' = IF ok /\ took > 0 THEN position + chunk ELSE position
         /\ aborted' = ~ok
         /\ step' = IF ok THEN "play" ELSE "marks"
  BY DEF WriteChunk
<1>2. /\ step = "write" /\ UNCHANGED <<batches, events, silent, wanted, audio>>
      /\ {audio, position, written} \subseteq Nat /\ audio > 0
      /\ written <= position /\ position < audio
      /\ batches # <<>> /\ Head(batches).chars > 0
  BY DEF WriteChunk, MInv, AudioFits
<1>3. chunk \in Nat /\ chunk <= Chunk /\ chunk <= audio - position /\ Chunk \in Nat
  BY <1>2, EngineAssumption
<1> HIDE DEF chunk
<1>4. AudioFits'
  <2>1. {audio', position', written'} \subseteq Nat
    BY <1>1, <1>2, <1>3
  <2>2. ok => written' <= position' /\ position' <= audio'
    BY <1>1, <1>2, <1>3
  <2> QED BY <1>1, <1>2, <2>1, <2>2 DEF AudioFits
<1>5. NotYetLate'
  <2>1. ASSUME NEW k \in DOMAIN Marks PROVE written' < Threshold(Marks[k]) + Chunk
    <3>1. written < Threshold(Marks[k]) + 0 /\ Threshold(Marks[k]) \in Nat
      BY <1>2, ThresholdFacts DEF MInv, NotYetLate
    <3> QED BY <1>1, <1>2, <1>3, <3>1
  <2>2. Marks' = Marks /\ \A k \in DOMAIN Marks' : Threshold(Marks[k])' = Threshold(Marks[k])
    BY <1>2 DEF Marks, Threshold
  <2>3. step' # "write"
    BY <1>1
  <2> QED BY <2>1, <2>2, <2>3 DEF NotYetLate
<1> QED BY <1>1, <1>2, <1>4, <1>5, QuietMarks DEF Busy

\* Steps that leave a batch, its marks reported or, without audio, known to be silent.
LEMMA LeaveBatch ==
  ASSUME MInv, batches # <<>>, batches' = Tail(batches), UNCHANGED wanted, Busy, Busy',
         \/ UNCHANGED events /\ silent' = silent \cup Ids(Marks)
         \/ UNCHANGED silent /\ events' = events \o Reported(Marks),
         audio > 0 => \A k \in DOMAIN Marks :
             /\ Threshold(Marks[k]) \in Nat
             /\ aborted \/ position >= Threshold(Marks[k])
             /\ written < Threshold(Marks[k]) + Chunk,
         AudioFits', step' \in {"batch", "return"}
  PROVE  MInv'
<1>1. /\ AllWhole(batches') /\ Marks \in Seq(Mark)
      /\ \A k, l \in DOMAIN Marks : k < l => Marks[k].id < Marks[l].id
      /\ MarksIn(batches) = Ids(Marks) \cup MarksIn(batches')
      /\ \A x \in Ids(Marks), y \in MarksIn(batches') : x < y
  BY HeadFacts DEF MInv
<1>2. MarksOf(wanted'.text) = silent \cup Ids(events) \cup Ids(Marks) \cup MarksIn(batches')
  BY <1>1 DEF MInv, MarksAccounted
<1>3. NotYetLate'
  BY DEF NotYetLate
<1>4. CASE UNCHANGED events /\ silent' = silent \cup Ids(Marks)
  <2>1. EventsInOrder'
    BY <1>1, <1>4 DEF MInv, EventsInOrder
  <2>2. MarksAccounted'
    BY <1>2, <1>4 DEF MarksAccounted
  <2> QED BY <1>1, <1>3, <2>1, <2>2 DEF MInv
<1>5. CASE UNCHANGED silent /\ events' = events \o Reported(Marks)
  <2>1. /\ Ids(Marks) \subseteq MarksIn(batches)
        /\ MarksIn(batches') \subseteq MarksIn(batches)
        /\ {audio, position, written} \subseteq Nat /\ EventsInOrder
    BY <1>1 DEF MInv, AudioFits
  <2>2. EventsInOrder' /\ Ids(events') = Ids(events) \cup Ids(Marks)
    BY <1>1, <1>5, <2>1, ReportFacts
  <2>3. MarksAccounted'
    BY <1>2, <1>5, <2>2 DEF MarksAccounted
  <2> QED BY <1>1, <1>3, <2>2, <2>3 DEF MInv
<1> QED BY <1>4, <1>5

LEMMA MarksBatchMarks == ASSUME MInv, MarksBatch \/ SkipSilentBatch PROVE MInv'
<1>1. audio = 0 /\ batches # <<>> /\ Busy /\ UNCHANGED <<wanted, audio, position, written, aborted>>
      /\ batches' = Tail(batches) /\ step' = "batch"
  BY DEF MarksBatch, SkipSilentBatch, MInv, AudioFits, Busy
<1>2. AudioFits' /\ Busy'
  BY <1>1 DEF MInv, AudioFits, Busy
<1>3. \/ UNCHANGED events /\ silent' = silent \cup Ids(Marks)
      \/ UNCHANGED silent /\ events' = events \o Reported(Marks)
  BY DEF MarksBatch, SkipSilentBatch, Ids
<1> QED BY <1>1, <1>2, <1>3, LeaveBatch

LEMMA EndBatchMarks == ASSUME MInv, EndBatch PROVE MInv'
<1>1. /\ step = "marks" \/ (step = "play" /\ position = audio)
      /\ events' = events \o Reported(Marks) /\ batches' = Tail(batches)
      /\ audio' = 0 /\ position' = 0
      /\ step' = IF aborted THEN "return" ELSE "batch"
      /\ UNCHANGED <<wanted, written, aborted, silent>>
  BY DEF EndBatch
<1>2. /\ batches # <<>> /\ Head(batches).chars > 0 /\ audio > 0
      /\ {audio, position, written} \subseteq Nat
      /\ aborted \/ position = audio
  BY <1>1 DEF MInv, AudioFits
<1>3. ASSUME NEW k \in DOMAIN Marks
      PROVE  /\ Threshold(Marks[k]) \in Nat
             /\ aborted \/ position >= Threshold(Marks[k])
             /\ written < Threshold(Marks[k]) + Chunk
  <2>1. Threshold(Marks[k]) \in Nat /\ Threshold(Marks[k]) <= audio
    BY <1>2, ThresholdFacts DEF MInv
  <2>2. written < Threshold(Marks[k]) + Chunk
    BY <1>1 DEF MInv, NotYetLate
  <2> QED BY <1>2, <2>1, <2>2
<1>4. AudioFits' /\ Busy /\ Busy'
  BY <1>1, <1>2 DEF AudioFits, Busy
<1> QED BY <1>1, <1>2, <1>3, <1>4, LeaveBatch

LEMMA ReportDueMarks == ASSUME MInv, ReportDue PROVE MInv'
<1> DEFINE due == {n \in 0 .. Len(Marks) : \A k \in 1 .. n : Due(k)}
           n == CHOOSE n \in due : \A k \in due : k <= n
<1>1. /\ step = "play" /\ position < audio
      /\ events' = events \o Reported(SubSeq(Marks, 1, n))
      /\ batches' = [batches EXCEPT ![1].marks = SubSeq(@, n + 1, Len(@))]
      /\ step' = "write" /\ UNCHANGED <<wanted, audio, position, written, aborted, silent>>
  BY DEF ReportDue
<1>2. /\ batches # <<>> /\ Head(batches).chars > 0 /\ audio > 0
      /\ {audio, position, written} \subseteq Nat /\ written <= position
      /\ AllWhole(batches) /\ EventsInOrder
  BY <1>1 DEF MInv, AudioFits
<1>3. /\ Marks \in Seq(Mark)
      /\ \A k \in DOMAIN Marks : Threshold(Marks[k]) \in Nat
      /\ \A k, l \in DOMAIN Marks : k < l =>
            Marks[k].id < Marks[l].id /\ Threshold(Marks[k]) <= Threshold(Marks[l])
  BY <1>2, ThresholdFacts
<1>4. Len(Marks) \in Nat /\ DOMAIN Marks = 1 .. Len(Marks)
  BY <1>3
<1>5. n \in due /\ \A k \in due : k <= n
  <2>1. due \in SUBSET (0 .. Len(Marks)) /\ 0 \in due
    BY <1>4
  <2> HIDE DEF due
  <2>2. \E m \in due : \A k \in due : k <= m
    BY <1>4, <2>1, LastOf
  <2> QED BY <2>2
<1> DEFINE out == SubSeq(Marks, 1, n)
<1>6. n \in 0 .. Len(Marks) /\ \A k \in 1 .. n : Due(k)
  BY <1>5
<1>7. ASSUME NEW k \in DOMAIN Marks, k > n PROVE written < Threshold(Marks[k])
  <2>1. n + 1 \notin due /\ n + 1 \in DOMAIN Marks /\ n + 1 <= k
    <3>1. n + 1 \notin due
      <4>1. ~ (n + 1 <= n)
        BY <1>4, <1>6
      <4> HIDE DEF n
      <4> QED BY <1>5, <4>1
    <3> QED BY <1>4, <1>6, <1>7, <3>1
  <2>2. \E i \in 1 .. n + 1 : ~Due(i)
    <3>1. n + 1 \in 0 .. Len(Marks)
      BY <1>4, <1>6, <2>1
    <3> HIDE DEF n
    <3> QED BY <2>1, <3>1
  <2>3. ~Due(n + 1)
    BY <1>4, <1>6, <2>2
  <2>4. written < Threshold(Marks[n + 1])
    BY <1>2, <1>3, <2>1, <2>3 DEF Due
  <2>5. Threshold(Marks[n + 1]) <= Threshold(Marks[k])
    BY <1>3, <2>1
  <2> QED BY <1>2, <1>3, <2>1, <2>4, <2>5
<1> HIDE DEF n, due
<1>8. /\ AllWhole(batches') /\ batches' # <<>>
      /\ Head(batches').chars = Head(batches).chars
      /\ Head(batches').marks = SubSeq(Marks, n + 1, Len(Marks))
      /\ MarksIn(batches) = Ids(out) \cup MarksIn(batches')
      /\ \A x \in Ids(out), y \in MarksIn(batches') : x < y
  BY <1>1, <1>2, <1>6, CutFacts
<1>9. /\ out \in Seq(Mark) /\ DOMAIN out = 1 .. n
      /\ \A k \in 1 .. n : k \in DOMAIN Marks /\ out[k] = Marks[k]
  BY <1>3, <1>4, <1>6
<1>10. events' = events \o Reported(out)
  BY <1>1
<1> HIDE DEF out
<1>11. EventsInOrder' /\ Ids(events') = Ids(events) \cup Ids(out)
  <2>1. \A k, l \in DOMAIN out : k < l => out[k].id < out[l].id
    BY <1>3, <1>9
  <2>2. ASSUME NEW k \in DOMAIN out
        PROVE  /\ Threshold(out[k]) \in Nat
               /\ aborted \/ position >= Threshold(out[k])
               /\ written < Threshold(out[k]) + Chunk
    <3>1. out[k] = Marks[k] /\ Threshold(Marks[k]) \in Nat /\ written >= Threshold(Marks[k])
      BY <1>3, <1>6, <1>9 DEF Due
    <3>2. written < Threshold(Marks[k]) + Chunk
      BY <1>1, <1>9 DEF MInv, NotYetLate
    <3> QED BY <1>2, <3>1, <3>2
  <2>3. Ids(out) \subseteq MarksIn(batches) /\ MarksIn(batches') \subseteq MarksIn(batches)
    BY <1>8
  <2> QED BY <1>2, <1>8, <1>9, <1>10, <2>1, <2>2, <2>3, ReportFacts
<1>12. MarksAccounted'
  <2>1. Busy /\ Busy'
    BY <1>1 DEF Busy
  <2> QED BY <1>1, <1>8, <1>11, <2>1 DEF MInv, MarksAccounted
<1>13. AudioFits'
  BY <1>1, <1>2, <1>8 DEF AudioFits
<1>14. NotYetLate'
  <2>1. Marks' = SubSeq(Marks, n + 1, Len(Marks))
    BY <1>8 DEF Marks
  <2>2. ASSUME NEW k \in DOMAIN Marks'
        PROVE written' < Threshold(Marks[k])' /\ Threshold(Marks[k])' \in Int
    <3>1. k + n \in DOMAIN Marks /\ k + n > n /\ Marks'[k] = Marks[k + n]
      BY <1>3, <1>4, <1>6, <2>1
    <3>2. Threshold(Marks[k])' = Threshold(Marks[k + n])
      BY <1>1, <1>8, <3>1 DEF Threshold
    <3> QED BY <1>1, <1>3, <1>7, <3>1, <3>2
  <2> QED BY <1>1, <1>2, <2>2 DEF NotYetLate
<1> QED BY <1>8, <1>11, <1>12, <1>13, <1>14 DEF MInv

LEMMA ReturnMarks == ASSUME MInv, PadEnd \/ Return PROVE MInv'
<1>1. CASE PadEnd
  <2>1. /\ UNCHANGED <<batches, events, silent, wanted, audio, position, written, aborted>>
        /\ step = "batch" /\ step' = "return" /\ batches = <<>>
    BY <1>1 DEF PadEnd, speakVars
  <2>2. AudioFits' /\ Busy' = Busy /\ NotYetLate'
    BY <2>1 DEF MInv, AudioFits, Busy, NotYetLate
  <2> QED BY <2>1, <2>2, QuietMarks
<1>2. CASE Return
  <2>1. /\ batches' = <<>> /\ events' = <<>> /\ silent' = {} /\ audio' = 0 /\ position' = 0
        /\ written' = 0 /\ step' = "idle"
    BY <1>2 DEF Return
  <2>2. AllWhole(batches')
    BY <2>1 DEF AllWhole
  <2>3. EventsInOrder'
    BY <2>1 DEF EventsInOrder
  <2>4. MarksAccounted' /\ AudioFits' /\ NotYetLate'
    BY <2>1 DEF MarksAccounted, AudioFits, NotYetLate, Busy
  <2> QED BY <2>2, <2>3, <2>4 DEF MInv
<1> QED BY <1>1, <1>2

LEMMA NextMarks == MInv /\ [Next]_vars => MInv'
<1> SUFFICES ASSUME MInv, [Next]_vars PROVE MInv'
  OBVIOUS
<1>1. CASE UNCHANGED vars
  BY <1>1, UntouchedMarks DEF vars, speakVars, history
<1>2. ASSUME NEW e \in Engines, Manage(e) PROVE MInv'
  <2>1. UNCHANGED <<step, wanted, batches, audio, position, written, aborted, events, silent>>
    BY <1>2 DEF Manage, SetObjectToken, CreateObject, ReleaseObject, GetOutputFormat,
       speakVars, history
  <2> QED BY <2>1, UntouchedMarks
<1>3. CASE Silence
  BY <1>3, UntouchedMarks DEF Silence, speakVars, history
<1> QED
  BY <1>1, <1>2, <1>3, SpeakMarks, GiveUpMarks, QueueClauseMarks, BeginPlayMarks,
     WriteChunkMarks, MarksBatchMarks, EndBatchMarks, ReportDueMarks, ReturnMarks
     DEF Next, Host, SpeakStep

\* Bookmarks come in the order of the text and once each, none before the audio in front
\* of it and none a chunk late, however the site takes the audio; a Speak that was not cut
\* has reported all but those of batches without sound (ISpTTSEngineImpl.cpp 512-516).
THEOREM BookmarkSafety == Spec => []BookmarksKeepTheirPlace
<1>1. MInv => BookmarksKeepTheirPlace
  <2> SUFFICES ASSUME MInv PROVE BookmarksKeepTheirPlace
    OBVIOUS
  <2>1. ASSUME step = "return", ~aborted
        PROVE  MarksOf(wanted.text) = silent \cup Ids(events)
    <3>1. batches = <<>> /\ Busy
      BY <2>1 DEF MInv, AudioFits, Busy
    <3>2. MarksIn(batches) = {}
      BY <3>1 DEF MarksIn
    <3> QED BY <3>1, <3>2 DEF MInv, MarksAccounted
  <2> QED BY <2>1 DEF MInv, EventsInOrder, BookmarksKeepTheirPlace, Ids
<1> QED BY <1>1, InitMarks, NextMarks, PTL DEF Spec
=============================================================================
