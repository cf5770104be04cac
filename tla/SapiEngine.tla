------------------------------ MODULE SapiEngine ------------------------------
(***************************************************************************)
(* ISpTTSEngineImpl of the SAPI engine (src/src/sapi): the token, Speak    *)
(* and the life of COM objects, against a host that speaks with one object *)
(* at a time and may abort at any point.                                   *)
(*                                                                         *)
(* A fragment is "mark", "text", "spell", or "other" (any other action of  *)
(* SAPI); a text fragment is one character long.  Audio is counted in      *)
(* units; its content, rate, pitch, volume and pauses are left out.        *)
(***************************************************************************)
EXTENDS SapiRuntime, Sequences

CONSTANTS
    Tokens,      \* the voices registered: a language and a preset or profile
    Texts,       \* lists of fragments the host may speak
    MaxClauses,  \* bound on the clauses of a batch
    MaxAudio,    \* bound on the audio of a clause
    Chunk,       \* units in the buffer Speak hands over at a time
    MaxSpeaks,   \* bound on the calls of Speak
    MaxMoves     \* bound on the other calls of the host

ASSUME EngineAssumption ==
    /\ Tokens \subseteq [lang : Langs, voice : Voices]
    /\ \A t \in Texts : t \in Seq({"mark", "text", "spell", "other"})
    /\ {MaxClauses, Chunk} \subseteq Nat \ {0} /\ {MaxAudio, MaxSpeaks, MaxMoves} \subseteq Nat

VARIABLES
    token,       \* of each object, the language and the voice of its token
    step,        \* where Speak is: "idle", "batch", "clause", "play",
                 \* "write", "marks", "return"
    engine,      \* the object that speaks
    wanted,      \* its token when Speak began
    batches,     \* those to come; the first is in work when step says so
    clauses,     \* clauses of the batch still to be queued
    audio,       \* audio_buf, its size
    position,    \* audio_pos
    written,     \* bytes_written - batch_start
    actions,     \* what the site answers GetActions: "none" or "abort", which stands
                 \* for a skip too
    aborted

\* History of this Speak: the marks reported, with what surrounded them; those of batches
\* without audio; the last clause that became phonemes; writes since the host
\* asked for silence.  And the calls so far, of Speak and of the rest.
VARIABLES events, silent, clause, lateWrites, speaks, moves

history == <<events, silent, clause, lateWrites, speaks>>
speakVars == <<wanted, batches, clauses, audio, position, written, aborted>>
vars == <<runtimeVars, token, step, engine, speakVars, actions, history, moves>>

NoToken == [lang |-> NoLang, voice |-> Builtin]
NoText == [lang |-> NoLang, voice |-> Builtin, read |-> TRUE, text |-> <<>>]
NoBatch == [chars |-> 0, marks |-> <<>>]
NoClause == [number |-> 0, spoken |-> FALSE, pack |-> NoLang, up |-> FALSE,
             voice |-> NoLang, profile |-> Builtin, tone |-> Builtin]

-----------------------------------------------------------------------------
(* Fragments become batches: text is joined across marks, spelled letters   *)
(* stand alone.                                                             *)
Flush(acc) ==
    IF acc.cur = NoBatch THEN acc
    ELSE [done |-> Append(acc.done, acc.cur), cur |-> NoBatch]

\* Words that would run together get a space between them.
AddFragment(acc, kind, n) ==
    CASE kind = "mark"  -> [acc EXCEPT !.cur.marks = Append(@, [id |-> n, at |-> acc.cur.chars])]
      [] kind = "text"  -> [acc EXCEPT !.cur.chars = IF @ = 0 THEN 1 ELSE @ + 2]
      [] kind = "spell" -> [Flush(acc) EXCEPT !.done = Append(@, [NoBatch EXCEPT !.chars = 1])]
      [] kind = "other" -> Flush(acc)

\* What the first n fragments make, for each n.
Joined(text) ==
    LET joined[n \in 0 .. Len(text)] ==
            IF n = 0 THEN [done |-> <<>>, cur |-> NoBatch]
            ELSE AddFragment(joined[n - 1], text[n], n)
    IN  joined

Batches(text) == Flush(Joined(text)[Len(text)]).done

\* byte_threshold
Threshold(mark) == (mark.at * audio) \div Head(batches).chars

Marks == Head(batches).marks

-----------------------------------------------------------------------------
Init ==
    /\ RuntimeInit
    /\ token = [e \in Engines |-> NoToken] /\ moves = 0
    /\ step = "idle" /\ engine = None
    /\ wanted = NoText
    /\ batches = <<>> /\ clauses = 0 /\ audio = 0 /\ position = 0
    /\ written = 0 /\ actions = "none" /\ aborted = FALSE
    /\ events = <<>> /\ silent = {} /\ clause = NoClause /\ lateWrites = 0 /\ speaks = 0

\* What the host does: it gives an object a token before it speaks, or another one at
\* any time (here between clauses: a token is only read when Speak begins); objects
\* come and go between calls of Speak.
SetObjectToken(e) ==
    /\ rt[e] # None
    /\ step = "idle" \/ (step = "clause" /\ e = engine)
    /\ \E t \in Tokens \ {token[e]} : token' = [token EXCEPT ![e] = t]
    /\ UNCHANGED <<runtimeVars, step, engine, speakVars, actions, history>>

CreateObject(e) ==
    /\ step = "idle"
    /\ Create(e)
    /\ \E t \in Tokens : token' = [token EXCEPT ![e] = t]
    /\ UNCHANGED <<step, engine, speakVars, actions, history>>

ReleaseObject(e) ==
    /\ step = "idle"
    /\ Destroy(e)
    /\ token' = [token EXCEPT ![e] = NoToken]
    /\ UNCHANGED <<step, engine, speakVars, actions, history>>

GetOutputFormat(e) ==
    /\ step = "idle" /\ rt[e] # None
    /\ espeakUp' = UpAfter(rt[e])
    /\ runtimes' = [runtimes EXCEPT ![rt[e]] = Initialized(rt[e])]
    /\ UNCHANGED <<espeakVoice, made, cached, rt, token, step, engine, speakVars,
                   actions, history>>

\* The site's wish, which the engine asks for with GetActions.
Silence ==
    /\ step # "idle" /\ actions = "none"
    /\ actions' = "abort"
    /\ UNCHANGED <<runtimeVars, token, step, engine, speakVars, history>>

Manage(e) ==
    /\ moves < MaxMoves /\ moves' = moves + 1
    /\ SetObjectToken(e) \/ CreateObject(e) \/ ReleaseObject(e) \/ GetOutputFormat(e)

Host == (\E e \in Engines : Manage(e)) \/ (Silence /\ UNCHANGED moves)

-----------------------------------------------------------------------------
(* Speak                                                                    *)
Speak(e) ==
    /\ step = "idle" /\ rt[e] # None /\ speaks < MaxSpeaks
    /\ \E text \in Texts, read \in BOOLEAN :
        /\ wanted' = [lang |-> token[e].lang, voice |-> token[e].voice, read |-> read,
                      text |-> text]
        /\ batches' = Batches(text)
        /\ espeakUp' = UpAfter(rt[e])
        /\ \E chosen \in LanguageSet(Initialized(rt[e]), token[e].lang, read,
                                     espeakUp', espeakVoice) :
            /\ runtimes' = [runtimes EXCEPT ![rt[e]] = chosen[1]]
            /\ espeakVoice' = chosen[2]
    /\ step' = "batch" /\ engine' = e /\ speaks' = speaks + 1
    /\ lateWrites' = 0
    /\ UNCHANGED <<made, cached, rt, token, clauses, audio, position, written, actions,
                   aborted, events, silent, clause>>

\* Slip: the site is only asked between batches.
GiveUpBetween ==
    /\ step = "batch" /\ actions # "none"
    /\ batches # <<>>
    /\ runtimes' = [runtimes EXCEPT ![rt[engine]].silence = TRUE]
    /\ aborted' = TRUE
    /\ step' = "return"
    /\ UNCHANGED <<espeakUp, espeakVoice, made, cached, rt, token, engine, wanted,
                   batches, clauses, audio, position, written, actions, history>>

\* The site wants silence: purge, and no more batches.
GiveUp ==
    /\ step \in {"batch", "play"} /\ actions # "none"
    /\ step = "batch" => batches # <<>>
    /\ step = "play" => position < audio
    /\ runtimes' = [runtimes EXCEPT ![rt[engine]].silence = TRUE]
    /\ aborted' = TRUE
    /\ step' = IF step = "batch" THEN "return" ELSE "marks"
    /\ UNCHANGED <<espeakUp, espeakVoice, made, cached, rt, token, engine, wanted,
                   batches, clauses, audio, position, written, actions, history>>

\* A mark as it is reported: whether audio in front of it is still to come, and
\* whether a chunk behind it is already written.
Reported(marks) ==
    LET Report(m) ==
            IF audio = 0 THEN [id |-> m.id, early |-> FALSE, late |-> FALSE]
            ELSE [id |-> m.id, early |-> ~aborted /\ position < Threshold(m),
                  late |-> written >= Threshold(m) + Chunk]
    IN  [k \in DOMAIN marks |-> Report(marks[k])]

\* A batch of marks only: they are reported where the audio is.
MarksBatch ==
    /\ step = "batch" /\ batches # <<>> /\ actions = "none"
    /\ Head(batches).chars = 0
    /\ events' = events \o Reported(Marks)
    /\ batches' = Tail(batches)
    /\ UNCHANGED <<runtimeVars, token, step, engine, wanted, clauses, audio, position,
                   written, actions, aborted, silent, clause, lateWrites, speaks>>

\* A batch of text is split into clauses; one of spaces has none.
BeginBatch ==
    /\ step = "batch" /\ batches # <<>> /\ actions = "none"
    /\ Head(batches).chars > 0
    /\ clauses' \in 0 .. MaxClauses
    /\ step' = "clause"
    /\ UNCHANGED <<runtimeVars, token, engine, wanted, batches, audio, position, written,
                   actions, aborted, history>>

\* queue_text and the synthesis of what it queued.  A clause may have no phonemes, or the
\* frontend may refuse it; then nothing is synthesized, not even a purge's silence.
QueueClause ==
    LET r == rt[engine]
        m == VoiceSet(runtimes[r], wanted.voice)
    IN  /\ step = "clause" /\ clauses > 0
        /\ \E chosen \in IF m.langTag # NoLang THEN {<<m, espeakVoice>>}
                         ELSE UNION {LanguageSet(m, English, read, espeakUp, espeakVoice) :
                                     read \in BOOLEAN} :
            LET voice == VoiceOfPhonemes(chosen[1], espeakUp, chosen[2])
            IN  /\ espeakVoice' = voice
                /\ clause' = [number |-> clause.number + 1, spoken |-> TRUE,
                              pack |-> chosen[1].pack, up |-> espeakUp, voice |-> voice,
                              profile |-> chosen[1].profile, tone |-> chosen[1].tone]
                /\ \/ /\ runtimes' = [runtimes EXCEPT ![r] = chosen[1]]
                      /\ UNCHANGED audio
                   \/ /\ runtimes' = [runtimes EXCEPT ![r] = [chosen[1] EXCEPT !.silence = FALSE]]
                      /\ \E n \in 0 .. MaxAudio :
                            audio' = audio + n + (IF m.silence THEN 1 ELSE 0)
        /\ clauses' = clauses - 1
        /\ UNCHANGED <<espeakUp, made, cached, rt, token, step, engine, wanted, batches,
                       position, written, actions, aborted, events, silent, lateWrites,
                       speaks>>

\* A batch without audio is left, its marks with it.
SkipSilentBatch ==
    /\ step = "clause" /\ clauses = 0 /\ audio = 0
    /\ silent' = silent \cup {Marks[k].id : k \in DOMAIN Marks}
    /\ batches' = Tail(batches)
    /\ step' = "batch"
    /\ clause' = [NoClause EXCEPT !.number = clause.number]
    /\ UNCHANGED <<runtimeVars, token, engine, wanted, clauses, audio, position, written,
                   actions, aborted, events, lateWrites, speaks>>

BeginPlay ==
    /\ step = "clause" /\ clauses = 0 /\ audio > 0
    /\ position' = 0 /\ written' = 0
    /\ step' = "play"
    /\ clause' = [NoClause EXCEPT !.number = clause.number]
    /\ UNCHANGED <<runtimeVars, token, engine, wanted, batches, clauses, audio, actions,
                   aborted, events, silent, lateWrites, speaks>>

\* Slip: a mark within the next chunk is reported with it.
DueNext(k) == written + Chunk >= Threshold(Marks[k])

Due(k) == written >= Threshold(Marks[k])

\* Slip: the site is not asked while a batch plays.
ReportDueUnasked ==
    /\ step = "play" /\ position < audio
    /\ LET due == {n \in 0 .. Len(Marks) : \A k \in 1 .. n : Due(k)}
           n == CHOOSE n \in due : \A k \in due : k <= n
       IN  /\ events' = events \o Reported(SubSeq(Marks, 1, n))
           /\ batches' = [batches EXCEPT ![1].marks = SubSeq(@, n + 1, Len(@))]
    /\ step' = "write"
    /\ UNCHANGED <<runtimeVars, token, engine, wanted, clauses, audio, position, written,
                   actions, aborted, silent, clause, lateWrites, speaks>>

\* One turn of the loop: the marks that are due are reported, in their order, ...
ReportDue ==
    /\ step = "play" /\ position < audio /\ actions = "none"
    /\ LET due == {n \in 0 .. Len(Marks) : \A k \in 1 .. n : Due(k)}
           n == CHOOSE n \in due : \A k \in due : k <= n
       IN  /\ events' = events \o Reported(SubSeq(Marks, 1, n))
           /\ batches' = [batches EXCEPT ![1].marks = SubSeq(@, n + 1, Len(@))]
    /\ step' = "write"
    /\ UNCHANGED <<runtimeVars, token, engine, wanted, clauses, audio, position, written,
                   actions, aborted, silent, clause, lateWrites, speaks>>

\* ... and a chunk is written.  The site may take part of it and then be full, or
\* fail; what it took part of is not offered again.
WriteChunk ==
    /\ step = "write"
    /\ LET chunk == IF audio - position < Chunk THEN audio - position ELSE Chunk
       IN  \E took \in 0 .. chunk, ok \in BOOLEAN :
            /\ written' = written + took
            /\ position' = IF ok /\ took > 0 THEN position + chunk ELSE position
            /\ aborted' = ~ok
            /\ step' = IF ok THEN "play" ELSE "marks"
    /\ lateWrites' = IF actions = "none" THEN 0 ELSE lateWrites + 1
    /\ UNCHANGED <<runtimeVars, token, engine, wanted, batches, clauses, audio, actions,
                   events, silent, clause, speaks>>

\* The marks left at the end of the batch, also of one that was cut.
EndBatch ==
    /\ step = "marks" \/ (step = "play" /\ position = audio)
    /\ events' = events \o Reported(Marks)
    /\ batches' = Tail(batches)
    /\ audio' = 0 /\ position' = 0
    /\ step' = IF aborted THEN "return" ELSE "batch"
    /\ UNCHANGED <<runtimeVars, token, engine, wanted, clauses, written, actions,
                   aborted, silent, clause, lateWrites, speaks>>

\* 50 ms of silence behind the last batch, whatever the site says.
PadEnd ==
    /\ step = "batch" /\ batches = <<>>
    /\ lateWrites' = IF actions = "none" THEN 0 ELSE lateWrites + 1
    /\ step' = "return"
    /\ UNCHANGED <<runtimeVars, token, engine, speakVars, actions, events, silent,
                   clause, speaks>>

\* Speak returns: its locals, and the history of what it did, are forgotten.
Return ==
    /\ step = "return"
    /\ step' = "idle" /\ engine' = None
    /\ wanted' = NoText
    /\ batches' = <<>> /\ clauses' = 0 /\ audio' = 0 /\ position' = 0
    /\ written' = 0 /\ actions' = "none" /\ aborted' = FALSE
    /\ events' = <<>> /\ silent' = {} /\ clause' = NoClause /\ lateWrites' = 0
    /\ UNCHANGED <<runtimeVars, token, speaks>>

SpeakStep == GiveUp \/ MarksBatch \/ BeginBatch \/ QueueClause \/ SkipSilentBatch
             \/ BeginPlay \/ ReportDue \/ WriteChunk \/ EndBatch
             \/ PadEnd \/ Return

-----------------------------------------------------------------------------
Next == \/ Host
        \/ (SpeakStep \/ \E e \in Engines : Speak(e)) /\ UNCHANGED moves

\* The thread that called Speak runs; the host need not do anything.
Spec == Init /\ [][Next]_vars /\ WF_vars(SpeakStep /\ UNCHANGED moves)

-----------------------------------------------------------------------------
MarksOf(text) == {n \in DOMAIN text : text[n] = "mark"}

\* A screen reader follows the speech by its bookmarks (ISpTTSEngineImpl.cpp 512-516).
\* However the site takes the audio, they come in the order of the text and once
\* each; none comes before all audio in front of it was handed over, unless the
\* batch was cut; and none comes a chunk or more of written audio late.  A Speak
\* that was not cut reports in the end all but those of batches without sound.
BookmarksKeepTheirPlace ==
    /\ \A j, k \in DOMAIN events : j < k => events[j].id < events[k].id
    /\ \A k \in DOMAIN events : ~events[k].early /\ ~events[k].late
    /\ step = "return" /\ ~aborted =>
         MarksOf(wanted.text) = silent \cup {events[k].id : k \in DOMAIN events}

\* An abort or a skip cuts the speech at once: what follows is the chunk being
\* written and, if that was the last one, the silence behind it.
AbortCutsSpeech == lateWrites <= 2

\* Speak returns once the host has asked for silence, also when the device takes
\* nothing any more.
AbortedSpeakReturns == (step # "idle" /\ actions # "none") ~> step = "idle"

\* A clause is spoken in the voice of the token Speak began with, though the
\* runtime, eSpeak and the token are shared with or changed by others: its profile,
\* the profile's tone from the second clause on, and, if the pack of its language
\* can be read, that pack and phonemes in that language when eSpeak has a voice
\* for it.
SpokenInItsVoice ==
    clause.spoken =>
        /\ clause.profile = wanted.voice
        /\ clause.number > 1 => clause.tone = wanted.voice
        /\ wanted.read => /\ clause.pack = wanted.lang
                          /\ clause.up /\ wanted.lang \in Named => clause.voice = wanted.lang
=============================================================================
