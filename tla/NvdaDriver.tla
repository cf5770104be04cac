----------------------------- MODULE NvdaDriver -----------------------------
(***************************************************************************)
(* The NVDA synth driver (src/nvdaAddon/synthDrivers/tgSpeechBox): NVDA's  *)
(* main thread calls speak and cancel, BgThread turns text into frames on  *)
(* the player, AudioThread pulls audio from the player and feeds the       *)
(* WavePlayer.  The threads share plain Python attributes (isSpeaking,     *)
(* allFramesQueued, _speakGen) with no lock, so every read and every write *)
(* of one is a step of its own.                                            *)
(*                                                                         *)
(* The player is the request queue that FrameManager implements: frames    *)
(* are taken in order, a purging one drops the rest.  A frame is known by  *)
(* its utterance; utterance u is Chunks[u] clauses, each one frame, then   *)
(* one index marker and the tail fade, or only an index, which BgThread    *)
(* reports itself.  Setting _framesReady is folded into the write it       *)
(* follows: the wait for it times out after 5 ms anyway.                   *)
(***************************************************************************)
EXTENDS Integers, Sequences, FiniteSets

CONSTANTS
    MaxSpeaks,   \* bound on the calls of speak
    MaxCancels,  \* bound on the calls of cancel
    Chunks       \* clauses of every utterance

ASSUME DriverAssumption ==
    {MaxSpeaks, MaxCancels} \subseteq Nat /\ Chunks \in [1 .. MaxSpeaks -> Nat \ {0}]

VARIABLES
    \* shared
    isSpeaking, allFramesQueued, wake, speakGen, bgQueue,
    \* the player: queued frames, what getLastIndex returns
    frames, playerIndex,
    \* the WavePlayer: chunks fed and not yet played
    fed,
    \* main thread
    main, speaks, cancels,
    \* BgThread: pc, the job, clauses left, hadKickedAudio, hadRealSpeech
    bg, job, left, kicked, real,
    \* AudioThread: pc, the data synthesize returned, lastIndex, didSpeak
    audio, data, audioIndex, didSpeak,
    \* history: utterances up to cut were cancelled by a finished or running
    \* cancel; the indices that playback reported; the number of done notifications
    cut, reached, dones

shared   == <<isSpeaking, allFramesQueued, wake, speakGen, bgQueue>>
mainVars == <<main, speaks, cancels>>
bgVars   == <<bg, job, left, kicked, real>>
audioVars == <<audio, data, audioIndex, didSpeak>>
history  == <<cut, reached, dones>>
vars == <<shared, frames, playerIndex, fed, mainVars, bgVars, audioVars, history>>

NoIndex == -1
NoUtterance == 0
NoData == [utts |-> {}, index |-> NoIndex]
NoJob == [utt |-> NoUtterance, gen |-> 0, text |-> TRUE]

\* A frame on the player; a marker carries its utterance's number as the index.
Sound(u)  == [utt |-> u, index |-> NoIndex]
Marker(u) == [utt |-> u, index |-> u]
Silence   == Sound(NoUtterance)

Init ==
    /\ isSpeaking = FALSE /\ allFramesQueued = TRUE /\ wake = FALSE
    /\ speakGen = 0 /\ bgQueue = <<>>
    /\ frames = <<>> /\ playerIndex = NoIndex /\ fed = <<>>
    /\ main = "idle" /\ speaks = 0 /\ cancels = 0
    /\ bg = "idle" /\ job = NoJob /\ left = 0 /\ kicked = FALSE /\ real = FALSE
    /\ audio = "wait" /\ data = NoData /\ audioIndex = NoIndex /\ didSpeak = FALSE
    /\ cut = 0 /\ reached = <<>> /\ dones = 0

-----------------------------------------------------------------------------
(* Main thread.                                                            *)

\* Slip: the job goes in front of the waiting ones.
SpeakInFront ==
    /\ main = "idle" /\ speaks < MaxSpeaks
    /\ speaks' = speaks + 1
    /\ \E text \in BOOLEAN :
         bgQueue' = <<[utt |-> speaks + 1, gen |-> speakGen, text |-> text]>> \o bgQueue
    /\ UNCHANGED <<isSpeaking, allFramesQueued, wake, speakGen, frames, playerIndex, fed,
                   main, cancels, bgVars, audioVars, history>>

Speak ==
    /\ main = "idle" /\ speaks < MaxSpeaks
    /\ speaks' = speaks + 1
    /\ \E text \in BOOLEAN :
         bgQueue' = Append(bgQueue, [utt |-> speaks + 1, gen |-> speakGen, text |-> text])
    /\ UNCHANGED <<isSpeaking, allFramesQueued, wake, speakGen, frames, playerIndex, fed,
                   main, cancels, bgVars, audioVars, history>>

\* cancel, phase 1: stop the polling, clear isSpeaking, stop the WavePlayer.
CancelPolling ==
    /\ main = "idle" /\ cancels < MaxCancels
    /\ cancels' = cancels + 1
    /\ allFramesQueued' = TRUE
    /\ cut' = speaks
    /\ main' = "clear"
    /\ UNCHANGED <<isSpeaking, wake, speakGen, bgQueue, frames, playerIndex, fed, speaks,
                   bgVars, audioVars, reached, dones>>

CancelSpeaking ==
    /\ main = "clear"
    /\ isSpeaking' = FALSE
    /\ main' = "stop"
    /\ UNCHANGED <<allFramesQueued, wake, speakGen, bgQueue, frames, playerIndex, fed, speaks,
                   cancels, bgVars, audioVars, history>>

CancelPlayback ==
    /\ main = "stop"
    /\ fed' = <<>>
    /\ main' = "bump"
    /\ UNCHANGED <<shared, frames, playerIndex, speaks, cancels, bgVars, audioVars,
                   cut, reached, dones>>

\* Slip: cancel does not invalidate the running job.
CancelKeepsGeneration ==
    /\ main = "bump"
    /\ main' = "drain"
    /\ UNCHANGED <<shared, frames, playerIndex, fed, speaks, cancels, bgVars, audioVars, history>>

\* phase 2: invalidate the jobs, then drain them
CancelGeneration ==
    /\ main = "bump"
    /\ speakGen' = speakGen + 1
    /\ main' = "drain"
    /\ UNCHANGED <<isSpeaking, allFramesQueued, wake, bgQueue, frames, playerIndex, fed, speaks,
                   cancels, bgVars, audioVars, history>>

CancelJobs ==
    /\ main = "drain"
    /\ bgQueue' = <<>>
    /\ main' = "purge"
    /\ UNCHANGED <<isSpeaking, allFramesQueued, wake, speakGen, frames, playerIndex, fed, speaks,
                   cancels, bgVars, audioVars, history>>

\* phase 3: purge the player
CancelFrames ==
    /\ main = "purge"
    /\ frames' = <<Silence>>
    /\ main' = "kick"
    /\ UNCHANGED <<shared, playerIndex, fed, speaks, cancels, bgVars, audioVars, history>>

CancelKick ==
    /\ main = "kick"
    /\ wake' = TRUE
    /\ main' = "idle"
    /\ UNCHANGED <<isSpeaking, allFramesQueued, speakGen, bgQueue, frames, playerIndex, fed,
                   speaks, cancels, bgVars, audioVars, history>>

Main == Speak \/ CancelPolling \/ CancelSpeaking \/ CancelPlayback \/ CancelGeneration
        \/ CancelJobs \/ CancelFrames \/ CancelKick

-----------------------------------------------------------------------------
(* BgThread: _speakBg.                                                     *)

Stale == job.gen # speakGen

BgGoto(pc) == bg' = pc /\ UNCHANGED <<job, left, kicked, real>>
OthersByBg == <<speakGen, playerIndex, fed, mainVars, audioVars, history>>

TakeJob ==
    /\ bg = "idle" /\ bgQueue # <<>>
    /\ job' = Head(bgQueue) /\ bgQueue' = Tail(bgQueue)
    /\ left' = Chunks[job'.utt] /\ kicked' = FALSE /\ real' = FALSE
    /\ bg' = IF job'.text THEN "chunk" ELSE "notify"
    /\ UNCHANGED <<isSpeaking, allFramesQueued, wake, frames, OthersByBg>>

\* _notifyIndexesAndDone, the whole job of a speak without text: it checks the generation,
\* then reports the indices and synthDoneSpeaking, whatever still plays.
NotifyIndexesAndDone ==
    /\ bg \in {"notify", "notifyDone"}
    /\ IF bg = "notify"
       THEN BgGoto(IF Stale THEN "idle" ELSE "notifyDone") /\ UNCHANGED dones
       ELSE BgGoto("idle") /\ dones' = dones + 1
    /\ UNCHANGED <<shared, frames, playerIndex, fed, mainVars, audioVars, cut, reached>>

\* The generation is checked before each clause, not before the marker.
NextChunk ==
    /\ bg = "chunk"
    /\ IF left = 0 THEN BgGoto("marker")
       ELSE IF Stale THEN BgGoto("idle")
       ELSE \/ BgGoto("onFrame")
            \/ /\ left' = left - 1               \* nothing speakable in it
               /\ UNCHANGED <<bg, job, kicked, real>>
    /\ UNCHANGED <<isSpeaking, allFramesQueued, wake, bgQueue, frames, OthersByBg>>

\* _onFrame checks the generation, then queues the frame.
OnFrame ==
    /\ bg = "onFrame"
    /\ IF Stale
       THEN /\ bg' = "chunk" /\ left' = left - 1 /\ UNCHANGED <<job, kicked, real>>
       ELSE BgGoto("queueFrame")
    /\ UNCHANGED <<isSpeaking, allFramesQueued, wake, bgQueue, frames, OthersByBg>>

QueueSound ==
    /\ bg = "queueFrame"
    /\ frames' = Append(frames, Sound(job.utt))
    /\ real' = TRUE
    /\ bg' = IF kicked THEN "ready" ELSE "checkKick"
    /\ UNCHANGED <<job, left, kicked, isSpeaking, allFramesQueued, wake, bgQueue, OthersByBg>>

\* The first clause starts the audio thread, checking the generation twice.
CheckKick ==
    /\ bg = "checkKick"
    /\ BgGoto(IF Stale THEN "idle" ELSE "setPending")
    /\ UNCHANGED <<isSpeaking, allFramesQueued, wake, bgQueue, frames, OthersByBg>>

SetPending ==
    /\ bg = "setPending"
    /\ allFramesQueued' = FALSE
    /\ BgGoto("setSpeaking")
    /\ UNCHANGED <<isSpeaking, wake, bgQueue, frames, OthersByBg>>

\* Slip: the audio thread is kicked but not told to speak.
SetSpeakingForgotten ==
    /\ bg \in {"setSpeaking", "lateSpeaking"}
    /\ BgGoto(IF bg = "setSpeaking" THEN "recheck" ELSE "lateRecheck")
    /\ UNCHANGED <<isSpeaking, allFramesQueued, wake, bgQueue, frames, OthersByBg>>

SetSpeaking ==
    /\ bg \in {"setSpeaking", "lateSpeaking"}
    /\ isSpeaking' = TRUE
    /\ BgGoto(IF bg = "setSpeaking" THEN "recheck" ELSE "lateRecheck")
    /\ UNCHANGED <<allFramesQueued, wake, bgQueue, frames, OthersByBg>>

RecheckKick ==
    /\ bg \in {"recheck", "lateRecheck"}
    /\ BgGoto(IF Stale THEN "unset" ELSE IF bg = "recheck" THEN "kick" ELSE "lateKick")
    /\ UNCHANGED <<isSpeaking, allFramesQueued, wake, bgQueue, frames, OthersByBg>>

UnsetSpeaking ==
    /\ bg = "unset"
    /\ isSpeaking' = FALSE
    /\ BgGoto("idle")
    /\ UNCHANGED <<allFramesQueued, wake, bgQueue, frames, OthersByBg>>

Kick ==
    /\ bg \in {"kick", "lateKick"}
    /\ wake' = TRUE
    /\ kicked' = TRUE
    /\ bg' = IF bg = "kick" THEN "ready" ELSE "idle"
    /\ UNCHANGED <<job, left, real, isSpeaking, allFramesQueued, bgQueue, frames, OthersByBg>>

\* After a clause: an optional punctuation pause, queued without a check.
ClauseDone ==
    /\ bg = "ready"
    /\ frames' \in {frames, Append(frames, Sound(job.utt))}
    /\ left' = left - 1
    /\ bg' = "chunk"
    /\ UNCHANGED <<job, kicked, real, isSpeaking, allFramesQueued, wake, bgQueue, OthersByBg>>

\* Slip: the index is set when its marker is queued.
QueueMarkerEarly ==
    /\ bg = "marker"
    /\ frames' = Append(frames, Marker(job.utt))
    /\ playerIndex' = job.utt
    /\ BgGoto("tail")
    /\ UNCHANGED <<shared, fed, mainVars, audioVars, history>>

QueueMarker ==
    /\ bg = "marker"
    /\ frames' = Append(frames, Marker(job.utt))
    /\ BgGoto("tail")
    /\ UNCHANGED <<isSpeaking, allFramesQueued, wake, bgQueue, OthersByBg>>

QueueTail ==
    /\ bg = "tail"
    /\ frames' = IF real THEN Append(frames, Sound(job.utt)) ELSE frames
    /\ BgGoto("allQueued")
    /\ UNCHANGED <<isSpeaking, allFramesQueued, wake, bgQueue, OthersByBg>>

SetAllQueued ==
    /\ bg = "allQueued"
    /\ allFramesQueued' = TRUE
    /\ BgGoto("final")
    /\ UNCHANGED <<isSpeaking, wake, bgQueue, frames, OthersByBg>>

\* Slip: the job kicks again although it did.
FinalCheckKicksAgain ==
    /\ bg = "final"
    /\ BgGoto(IF Stale THEN "idle" ELSE "lateSpeaking")
    /\ UNCHANGED <<isSpeaking, allFramesQueued, wake, bgQueue, frames, OthersByBg>>

FinalCheck ==
    /\ bg = "final"
    /\ BgGoto(IF Stale \/ kicked THEN "idle" ELSE "lateSpeaking")
    /\ UNCHANGED <<isSpeaking, allFramesQueued, wake, bgQueue, frames, OthersByBg>>

\* Slip: an exception leaves AudioThread waiting for frames.
BgErrorSilent ==
    /\ bg = "chunk" /\ ~Stale /\ left > 0
    /\ BgGoto("idle")
    /\ UNCHANGED <<isSpeaking, allFramesQueued, wake, bgQueue, frames, OthersByBg>>

\* An exception inside a clause ends the job through _onBgThreadError.
BgError ==
    /\ bg = "chunk" /\ ~Stale /\ left > 0
    /\ allFramesQueued' = TRUE
    /\ BgGoto("idle")
    /\ UNCHANGED <<isSpeaking, wake, bgQueue, frames, OthersByBg>>

BgStep == TakeJob \/ NotifyIndexesAndDone \/ NextChunk \/ OnFrame \/ QueueSound \/ CheckKick \/ SetPending
          \/ SetSpeaking \/ RecheckKick \/ UnsetSpeaking \/ Kick \/ ClauseDone
          \/ QueueMarker \/ QueueTail \/ SetAllQueued \/ FinalCheck

-----------------------------------------------------------------------------
(* AudioThread: run.                                                       *)

OthersByAudio == <<allFramesQueued, speakGen, bgQueue, mainVars, bgVars, cut>>

Woken ==
    /\ audio = "wait" /\ wake
    /\ audio' = "clear"
    /\ UNCHANGED <<isSpeaking, wake, frames, playerIndex, fed, data, audioIndex, didSpeak,
                   reached, dones, OthersByAudio>>

ClearWake ==
    /\ audio = "clear"
    /\ wake' = FALSE
    /\ audioIndex' = NoIndex /\ didSpeak' = FALSE
    /\ audio' = "loop"
    /\ UNCHANGED <<isSpeaking, frames, playerIndex, fed, data, reached, dones, OthersByAudio>>

LoopTest ==
    /\ audio = "loop"
    /\ audio' = IF isSpeaking THEN "synthesize" ELSE "exit"
    /\ didSpeak' = (didSpeak \/ isSpeaking)
    /\ UNCHANGED <<isSpeaking, wake, frames, playerIndex, fed, data, audioIndex,
                   reached, dones, OthersByAudio>>

\* One chunk of audio: some of the queued frames, or none if there is none.
Synthesize ==
    /\ audio = "synthesize"
    /\ \/ /\ frames = <<>>
          /\ data' = [utts |-> {}, index |-> playerIndex]
          /\ UNCHANGED <<frames, playerIndex>>
       \/ \E n \in 1 .. Len(frames) :
            LET marks == {k \in 1 .. n : frames[k].index # NoIndex}
            IN  /\ frames' = SubSeq(frames, n + 1, Len(frames))
                /\ \/ marks = {} /\ UNCHANGED playerIndex
                   \/ \E last \in marks : /\ \A m \in marks : m <= last
                                          /\ playerIndex' = frames[last].index
                /\ data' = [utts |-> {frames[k].utt : k \in 1 .. n}, index |-> playerIndex']
    /\ audio' = "recheck"
    /\ UNCHANGED <<isSpeaking, wake, fed, audioIndex, didSpeak, reached, dones, OthersByAudio>>

\* The re-check of isSpeaking after synthesize returns (287).
RecheckSpeaking ==
    /\ audio = "recheck"
    /\ audio' = IF isSpeaking THEN "deliver" ELSE "exit"
    /\ UNCHANGED <<isSpeaking, wake, frames, playerIndex, fed, data, audioIndex, didSpeak,
                   reached, dones, OthersByAudio>>

\* Audio is fed with the player's index, whether or not it was reported before.
Feed ==
    /\ audio = "deliver" /\ data.utts # {}
    /\ fed' = Append(fed, data)
    /\ audioIndex' = data.index
    /\ audio' = "loop"
    /\ UNCHANGED <<isSpeaking, wake, frames, playerIndex, data, didSpeak, reached, dones,
                   OthersByAudio>>

\* No audio, but an index not reported in this wakeup.
FeedIndex ==
    /\ audio = "deliver" /\ data.utts = {}
    /\ data.index # NoIndex /\ data.index # audioIndex
    /\ fed' = Append(fed, data)
    /\ audioIndex' = data.index
    /\ audio' = "loop"
    /\ UNCHANGED <<isSpeaking, wake, frames, playerIndex, data, didSpeak, reached, dones,
                   OthersByAudio>>

\* No audio and nothing to report: poll while frames are still coming.
OutOfAudio ==
    /\ audio = "deliver" /\ data.utts = {}
    /\ data.index = NoIndex \/ data.index = audioIndex
    /\ audio' = IF allFramesQueued THEN "exit" ELSE "loop"
    /\ UNCHANGED <<isSpeaking, wake, frames, playerIndex, fed, data, audioIndex, didSpeak,
                   reached, dones, OthersByAudio>>

ExitTest ==
    /\ audio = "exit"
    /\ audio' = IF didSpeak /\ isSpeaking THEN "idlePlayer" ELSE "clearSpeaking"
    /\ UNCHANGED <<isSpeaking, wake, frames, playerIndex, fed, data, audioIndex, didSpeak,
                   reached, dones, OthersByAudio>>

\* WavePlayer.idle waits until what was fed has been played.
IdlePlayer ==
    /\ audio = "idlePlayer" /\ fed = <<>>
    /\ audio' = "done"
    /\ UNCHANGED <<isSpeaking, wake, frames, playerIndex, fed, data, audioIndex, didSpeak,
                   reached, dones, OthersByAudio>>

\* synthDoneSpeaking
NotifyDone ==
    /\ audio = "done"
    /\ dones' = dones + 1
    /\ audio' = "clearSpeaking"
    /\ UNCHANGED <<isSpeaking, wake, frames, playerIndex, fed, data, audioIndex, didSpeak,
                   reached, OthersByAudio>>

ClearSpeaking ==
    /\ audio = "clearSpeaking"
    /\ isSpeaking' = FALSE
    /\ audio' = "wait"
    /\ UNCHANGED <<wake, frames, playerIndex, fed, data, audioIndex, didSpeak, reached, dones,
                   OthersByAudio>>

AudioStep == Woken \/ ClearWake \/ LoopTest \/ Synthesize \/ RecheckSpeaking \/ Feed
             \/ FeedIndex \/ OutOfAudio \/ ExitTest \/ IdlePlayer \/ NotifyDone \/ ClearSpeaking

\* The device plays the oldest chunk and calls its onDone, which reports the index.
PlayChunk ==
    /\ fed # <<>>
    /\ fed' = Tail(fed)
    /\ reached' = IF Head(fed).index = NoIndex THEN reached
                  ELSE IF reached # <<>> /\ reached[Len(reached)] = Head(fed).index
                  THEN reached ELSE Append(reached, Head(fed).index)
    /\ UNCHANGED <<shared, frames, playerIndex, mainVars, bgVars, audioVars, cut, dones>>

-----------------------------------------------------------------------------
Next == Main \/ BgStep \/ BgError \/ AudioStep \/ PlayChunk

Spec == Init /\ [][Next]_vars

\* Every thread runs, the device plays; nobody is obliged to call speak or cancel,
\* but a cancel that was begun goes on.
FairSpec == Spec /\ WF_vars(BgStep) /\ WF_vars(AudioStep) /\ WF_vars(PlayChunk)
                 /\ WF_vars(Main /\ main # "idle")

-----------------------------------------------------------------------------
Utterances == 1 .. MaxSpeaks
SoundOf(u) == {k \in DOMAIN frames : frames[k] = Sound(u)}
FedOf(u) == {k \in DOMAIN fed : u \in fed[k].utts}

\* However calls of speak and cancel interleave with the threads, the sound on
\* its way to the device keeps the order of the calls: no frame of an utterance
\* is behind one of a later utterance, and none is behind a fed chunk of it.
SpeechKeepsItsOrder ==
    /\ \A j, k \in DOMAIN frames :
         j < k /\ frames[k].utt # NoUtterance => frames[j].utt <= frames[k].utt
    /\ \A u \in Utterances : FedOf(u) # {} => \A v \in 1 .. u - 1 : SoundOf(v) = {}

\* Playback never reports an index before the speech in front of its marker was
\* played: all that can be left of that utterance is its tail fade.
IndexFollowsItsText ==
    \A k \in DOMAIN reached :
        Cardinality(SoundOf(reached[k])) + Cardinality(FedOf(reached[k])) <= 1

\* What is heard and what is reported of it keep the order of the calls.
SpeechAndIndicesInOrder == SpeechKeepsItsOrder /\ IndexFollowsItsText

\* Once cancel has purged the player, the job it interrupted adds at most what
\* it had already checked the generation for: a frame and its pause, and, after
\* the last clause, the marker and the tail.
CancelCutsSpeechShort ==
    main \in {"kick", "idle"} =>
        Cardinality({k \in DOMAIN frames : frames[k].utt \in 1 .. cut}) <= 4

\* No more synthDoneSpeaking notifications than calls of speak, whichever thread sends
\* them, and whether or not the audio thread wakes twice for one utterance, or once for
\* two: MultiLang counts them to pump its queue.
DonePerUtterance == dones <= speaks

\* "Streaming: kick the AudioThread as soon as we have frames so audio starts
\* while we generate the rest" (speech_pipeline.py 476): when BgThread kicks and
\* speech of its job is still on the player, the audio thread gets to synthesize.
\* A second utterance or a cancel can take the wake-up away.
AudioStartsOnKick ==
    [](speaks <= 1 /\ cancels = 0) =>
        ((bg \in {"kick", "lateKick"} /\ SoundOf(job.utt) # {}) ~> audio = "synthesize")

\* AudioThread does not poll for ever, also when a job ends in an exception: it
\* is asleep for good when the calls have ended (audio.py 45-47, __init__.py 684), unless a
\* cancel crossed the flags of a job.
PollingEnds == [](cut = 0) => <>[](audio = "wait")

\* The audio thread is awake when there is speech and asleep when there is none.
AudioWakesAndSleeps == AudioStartsOnKick /\ PollingEnds
=============================================================================
