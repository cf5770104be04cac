---------------------------- MODULE WaveGenerator ----------------------------
(***************************************************************************)
(* SpeechWaveGeneratorImpl::generate (src/src/speechWaveGenerator.cpp) on  *)
(* top of the frame manager: the audio thread asks for a buffer, the       *)
(* generator pulls one frame per sample, renders it, or fades out and      *)
(* returns early when there is none.                                       *)
(*                                                                         *)
(* The synthesis filters are abstracted away.  A rendered sample is known  *)
(* by the request whose formants the frame it was made from comes from     *)
(* (its tag; in a fade, the frame the fade leaves), and the limiter's      *)
(* lookahead line delays it.  What is kept is the control: the purge check *)
(* at the start of a buffer, the reset that ends a silence, the fade-in    *)
(* and fade-out counters, the extra pulls of time-stretch, and the early   *)
(* return.                                                                 *)
(***************************************************************************)
EXTENDS FrameManager

CONSTANTS
    BufferSize,   \* samples per generate call
    PurgeFade,    \* 4 ms: fade-in set when a purge is noticed
    StartFade,    \* 5 ms: fade-in after silence
    StopFade,     \* 4 ms: fade-out when frames stop
    LookAhead,    \* limiterDelayLen
    StretchUnit,  \* timeStretchFactor - 1 is StretchStep / StretchUnit
    StretchStep

ASSUME GeneratorAssumption ==
    /\ {BufferSize, PurgeFade, StartFade, LookAhead, StretchUnit} \subseteq Nat \ {0}
    /\ StopFade \in Nat /\ StopFade > 1
    /\ StretchStep \in Nat

VARIABLES
    gpc,         \* where generate is: "outside", "pull", "return", "render",
                 \* "stretch", "stretchReturn", "next"
    sampleNum,   \* i: samples of this buffer so far
    wasSilence,
    startFade,   \* startFadeRemaining
    stopFade,    \* [left, total]: stopFadeRemaining, stopFadeTotal
    delay,       \* limiterDelayBuf, oldest first: the tags of rendered samples
    bright,      \* lastBrightOut: the tag of the last sample rendered frames gave
    stretch,     \* timeStretchAccum * StretchUnit
    returned,    \* what the last generate call returned, -1 before it does
    sample,      \* the last sample written: its kind, tag and fade-out position
    cutAt,       \* history: the oldest request the last purge lets be heard
    seenCut      \* history: cutAt when the purge flag was last found set, or less
                 \* if a pause has purged since

genVars == <<gpc, sampleNum, wasSilence, startFade, stopFade, delay, bright,
             stretch, returned, sample, cutAt, seenCut>>
allVars == <<vars, genVars>>

NoTag == 0
EmptyLine == [k \in 1 .. LookAhead |-> NoTag]
NoFade == [left |-> 0, total |-> 0]

GenInit ==
    /\ Init
    /\ gpc = "outside" /\ sampleNum = 0 /\ wasSilence = TRUE
    /\ startFade = 0 /\ stopFade = NoFade
    /\ delay = EmptyLine /\ bright = NoTag /\ stretch = 0
    /\ returned = -1
    /\ sample = [kind |-> "none", tag |-> NoTag, left |-> 0]
    /\ cutAt = 0 /\ seenCut = 0

\* A caller enters generate: the purge flag is looked at here and nowhere else.
BeginBuffer ==
    /\ gpc = "outside"
    /\ CheckAndClearPurgeFlag
    /\ gpc' = "pull" /\ sampleNum' = 0
    /\ IF purgeFlag
       THEN startFade' = PurgeFade /\ wasSilence' = TRUE /\ seenCut' = cutAt
       ELSE UNCHANGED <<startFade, wasSilence, seenCut>>
    /\ UNCHANGED <<stopFade, delay, bright, stretch, returned, sample, cutAt>>

\* getCurrentFrameWithEx, for the next sample or for time-stretch, in two steps.
Pull ==
    /\ gpc \in {"pull", "stretch"}
    /\ UpdateCurrentFrame
    /\ gpc' = IF gpc = "pull" THEN "return" ELSE "stretchReturn"
    /\ UNCHANGED <<sampleNum, wasSilence, startFade, stopFade, delay, bright,
                   stretch, returned, sample, cutAt, seenCut>>

Pulled ==
    /\ gpc \in {"return", "stretchReturn"}
    /\ ReturnFrame
    /\ gpc' = IF gpc = "return" THEN "render"
              ELSE IF stretch - StretchUnit >= StretchUnit THEN "stretch" ELSE "next"
    /\ stretch' = IF gpc = "return" THEN stretch ELSE stretch - StretchUnit
    /\ UNCHANGED <<sampleNum, wasSilence, startFade, stopFade, delay, bright,
                   returned, sample, cutAt, seenCut>>

\* Slip: the lookahead line is not cleared after silence.
RenderStaleLine ==
    /\ gpc = "render" /\ out # NoFrame
    /\ delay' = Append(Tail(delay), out.from.src) /\ bright' = Head(delay)
    /\ sample' = [kind |-> "voice", tag |-> Head(delay), left |-> 0]
    /\ startFade' = IF wasSilence THEN StartFade - 1 ELSE IF startFade > 0 THEN startFade - 1 ELSE 0
    /\ stopFade' = IF wasSilence THEN NoFade ELSE stopFade
    /\ wasSilence' = FALSE
    /\ stretch' = stretch + StretchStep
    /\ gpc' = IF stretch' >= StretchUnit THEN "stretch" ELSE "next"
    /\ UNCHANGED <<vars, sampleNum, returned, cutAt, seenCut>>

\* The sample the lookahead line gives back, faded in, amplified and limited.
Rendered(line) == [kind |-> "voice", tag |-> Head(line), left |-> 0]

\* A frame: everything is reset if silence ends here, then the sample goes into
\* the lookahead line and the oldest one comes out.
RenderFrame ==
    /\ gpc = "render" /\ out # NoFrame
    /\ LET line   == IF wasSilence THEN EmptyLine ELSE delay
           fadeIn == IF wasSilence THEN StartFade ELSE startFade
       IN  /\ delay' = Append(Tail(line), out.from.src)
           /\ bright' = Head(line)
           /\ sample' = Rendered(line)
           /\ startFade' = IF fadeIn > 0 THEN fadeIn - 1 ELSE 0
    /\ stopFade' = IF wasSilence THEN NoFade ELSE stopFade
    /\ wasSilence' = FALSE
    /\ stretch' = stretch + StretchStep
    /\ gpc' = IF stretch' >= StretchUnit THEN "stretch" ELSE "next"
    /\ UNCHANGED <<vars, sampleNum, returned, cutAt, seenCut>>

\* Slip: the fade-out starts again at every missing frame.
FadeOutRestarting == [left |-> StopFade, total |-> StopFade]

\* The fade-out in force when no frame is there: a new one unless one was begun.
FadeOut ==
    IF stopFade.total = 0 THEN [left |-> StopFade, total |-> StopFade] ELSE stopFade

\* No frame, in mid-speech: a sample of the fade-out from the last rendered one.
RenderTail ==
    /\ gpc = "render" /\ out = NoFrame
    /\ ~wasSilence /\ FadeOut.left > 0
    /\ sample' = [kind |-> "tail", tag |-> bright, left |-> FadeOut.left]
    /\ stopFade' = [FadeOut EXCEPT !.left = @ - 1]
    /\ gpc' = "next"
    /\ UNCHANGED <<vars, sampleNum, wasSilence, startFade, delay, bright, stretch,
                   returned, cutAt, seenCut>>

\* No frame, and no fade-out left: the rest of the buffer is zeroed, return i.
GiveUp ==
    /\ gpc = "render" /\ out = NoFrame
    /\ wasSilence \/ FadeOut.left = 0
    /\ wasSilence' = TRUE
    /\ stopFade' = NoFade
    /\ sample' = [kind |-> "zero", tag |-> NoTag, left |-> 0]
    /\ returned' = sampleNum
    /\ gpc' = "outside"
    /\ UNCHANGED <<vars, sampleNum, startFade, delay, bright, stretch, cutAt, seenCut>>

NextSample ==
    /\ gpc = "next"
    /\ sampleNum' = sampleNum + 1
    /\ IF sampleNum' = BufferSize
       THEN gpc' = "outside" /\ returned' = BufferSize
       ELSE gpc' = "pull" /\ UNCHANGED returned
    /\ UNCHANGED <<vars, wasSilence, startFade, stopFade, delay, bright, stretch,
                   sample, cutAt, seenCut>>

Generate == BeginBuffer \/ Pull \/ Pulled \/ RenderFrame \/ RenderTail \/ GiveUp \/ NextSample

\* What a purging request lets be heard: itself, or, when it is a pause, the frame
\* it cuts, which it fades out from that frame's own gain (frame.cpp 388-411).
HeardAfter(shape) == IF shape.null THEN old.frame.src ELSE submitted + 1

Queue(shape) == QueueFrame(shape) /\ UNCHANGED genVars

QueuePurging(shape) ==
    /\ QueueFramePurging(shape)
    /\ cutAt' = HeardAfter(shape)
    /\ seenCut' = IF cutAt' < seenCut THEN cutAt' ELSE seenCut
    /\ UNCHANGED <<gpc, sampleNum, wasSilence, startFade, stopFade, delay, bright,
                   stretch, returned, sample>>

Queueing == \E shape \in Shapes : Queue(shape) \/ QueuePurging(shape)

GenNext == Queueing \/ Generate

GenSpec == GenInit /\ [][GenNext]_allVars

\* The caller keeps asking for buffers and the audio thread is scheduled.
GenFairSpec == GenSpec /\ WF_allVars(Generate)
-----------------------------------------------------------------------------
\* The lookahead line holds samples of requests in the order they sounded, none
\* newer than the frame now sounding and none older than the sample last written.
LookaheadInOrder ==
    /\ \A j, k \in 1 .. LookAhead : j < k => delay[j] <= delay[k]
    /\ \A k \in 1 .. LookAhead : delay[k] <= old.frame.src
    /\ ~wasSilence => bright <= delay[1]

\* Once generate has noticed a purge, no sample made from a request before the
\* purging one comes out again, neither from the lookahead line nor as a fade-out
\* tail (speechWaveGenerator.cpp 349-360, 384-387, 757).  The exception is a purge
\* by a pause: it fades out the frame it cut, and nothing before that frame is heard.
PurgedSoundNeverHeard ==
    [][(gpc = "render" /\ gpc' # "render" /\ sample'.tag # NoTag) =>
          sample'.tag >= seenCut]_allVars

\* A fade-out goes down one step per sample, across buffers, and silence follows
\* only its last step (speechWaveGenerator.cpp 748-771).
FadeOutIsSmooth ==
    [][(gpc = "render" /\ gpc' # "render" /\ sample.kind = "tail" /\ ~wasSilence) =>
          \/ sample'.kind = "voice"
          \/ sample'.kind = "tail" /\ sample'.left = sample.left - 1
          \/ sample'.kind = "zero" /\ sample.left = 1]_allVars

\* "If we were mid-speech, fade out for a few ms" (speechWaveGenerator.cpp:747): when
\* frames stop in mid-speech, the next sample is the first of a whole fade-out.  The
\* code breaks it: frames that return during a fade-out leave its counters as they
\* are, so the fade-out of the next gap is the rest of that one, or none (749-771).
SpeechEndsInAFadeOut ==
    [][(gpc = "render" /\ out = NoFrame /\ ~wasSilence /\ sample.kind = "voice"
        /\ gpc' # "render") =>
          sample'.kind = "tail" /\ sample'.left = StopFade]_allVars

\* A caller that has stopped queueing and pulls until generate returns nothing
\* does get there (the loop of speechPlayer_synthesize's callers).
EventuallySilent == []<>(gpc = "outside" /\ returned = 0 /\ queue = <<>>)
=============================================================================
