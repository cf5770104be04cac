---------------------------- MODULE FrameManager ----------------------------
(***************************************************************************)
(* FrameManagerImpl (src/src/frame.cpp): the queue of frame requests       *)
(* between the threads that queue speech and the audio thread that pulls   *)
(* one frame per sample.                                                   *)
(*                                                                         *)
(* A frame of 47 numbers is abstracted to the request its formants come    *)
(* from (src), its preFormantGain (zero, the 0.3 aspiration tail, or the   *)
(* frame's own), and whether its voice and its aspiration sources sound.   *)
(* The pitch and formant ramps of a settled frame move values inside one   *)
(* request's frame, which this abstraction does not tell apart.            *)
(*                                                                         *)
(* Each action that takes frameLock is one step.  getCurrentFrameWithEx    *)
(* reads curFrameIsNULL once more after the unlock, so it is two steps:    *)
(* UpdateCurrentFrame (locked) and ReturnFrame (not).                      *)
(***************************************************************************)
EXTENDS Integers, Sequences

CONSTANTS
    Shapes,       \* the kinds of request the callers queue
    MaxRequests,  \* bound on the calls of queueFrame in a behaviour
    CounterMod,   \* 2^32 in the code: sampleCounter is an unsigned int
    NoRequest,    \* the NULL newFrameRequest
    NoFrame       \* the NULL frame: nothing to synthesise

Durations == 0 .. (CounterMod - 2)

Gains == {"zero", "tail", "full"}
Frame == [src : Nat, gain : Gains, voice : BOOLEAN, asp : BOOLEAN]
Mix   == [from : Frame, to : Frame]
NoIndex == -1
Request == [id : Nat, null : BOOLEAN, min : Durations, fade : Durations,
            index : Nat \cup {NoIndex}, hasEx : BOOLEAN, frame : Frame]

ASSUME ConstantsAssumption ==
    /\ CounterMod \in Nat /\ CounterMod > 2
    /\ MaxRequests \in Nat
    /\ Shapes \subseteq [null : BOOLEAN, asp : BOOLEAN, min : Durations,
                         fade : Durations, marked : BOOLEAN, hasEx : BOOLEAN]
    /\ NoRequest \notin Request
    /\ NoFrame \notin Mix

VARIABLES
    queue,      \* frameRequestQueue
    old,        \* oldFrameRequest: what is sounding, or what a fade leaves
    new,        \* newFrameRequest: what a fade goes to, or NoRequest
    cur,        \* curFrame, as the two frames it is interpolated between
    curNull,    \* curFrameIsNULL
    curHasEx,   \* curHasFrameEx
    counter,    \* sampleCounter
    lastIndex,  \* lastUserIndex
    purgeFlag,  \* purgeFlag
    pc,         \* the audio thread: "idle", or "return" after the unlock
    out, outEx  \* the frame it was last given, and whether with a FrameEx

\* History, read by no guard but the bound MaxRequests.
VARIABLES
    submitted,  \* how many requests were queued; request n is the n-th
    purgeId,    \* the last purging request, 0 if none
    started,    \* the request that was last taken off the queue, 0 if none
    heard       \* samples since then, at most CounterMod

frameVars == <<queue, old, new, cur, curNull, curHasEx, counter, lastIndex>>
history   == <<submitted, purgeId, started, heard>>
vars      == <<frameVars, purgeFlag, pc, out, outEx, history>>

Settled(f) == [from |-> f, to |-> f]

BlankFrame == [src |-> 0, gain |-> "zero", voice |-> FALSE, asp |-> FALSE]

\* Slip: a fade from silence that starts at the frame's own gain.
SilenceBeforeLoud(f) == [f EXCEPT !.voice = FALSE, !.asp = FALSE]

\* The target of a fade to silence: the old frame with its sources off.  A
\* sounding aspiration is kept at a residual gain (lines 388-411).
SilenceAfter(f) ==
    [f EXCEPT !.voice = FALSE, !.gain = IF f.asp THEN "tail" ELSE "zero"]

\* The origin of a fade from silence: the new frame at zero gain (412-421).
SilenceBefore(f) ==
    [f EXCEPT !.voice = FALSE, !.asp = FALSE, !.gain = "zero"]

Init ==
    /\ queue = <<>>
    /\ old = [id |-> 0, null |-> TRUE, min |-> 0, fade |-> 0, index |-> NoIndex,
              hasEx |-> FALSE, frame |-> BlankFrame]
    /\ new = NoRequest
    /\ cur = Settled(BlankFrame)
    /\ curNull = TRUE
    /\ curHasEx = FALSE
    /\ counter = 0
    /\ lastIndex = NoIndex
    /\ purgeFlag = FALSE
    /\ pc = "idle" /\ out = NoFrame /\ outEx = FALSE
    /\ submitted = 0 /\ purgeId = 0 /\ started = 0 /\ heard = 0

-----------------------------------------------------------------------------
(* The queueing threads.                                                   *)

\* The request queueFrameEx builds: a fade lasts at least one sample.
NewRequest(shape) ==
    [id |-> submitted + 1,
     null |-> shape.null,
     min |-> shape.min,
     fade |-> IF shape.fade > 0 THEN shape.fade ELSE 1,
     index |-> IF shape.marked THEN submitted + 1 ELSE NoIndex,
     hasEx |-> shape.hasEx,
     frame |-> IF shape.null THEN BlankFrame
               ELSE [src |-> submitted + 1, gain |-> "full", voice |-> TRUE,
                     asp |-> shape.asp]]

QueueFrame(shape) ==
    /\ submitted < MaxRequests
    /\ queue' = Append(queue, NewRequest(shape))
    /\ submitted' = submitted + 1
    /\ UNCHANGED <<old, new, cur, curNull, curHasEx, counter, lastIndex, purgeFlag,
                   pc, out, outEx, purgeId, started, heard>>

\* Slips: a purge that leaves the queue or the counter as it was.
PurgeLeaving(shape, rest, count) ==
    /\ submitted < MaxRequests
    /\ queue' = Append(rest, NewRequest(shape))
    /\ counter' = count /\ old' = [old EXCEPT !.null = TRUE]
    /\ curNull' = TRUE /\ new' = NoRequest /\ purgeFlag' = TRUE
    /\ submitted' = submitted + 1 /\ purgeId' = submitted + 1
    /\ UNCHANGED <<cur, curHasEx, lastIndex, pc, out, outEx, started, heard>>
PurgeKeepsQueue(shape)   == PurgeLeaving(shape, queue, old.min)
PurgeKeepsCounter(shape) == PurgeLeaving(shape, <<>>, counter)

\* With purgeQueue, everything queued and the request being faded in are
\* dropped, and the old request is marked so that the next one starts from silence.
QueueFramePurging(shape) ==
    /\ submitted < MaxRequests
    /\ queue' = <<NewRequest(shape)>>
    /\ counter' = old.min
    /\ old' = [old EXCEPT !.null = TRUE]
    /\ curNull' = TRUE
    /\ new' = NoRequest
    /\ purgeFlag' = TRUE
    /\ submitted' = submitted + 1
    /\ purgeId' = submitted + 1
    /\ UNCHANGED <<cur, curHasEx, lastIndex, pc, out, outEx, started, heard>>

-----------------------------------------------------------------------------
(* The audio thread: one updateCurrentFrame per sample, by the value c the *)
(* counter takes.                                                          *)

\* Slip: newFrameRequest is not cleared.
FinishFadeTo(c, next, left) ==
    /\ new # NoRequest /\ c > new.fade
    /\ old' = next /\ new' = left
    /\ cur' = Settled(new.frame) /\ curHasEx' = new.hasEx /\ counter' = c
    /\ UNCHANGED <<queue, curNull, lastIndex, started>>
FinishFadeKeepsNew(c) == FinishFadeTo(c, new, new)

FinishFade(c) ==
    /\ new # NoRequest /\ c > new.fade
    /\ old' = new
    /\ new' = NoRequest
    /\ cur' = Settled(new.frame)
    /\ curHasEx' = new.hasEx
    /\ counter' = c
    /\ UNCHANGED <<queue, curNull, lastIndex, started>>

Crossfade(c) ==
    /\ new # NoRequest /\ c <= new.fade
    /\ cur' = [from |-> old.frame, to |-> new.frame]
    /\ curHasEx' = (old.hasEx \/ new.hasEx)
    /\ counter' = c
    /\ UNCHANGED <<queue, old, new, curNull, lastIndex, started>>

\* The request a fade leaves from, once the one it goes to is known.
FadeOrigin(request) ==
    IF ~request.null /\ old.null
    THEN [old EXCEPT !.frame = SilenceBefore(request.frame), !.null = FALSE,
                     !.hasEx = request.hasEx]
    ELSE old

\* The request a fade goes to: a NULL request is the old frame gone silent.
FadeTarget(request) ==
    IF request.null
    THEN [request EXCEPT !.frame = SilenceAfter(old.frame), !.hasEx = old.hasEx]
    ELSE request

\* Slips: the stale frame kept, the counter not reset.
StartRequestWith(c, refresh, count) ==
    /\ new = NoRequest /\ c > old.min /\ queue # <<>>
    /\ LET request == Head(queue)
           origin  == FadeOrigin(request)
       IN  /\ new' = FadeTarget(request) /\ old' = origin
           /\ lastIndex' = IF request.index # NoIndex THEN request.index ELSE lastIndex
           /\ cur' = IF refresh THEN Settled(origin.frame) ELSE cur
           /\ curHasEx' = IF refresh THEN origin.hasEx ELSE curHasEx
           /\ started' = request.id
    /\ queue' = Tail(queue) /\ curNull' = FALSE /\ counter' = count
StartRequestKeepsFrame(c)   == StartRequestWith(c, FALSE, 0)
StartRequestKeepsCounter(c) == StartRequestWith(c, curNull \/ old.null, c)

StartRequest(c) ==
    /\ new = NoRequest /\ c > old.min /\ queue # <<>>
    /\ LET request == Head(queue)
           origin  == FadeOrigin(request)
           wasFromSilence == curNull \/ old.null
       IN  /\ new' = FadeTarget(request)
           /\ old' = origin
           /\ lastIndex' = IF request.index # NoIndex THEN request.index ELSE lastIndex
           /\ cur' = IF wasFromSilence THEN Settled(origin.frame) ELSE cur
           /\ curHasEx' = IF wasFromSilence THEN origin.hasEx ELSE curHasEx
           /\ started' = request.id
    /\ queue' = Tail(queue)
    /\ curNull' = FALSE
    /\ counter' = 0

RunDry(c) ==
    /\ new = NoRequest /\ c > old.min /\ queue = <<>>
    /\ curNull' = TRUE
    /\ curHasEx' = FALSE
    /\ old' = [old EXCEPT !.null = TRUE]
    /\ counter' = c
    /\ UNCHANGED <<queue, new, cur, lastIndex, started>>

Hold(c) ==
    /\ new = NoRequest /\ c <= old.min
    /\ counter' = c
    /\ UNCHANGED <<queue, old, new, cur, curNull, curHasEx, lastIndex, started>>

UpdateCurrentFrame ==
    LET c == (counter + 1) % CounterMod
    IN  /\ pc = "idle"
        /\ \/ FinishFade(c)
           \/ Crossfade(c)
           \/ StartRequest(c)
           \/ RunDry(c)
           \/ Hold(c)
        /\ pc' = "return"
        /\ outEx' = (~curNull' /\ curHasEx')
        /\ heard' = IF started' # started THEN 0
                    ELSE IF heard < CounterMod THEN heard + 1 ELSE heard
        /\ UNCHANGED <<purgeFlag, out, submitted, purgeId>>

\* return curFrameIsNULL ? NULL : &curFrame, after frameLock is released
ReturnFrame ==
    /\ pc = "return"
    /\ pc' = "idle"
    /\ out' = IF curNull THEN NoFrame ELSE cur
    /\ UNCHANGED <<frameVars, purgeFlag, outEx, history>>

CheckAndClearPurgeFlag ==
    /\ pc = "idle"
    /\ purgeFlag' = FALSE
    /\ UNCHANGED <<frameVars, pc, out, outEx, history>>

-----------------------------------------------------------------------------
Next ==
    \/ \E shape \in Shapes : QueueFrame(shape)
    \/ \E shape \in Shapes : QueueFramePurging(shape)
    \/ UpdateCurrentFrame
    \/ ReturnFrame
    \/ CheckAndClearPurgeFlag

Spec == Init /\ [][Next]_vars
-----------------------------------------------------------------------------
TypeOK ==
    /\ queue \in Seq(Request)
    /\ old \in Request
    /\ new \in Request \cup {NoRequest}
    /\ cur \in Mix
    /\ curNull \in BOOLEAN /\ curHasEx \in BOOLEAN /\ purgeFlag \in BOOLEAN
    /\ counter \in 0 .. (CounterMod - 1)
    /\ lastIndex \in Nat \cup {NoIndex}
    /\ pc \in {"idle", "return"}
    /\ out \in Mix \cup {NoFrame} /\ outEx \in BOOLEAN
    /\ submitted \in Nat /\ purgeId \in Nat /\ started \in Nat /\ heard \in 0 .. CounterMod

\* The queue is exactly the unstarted requests since the last purge, in call
\* order: none lost, none played twice, none overtaken, whatever purges and
\* pulls interleave (frame.cpp 383-387, 607-624).
QueueIsContiguous ==
    LET oldest == IF started < purgeId THEN purgeId ELSE started + 1
    IN  /\ Len(queue) = submitted + 1 - oldest
        /\ \A i \in 1 .. Len(queue) : queue[i].id = oldest + i - 1

\* curFrame and curHasFrameEx are copies: of the old request's frame when
\* nothing fades, and during a fade either that copy still (sample 0) or the
\* blend of the two requests.  Every path that rewrites old->frame must refresh
\* them (frame.cpp 161-168, 361-380, 412-439, 454-483).
CurrentFrameTracksRequest ==
    ~curNull =>
        \/ /\ cur = Settled(old.frame) /\ curHasEx = old.hasEx
           /\ new # NoRequest => counter = 0
        \/ /\ new # NoRequest
           /\ cur = [from |-> old.frame, to |-> new.frame]
           /\ curHasEx = (old.hasEx \/ new.hasEx)

\* The frame an audible request fades in from never carries the formants of a
\* request cut by a purge: the shimmer the comment at frame.cpp 610-615 is about.
NoCrossfadeAcrossPurge ==
    (new # NoRequest /\ ~new.null) => old.frame.src >= purgeId

\* A pause that has settled has no voice or frication, and at most the residual
\* gain of an aspiration: a request marked NULL only to restart from silence
\* (frame.cpp 450, 616) is never heard as a pause at full gain.
SettledPauseIsVoiceless ==
    (~curNull /\ new = NoRequest /\ old.null) =>
        ~cur.to.voice /\ cur.to.gain # "full"

\* The generator keeps using &curFrame after frameLock is released; no call of
\* another thread changes what it points at before the next pull (frame.cpp 640-649).
ReturnedFrameIsStable ==
    (pc = "idle" /\ out # NoFrame) => out = cur /\ outEx = curHasEx

\* What the generator holds between two pulls is the frame of the request that plays,
\* whatever the queueing threads do meanwhile (frame.cpp 640-649).
CurrentFrameIsKept == CurrentFrameTracksRequest /\ ReturnedFrameIsStable

\* The first pull after a purge starts the purging request, however deep in a
\* fade or a minimum duration the purge fell (frame.cpp 609, 618-621).
PurgeStartsAtOnce ==
    [][(started < purgeId /\ pc = "idle" /\ pc' = "return") => started' = purgeId]_vars

\* A purge takes over: at the next pull, and without a trace of what it cut.
PurgeTakesOver == []NoCrossfadeAcrossPurge /\ PurgeStartsAtOnce

\* When silence ends with an audible request, the first sample is that request's
\* own formants at zero gain (frame.cpp 412-439, comments 446-449 and 610-612).
SilenceEndsAtZeroGain ==
    [][(curNull /\ ~curNull' /\ ~new'.null) =>
          cur'.from.src = started' /\ cur'.from.gain = "zero" /\ cur'.to = cur'.from]_vars

\* Between audible samples the frame blended from is one the previous sample was
\* blending; the only jump is to a frame at zero gain (frame.cpp 384, 435-439).
JumpsOnlyToZeroGain ==
    [][(~curNull /\ ~curNull' /\ cur'.from \notin {cur.from, cur.to}) =>
          cur'.from.gain = "zero"]_vars

\* Nothing clicks: a sound that does not follow from the sample before begins at zero
\* gain, be it the end of a silence or a jump (frame.cpp 412-439, 384).
NoClicks == SilenceEndsAtZeroGain /\ JumpsOnlyToZeroGain

\* A newly reported user index is that of the request that has just started,
\* later than every one reported before and never of a purged request (frame.cpp 431).
NoDroppedIndexReported ==
    [][lastIndex' # lastIndex =>
          lastIndex' = started' /\ lastIndex' > lastIndex /\ lastIndex' >= purgeId]_vars

\* A request gives way to the next only after its fade and its minimum number
\* of samples, unless a purge cut it (frame.cpp 161, 382, 432).
EachRequestPlaysOut ==
    [][(started' # started /\ started > 0 /\ started >= purgeId) =>
          heard >= old.min /\ heard > old.fade /\ old.id = started]_vars

\* Every queued request is eventually started or dropped by a later purge, even
\* when sampleCounter wraps while the engine idles.
EveryRequestResolved ==
    \A n \in 1 .. MaxRequests : (submitted >= n) ~> (started >= n \/ purgeId > n)

\* The frame manager implements the request queue its callers rely on.
Promise == INSTANCE RequestQueue
    WITH pending  <- [i \in 1 .. Len(queue) |-> [id |-> queue[i].id, index |-> queue[i].index]],
         playing  <- IF started < purgeId THEN 0 ELSE started,
         reported <- lastIndex
ImplementsRequestQueue == Promise!AbstractSpec
=============================================================================
