------------------------- MODULE WaveGeneratorProofs -------------------------
(***************************************************************************)
(* Proofs about FrameManager, for every set of request shapes, every bound *)
(* on the number of requests and every width of sampleCounter; and about   *)
(* WaveGenerator, which is built on it, for every buffer size, every       *)
(* length of the fades and of the lookahead line, and every time-stretch.  *)
(* The frame manager takes the same steps below the generator as alone, so *)
(* its invariant (IInv) holds there too, and the generator's own (GInv)    *)
(* rests on it.                                                            *)
(***************************************************************************)
EXTENDS WaveGenerator, TLAPS


-----------------------------------------------------------------------------
(* The frame manager: the inductive invariant.                             *)

\* A NULL request in preparation or in the queue is what queueFrameEx built.
IsSilent(f) == ~f.voice /\ f.gain # "full"

\* Numbers and indices of the requests, relative to the history.
Numbering ==
    /\ purgeId <= submitted /\ started <= submitted
    /\ QueueIsContiguous
    /\ \A i \in 1 .. Len(queue) :
          /\ queue[i].index \in {NoIndex, queue[i].id}
          /\ ~queue[i].null => queue[i].frame.src = queue[i].id
    /\ lastIndex <= started

\* Silence is always entered through the old request's mark, with no fade on.
SilenceIsMarked == curNull => old.null /\ new = NoRequest

\* After a purge the next pull finds the counter at the minimum and no fade.
PurgeIsArmed ==
    started < purgeId => counter = old.min /\ new = NoRequest

\* Where the audible frames come from.
AudibleIsCurrent ==
    /\ ~old.null => old.frame.src >= purgeId
    /\ (new # NoRequest /\ ~new.null) => ~old.null /\ new.frame.src >= purgeId

\* A fade to silence, and a settled pause, are silent.
PausesAreSilent ==
    /\ (new # NoRequest /\ new.null) => IsSilent(new.frame)
    /\ (~curNull /\ new = NoRequest /\ old.null) => IsSilent(old.frame)

\* What the pulling thread holds between the unlock and the next pull.
OutIsCurrent ==
    /\ (pc = "return" /\ ~curNull) => outEx = curHasEx
    /\ (pc = "idle" /\ out # NoFrame) => out = cur /\ outEx = curHasEx

\* How long the request that started last has been heard.
HeardSinceStart ==
    started >= purgeId =>
        /\ heard >= counter
        /\ new # NoRequest => new.id = started
        /\ new = NoRequest =>
              old.id = started /\ (started > 0 => heard > old.fade)

\* Every fade lasts a sample at least, so no pull goes from sample 0 to the end.
FadesTakeTime ==
    /\ \A i \in 1 .. Len(queue) : queue[i].fade >= 1
    /\ new # NoRequest => new.fade >= 1

IInv == /\ TypeOK
        /\ Numbering
        /\ CurrentFrameTracksRequest
        /\ SilenceIsMarked
        /\ PurgeIsArmed
        /\ AudibleIsCurrent
        /\ PausesAreSilent
        /\ OutIsCurrent
        /\ HeardSinceStart
        /\ FadesTakeTime
-----------------------------------------------------------------------------
(* Lemmas.                                                                 *)

\* One tick of the counter: it stays in range, and counts unless it wraps.
LEMMA CounterTick ==
    ASSUME NEW n \in 0 .. (CounterMod - 1)
    PROVE  /\ (n + 1) % CounterMod \in 0 .. (CounterMod - 1)
           /\ (n + 1) % CounterMod <= n + 1
           /\ n + 1 < CounterMod => (n + 1) % CounterMod = n + 1
<1>1. CounterMod \in Nat /\ CounterMod > 2
  BY ConstantsAssumption
<1>2. CASE n + 1 < CounterMod
  BY <1>1, <1>2
<1>3. CASE n + 1 = CounterMod
  <2>1. (n + 1) % CounterMod = 0
    BY <1>1, <1>3
  <2> QED BY <1>1, <1>3, <2>1
<1> QED BY <1>1, <1>2, <1>3

\* What queueFrameEx builds is a request, numbered next.
LEMMA NewRequestType ==
    ASSUME TypeOK, NEW shape \in Shapes
    PROVE  /\ NewRequest(shape) \in Request
           /\ NewRequest(shape).id = submitted + 1
           /\ NewRequest(shape).index \in {NoIndex, submitted + 1}
           /\ ~NewRequest(shape).null => NewRequest(shape).frame.src = submitted + 1
           /\ NewRequest(shape).fade >= 1
<1>1. shape \in [null : BOOLEAN, asp : BOOLEAN, min : Durations,
                  fade : Durations, marked : BOOLEAN, hasEx : BOOLEAN]
  BY ConstantsAssumption
<1>2. 1 \in Durations
  BY ConstantsAssumption DEF Durations
<1>3. submitted \in Nat
  BY DEF TypeOK
<1> QED BY <1>1, <1>2, <1>3
     DEF NewRequest, Request, Frame, Gains, BlankFrame, NoIndex, Durations

\* Both ends of a fade are requests when the request and the old one are.
LEMMA FadeType ==
    ASSUME old \in Request, NEW request \in Request
    PROVE  FadeOrigin(request) \in Request /\ FadeTarget(request) \in Request
<1>1. /\ SilenceBefore(request.frame) \in Frame
      /\ SilenceAfter(old.frame) \in Frame
  BY DEF Request, Frame, Gains, SilenceBefore, SilenceAfter
<1> QED BY <1>1 DEF FadeOrigin, FadeTarget, Request

\* The head of a non-empty queue is a request, and the rest a queue of requests.
LEMMA HeadType ==
    ASSUME queue \in Seq(Request), queue # <<>>
    PROVE  /\ Head(queue) \in Request /\ Head(queue) = queue[1]
           /\ Tail(queue) \in Seq(Request) /\ Len(Tail(queue)) = Len(queue) - 1
           /\ \A i \in 1 .. (Len(queue) - 1) : Tail(queue)[i] = queue[i + 1]
  OBVIOUS

-----------------------------------------------------------------------------
(* Type correctness.                                                       *)

LEMMA InitTypeOK == Init => TypeOK
<1> SUFFICES ASSUME Init PROVE TypeOK
  OBVIOUS
<1>1. BlankFrame \in Frame
  BY DEF BlankFrame, Frame, Gains
<1>2. cur \in Mix
  BY <1>1 DEF Init, Settled, Mix
<1>3. 0 \in Durations /\ 0 \in 0 .. (CounterMod - 1) /\ 0 \in 0 .. CounterMod
  BY ConstantsAssumption DEF Durations
<1>4. old \in Request
  BY <1>1, <1>3 DEF Init, Request
<1>5. queue \in Seq(Request)
  BY DEF Init
<1> QED BY <1>2, <1>3, <1>4, <1>5 DEF Init, TypeOK

LEMMA QueueFrameTypeOK ==
    ASSUME TypeOK, NEW shape \in Shapes, QueueFrame(shape) \/ QueueFramePurging(shape)
    PROVE  TypeOK'
<1>1. NewRequest(shape) \in Request
  BY NewRequestType
<1>2. CASE QueueFrame(shape)
  BY <1>1, <1>2 DEF QueueFrame, TypeOK
<1>3. CASE QueueFramePurging(shape)
  <2>1. [old EXCEPT !.null = TRUE] \in Request
    BY DEF TypeOK, Request
  <2>2. old.min \in 0 .. (CounterMod - 1)
    BY ConstantsAssumption DEF TypeOK, Request, Durations
  <2>3. <<NewRequest(shape)>> \in Seq(Request)
    BY <1>1
  <2> QED BY <1>3, <2>1, <2>2, <2>3 DEF QueueFramePurging, TypeOK
<1> QED BY <1>2, <1>3

LEMMA UpdateTypeOK ==
    ASSUME TypeOK, UpdateCurrentFrame
    PROVE  TypeOK'
<1> DEFINE c == (counter + 1) % CounterMod
<1>1. c \in 0 .. (CounterMod - 1)
  BY CounterTick DEF TypeOK
<1>2. CounterMod \in Nat /\ CounterMod > 2
  BY ConstantsAssumption
<1> HIDE DEF c
<1> DEFINE FrameTypeOK ==
      /\ queue \in Seq(Request) /\ old \in Request /\ new \in Request \cup {NoRequest}
      /\ cur \in Mix /\ curNull \in BOOLEAN /\ curHasEx \in BOOLEAN
      /\ counter \in 0 .. (CounterMod - 1)
      /\ lastIndex \in Nat \cup {NoIndex} /\ started \in Nat
<1>3. FrameTypeOK'
  <2>1. CASE FinishFade(c)
    <3>1. new \in Request /\ new.frame \in Frame /\ new.hasEx \in BOOLEAN
      BY <2>1 DEF FinishFade, TypeOK, Request
    <3> QED BY <1>1, <2>1, <3>1 DEF FinishFade, TypeOK, Settled, Mix
  <2>2. CASE Crossfade(c)
    <3>1. /\ old.frame \in Frame /\ new.frame \in Frame
          /\ (old.hasEx \/ new.hasEx) \in BOOLEAN
      BY <2>2 DEF Crossfade, TypeOK, Request
    <3> QED BY <1>1, <2>2, <3>1 DEF Crossfade, TypeOK, Mix
  <2>3. CASE StartRequest(c)
    <3> DEFINE request == Head(queue)
    <3>1. request \in Request /\ Tail(queue) \in Seq(Request)
      BY <2>3, HeadType DEF StartRequest, TypeOK
    <3> HIDE DEF request
    <3>2. FadeOrigin(request) \in Request /\ FadeTarget(request) \in Request
      BY <3>1, FadeType DEF TypeOK
    <3>3. Settled(FadeOrigin(request).frame) \in Mix /\ FadeOrigin(request).hasEx \in BOOLEAN
      BY <3>2 DEF Settled, Mix, Request
    <3>4. request.index \in Nat \cup {NoIndex} /\ request.id \in Nat
      BY <3>1 DEF Request
    <3>5. /\ new' = FadeTarget(request) /\ old' = FadeOrigin(request)
          /\ lastIndex' \in {request.index, lastIndex}
          /\ cur' \in {Settled(FadeOrigin(request).frame), cur}
          /\ curHasEx' \in {FadeOrigin(request).hasEx, curHasEx}
          /\ started' = request.id
          /\ queue' = Tail(queue) /\ curNull' = FALSE /\ counter' = 0
      BY <2>3 DEF StartRequest, request
    <3>6. curHasEx' \in BOOLEAN
      BY <3>3, <3>5 DEF TypeOK
    <3>7. cur' \in Mix
      BY <3>3, <3>5 DEF TypeOK
    <3>8. lastIndex' \in Nat \cup {NoIndex}
      BY <3>4, <3>5 DEF TypeOK
    <3>9. queue' \in Seq(Request) /\ old' \in Request /\ new' \in Request
      BY <3>1, <3>2, <3>5
    <3>10. started' \in Nat /\ counter' \in 0 .. (CounterMod - 1)
      BY <1>2, <3>4, <3>5
    <3>11. curNull' \in BOOLEAN
      BY <3>5
    <3> QED BY <3>6, <3>7, <3>8, <3>9, <3>10, <3>11
  <2>4. CASE RunDry(c)
    <3>1. [old EXCEPT !.null = TRUE] \in Request
      BY DEF TypeOK, Request
    <3> QED BY <1>1, <2>4, <3>1 DEF RunDry, TypeOK
  <2>5. CASE Hold(c)
    BY <1>1, <2>5 DEF Hold, TypeOK
  <2>6. FinishFade(c) \/ Crossfade(c) \/ StartRequest(c) \/ RunDry(c) \/ Hold(c)
    BY DEF UpdateCurrentFrame, c
  <2> QED BY <2>1, <2>2, <2>3, <2>4, <2>5, <2>6
<1>4. heard' \in 0 .. CounterMod
  BY <1>2 DEF UpdateCurrentFrame, TypeOK
<1>5. outEx' \in BOOLEAN /\ pc' = "return"
  BY DEF UpdateCurrentFrame
<1> QED BY <1>3, <1>4, <1>5 DEF UpdateCurrentFrame, TypeOK

LEMMA NextTypeOK == TypeOK /\ [Next]_vars => TypeOK'
<1> SUFFICES ASSUME TypeOK, [Next]_vars PROVE TypeOK'
  OBVIOUS
<1>1. ASSUME NEW shape \in Shapes, QueueFrame(shape) \/ QueueFramePurging(shape)
      PROVE  TypeOK'
  BY <1>1, QueueFrameTypeOK
<1>2. CASE UpdateCurrentFrame
  BY <1>2, UpdateTypeOK
<1>3. CASE ReturnFrame
  BY <1>3 DEF ReturnFrame, TypeOK, frameVars, history
<1>4. CASE CheckAndClearPurgeFlag
  BY <1>4 DEF CheckAndClearPurgeFlag, TypeOK, frameVars, history
<1>5. CASE UNCHANGED vars
  BY <1>5 DEF vars, TypeOK, frameVars, history
<1> QED BY <1>1, <1>2, <1>3, <1>4, <1>5 DEF Next

\* Every reachable state of the frame manager is well typed (the whole of frame.cpp's state).
THEOREM TypeCorrect == Spec => []TypeOK
  BY InitTypeOK, NextTypeOK, PTL DEF Spec

-----------------------------------------------------------------------------
(* Preservation of the invariant.                                          *)

LEMMA InitIInv == Init => IInv
<1> SUFFICES ASSUME Init PROVE IInv
  OBVIOUS
<1>1. TypeOK
  BY InitTypeOK
<1>2. Numbering /\ FadesTakeTime
  BY DEF Init, Numbering, QueueIsContiguous, NoIndex, FadesTakeTime
<1>3. PausesAreSilent /\ OutIsCurrent /\ CurrentFrameTracksRequest
  BY DEF Init, PausesAreSilent, OutIsCurrent, CurrentFrameTracksRequest
<1>4. SilenceIsMarked /\ PurgeIsArmed /\ AudibleIsCurrent /\ HeardSinceStart
  BY DEF Init, SilenceIsMarked, PurgeIsArmed, AudibleIsCurrent, HeardSinceStart
<1> QED BY <1>1, <1>2, <1>3, <1>4 DEF IInv

LEMMA QueueFrameIInv ==
    ASSUME IInv, NEW shape \in Shapes, QueueFrame(shape)
    PROVE  IInv'
<1> USE DEF IInv
<1> DEFINE r == NewRequest(shape)
<1>1. TypeOK'
  BY QueueFrameTypeOK
<1>2. /\ r \in Request /\ r.id = submitted + 1 /\ r.index \in {NoIndex, r.id}
      /\ ~r.null => r.frame.src = r.id
      /\ r.fade >= 1
  BY NewRequestType
<1>3. /\ queue' = Append(queue, r) /\ new' = new /\ submitted' = submitted + 1
      /\ UNCHANGED <<purgeId, started, lastIndex>>
  BY DEF QueueFrame
<1> HIDE DEF r
<1>4. Numbering' /\ FadesTakeTime'
  <2>1. Len(queue') = Len(queue) + 1
    BY <1>2, <1>3 DEF TypeOK
  <2>2. \A i \in 1 .. Len(queue') : queue'[i] = IF i = Len(queue') THEN r ELSE queue[i]
    BY <1>2, <1>3 DEF TypeOK
  <2>3. QueueIsContiguous'
    BY <1>2, <1>3, <2>1, <2>2 DEF Numbering, QueueIsContiguous, TypeOK
  <2>4. \A i \in 1 .. Len(queue') :
           /\ queue'[i].index \in {NoIndex, queue'[i].id}
           /\ ~queue'[i].null => queue'[i].frame.src = queue'[i].id
           /\ queue'[i].fade >= 1
    <3> TAKE i \in 1 .. Len(queue')
    <3>1. CASE i = Len(queue')
      BY <1>2, <2>2, <3>1
    <3>2. CASE i # Len(queue')
      <4>1. i \in 1 .. Len(queue)
        BY <2>1, <3>2 DEF TypeOK
      <4> QED BY <2>2, <3>2, <4>1 DEF Numbering, FadesTakeTime
    <3> QED BY <3>1, <3>2
  <2> QED BY <1>3, <2>3, <2>4 DEF Numbering, TypeOK, FadesTakeTime
<1>5. PausesAreSilent' /\ OutIsCurrent' /\ CurrentFrameTracksRequest'
  BY DEF QueueFrame, PausesAreSilent, OutIsCurrent, CurrentFrameTracksRequest, IsSilent
<1>6. SilenceIsMarked' /\ PurgeIsArmed' /\ AudibleIsCurrent' /\ HeardSinceStart'
  BY DEF QueueFrame, SilenceIsMarked, PurgeIsArmed, AudibleIsCurrent, HeardSinceStart
<1> QED BY <1>1, <1>4, <1>5, <1>6

LEMMA QueueFramePurgingIInv ==
    ASSUME IInv, NEW shape \in Shapes, QueueFramePurging(shape)
    PROVE  IInv'
<1> USE DEF IInv
<1> DEFINE r == NewRequest(shape)
<1>1. TypeOK'
  BY QueueFrameTypeOK
<1>2. /\ r \in Request /\ r.id = submitted + 1 /\ r.index \in {NoIndex, r.id}
      /\ ~r.null => r.frame.src = r.id
      /\ r.fade >= 1
  BY NewRequestType
<1>3. /\ queue' = <<r>> /\ submitted' = submitted + 1 /\ purgeId' = submitted + 1
      /\ UNCHANGED <<started, lastIndex>>
  BY DEF QueueFramePurging
<1>4. old' = [old EXCEPT !.null = TRUE] /\ new' = NoRequest /\ curNull' /\ counter' = old.min
  BY DEF QueueFramePurging
<1>5. old'.null /\ old'.min = old.min
  BY <1>4 DEF TypeOK, Request
<1> HIDE DEF r
<1>6. Numbering' /\ FadesTakeTime'
  <2>1. Numbering'
    BY <1>2, <1>3 DEF Numbering, QueueIsContiguous, TypeOK
  <2>2. FadesTakeTime'
    BY <1>2, <1>3, <1>4 DEF FadesTakeTime
  <2> QED BY <2>1, <2>2
<1>7. started' < purgeId'
  BY <1>3 DEF Numbering, TypeOK
<1>8. SilenceIsMarked' /\ PurgeIsArmed' /\ AudibleIsCurrent' /\ PausesAreSilent'
  BY <1>4, <1>5 DEF SilenceIsMarked, PurgeIsArmed, AudibleIsCurrent, PausesAreSilent
<1>9. OutIsCurrent'
  BY <1>4 DEF QueueFramePurging, OutIsCurrent
<1>10. HeardSinceStart'
  BY <1>1, <1>7 DEF HeardSinceStart, TypeOK
<1>11. CurrentFrameTracksRequest'
  BY <1>4 DEF CurrentFrameTracksRequest
<1> QED BY <1>1, <1>6, <1>8, <1>9, <1>10, <1>11

\* A pull that starts nothing neither ends a silence nor jumps, and is not the
\* pull after a purge.
LEMMA ContinueFacts ==
    ASSUME IInv, NEW c, c = (counter + 1) % CounterMod,
           FinishFade(c) \/ Crossfade(c) \/ RunDry(c) \/ Hold(c)
    PROVE  /\ UNCHANGED <<started, lastIndex>> /\ (~curNull' => ~curNull)
           /\ (~curNull /\ ~curNull') => cur'.from \in {cur.from, cur.to}
           /\ ~(started < purgeId)
<1> USE DEF IInv
<1>1. UNCHANGED <<started, lastIndex>> /\ (~curNull' => ~curNull)
  BY DEF FinishFade, Crossfade, RunDry, Hold, SilenceIsMarked
<1>2. ASSUME ~curNull, ~curNull' PROVE cur'.from \in {cur.from, cur.to}
  <2>1. CASE FinishFade(c)
    <3>1. new.fade \in Nat /\ new.fade >= 1 /\ c > new.fade
      BY <2>1 DEF FinishFade, FadesTakeTime, TypeOK, Request, Durations
    <3>2. counter # 0
      BY <3>1, CounterTick, ConstantsAssumption DEF TypeOK
    <3>3. cur.to = new.frame
      BY <1>2, <2>1, <3>2 DEF FinishFade, CurrentFrameTracksRequest
    <3> QED BY <2>1, <3>3 DEF FinishFade, Settled
  <2>2. CASE Crossfade(c)
    BY <1>2, <2>2 DEF Crossfade, CurrentFrameTracksRequest, Settled
  <2>3. CASE RunDry(c)
    BY <1>2, <2>3 DEF RunDry
  <2>4. CASE Hold(c)
    BY <2>4 DEF Hold
  <2> QED BY <2>1, <2>2, <2>3, <2>4
<1>3. ~(started < purgeId)
  <2> SUFFICES ASSUME started < purgeId PROVE FALSE
    OBVIOUS
  <2>1. /\ new = NoRequest /\ counter = old.min /\ queue # <<>>
        /\ counter + 1 < CounterMod /\ old.min \in Nat
    BY ConstantsAssumption
       DEF PurgeIsArmed, Numbering, QueueIsContiguous, TypeOK, Request, Durations
  <2>2. c = old.min + 1
    BY <2>1, CounterTick DEF TypeOK
  <2> QED BY <2>1, <2>2 DEF FinishFade, Crossfade, RunDry, Hold
<1> QED BY <1>1, <1>2, <1>3

\* The pulls that start no request.
LEMMA ContinueIInv ==
    ASSUME IInv, UpdateCurrentFrame,
           NEW c, c = (counter + 1) % CounterMod,
           FinishFade(c) \/ Crossfade(c) \/ RunDry(c) \/ Hold(c)
    PROVE  IInv'
<1> USE DEF IInv
<1>1. TypeOK'
  BY UpdateTypeOK
<1>2. /\ UNCHANGED <<queue, lastIndex, started, submitted, purgeId, out>>
      /\ pc' = "return" /\ outEx' = (~curNull' /\ curHasEx') /\ counter' = c
      /\ heard' = IF heard < CounterMod THEN heard + 1 ELSE heard
  BY DEF UpdateCurrentFrame, FinishFade, Crossfade, RunDry, Hold
<1>3. Numbering' /\ FadesTakeTime'
  <2>1. new' \in {new, NoRequest}
    BY DEF FinishFade, Crossfade, RunDry, Hold
  <2> QED BY <1>2, <2>1 DEF Numbering, QueueIsContiguous, FadesTakeTime
<1>4. OutIsCurrent'
  BY <1>1, <1>2 DEF OutIsCurrent, TypeOK
<1>5. c \in Nat /\ c <= counter + 1 /\ c <= CounterMod - 1
  BY CounterTick, ConstantsAssumption DEF TypeOK
<1>6. started >= purgeId => heard' >= counter'
  BY <1>2, <1>5, ConstantsAssumption DEF HeardSinceStart, TypeOK
<1>7. started >= purgeId /\ PurgeIsArmed'
  <2>1. ~(started < purgeId)
    BY ContinueFacts
  <2> QED BY <1>2, <2>1 DEF PurgeIsArmed, TypeOK
<1>8. CASE FinishFade(c)
  <2>1. /\ new \in Request /\ new # NoRequest /\ old' = new /\ new' = NoRequest /\ cur' = Settled(new.frame)
        /\ curHasEx' = new.hasEx /\ ~curNull /\ ~curNull' /\ c > new.fade
    BY <1>8 DEF FinishFade, SilenceIsMarked, TypeOK
  <2>2. CurrentFrameTracksRequest' /\ SilenceIsMarked'
    BY <2>1 DEF CurrentFrameTracksRequest, SilenceIsMarked
  <2>3. AudibleIsCurrent' /\ PausesAreSilent'
    BY <1>2, <2>1 DEF AudibleIsCurrent, PausesAreSilent, IsSilent
  <2>4. heard' > new.fade
    BY <1>2, <1>5, <1>6, <1>7, <2>1 DEF TypeOK, Request, Durations
  <2>5. HeardSinceStart'
    BY <1>2, <1>6, <1>7, <2>1, <2>4 DEF HeardSinceStart
  <2> QED BY <1>1, <1>3, <1>4, <1>7, <2>2, <2>3, <2>5
<1>9. CASE Crossfade(c)
  <2>1. /\ UNCHANGED <<old, new, curNull>> /\ new # NoRequest
        /\ cur' = [from |-> old.frame, to |-> new.frame]
        /\ curHasEx' = (old.hasEx \/ new.hasEx)
    BY <1>9 DEF Crossfade
  <2>2. CurrentFrameTracksRequest' /\ SilenceIsMarked'
    BY <2>1 DEF CurrentFrameTracksRequest, SilenceIsMarked
  <2>3. AudibleIsCurrent' /\ PausesAreSilent'
    BY <1>2, <2>1 DEF AudibleIsCurrent, PausesAreSilent, IsSilent
  <2>4. HeardSinceStart'
    BY <1>2, <1>6, <1>7, <2>1 DEF HeardSinceStart
  <2> QED BY <1>1, <1>3, <1>4, <1>7, <2>2, <2>3, <2>4
<1>10. CASE RunDry(c)
  <2>1. /\ old' = [old EXCEPT !.null = TRUE] /\ new' = NoRequest /\ new = NoRequest /\ curNull'
    BY <1>10 DEF RunDry
  <2>2. old'.null /\ old'.id = old.id /\ old'.fade = old.fade
    BY <2>1 DEF TypeOK, Request
  <2>3. CurrentFrameTracksRequest' /\ SilenceIsMarked'
    BY <2>1, <2>2 DEF CurrentFrameTracksRequest, SilenceIsMarked
  <2>4. AudibleIsCurrent' /\ PausesAreSilent'
    BY <2>1, <2>2 DEF AudibleIsCurrent, PausesAreSilent
  <2>5. HeardSinceStart'
    BY <1>2, <1>6, <1>7, <2>1, <2>2 DEF HeardSinceStart, TypeOK, Request, Durations
  <2> QED BY <1>1, <1>3, <1>4, <1>7, <2>3, <2>4, <2>5
<1>11. CASE Hold(c)
  <2>1. UNCHANGED <<old, new, cur, curNull, curHasEx>> /\ new = NoRequest
    BY <1>11 DEF Hold
  <2>2. CurrentFrameTracksRequest' /\ SilenceIsMarked'
    BY <2>1 DEF CurrentFrameTracksRequest, SilenceIsMarked
  <2>3. AudibleIsCurrent' /\ PausesAreSilent'
    BY <1>2, <2>1 DEF AudibleIsCurrent, PausesAreSilent, IsSilent
  <2>4. HeardSinceStart'
    BY <1>2, <1>6, <1>7, <2>1 DEF HeardSinceStart, TypeOK, Request, Durations
  <2> QED BY <1>1, <1>3, <1>4, <1>7, <2>2, <2>3, <2>4
<1> QED BY <1>8, <1>9, <1>10, <1>11

\* What starting a request does, in the terms of the invariant.
LEMMA StartFacts ==
    ASSUME IInv, UpdateCurrentFrame, NEW c, c = (counter + 1) % CounterMod, StartRequest(c)
    PROVE  LET request == Head(queue)
               origin  == FadeOrigin(request)
               wasFromSilence == curNull \/ old.null
           IN  /\ request \in Request /\ request = queue[1] /\ Len(queue) \in Nat \ {0}
               /\ request.id = IF started < purgeId THEN purgeId ELSE started + 1
               /\ new = NoRequest /\ c > old.min
               /\ new' = FadeTarget(request) /\ old' = origin /\ started' = request.id
               /\ lastIndex' = IF request.index # NoIndex THEN request.index ELSE lastIndex
               /\ cur' = IF wasFromSilence THEN Settled(origin.frame) ELSE cur
               /\ curHasEx' = IF wasFromSilence THEN origin.hasEx ELSE curHasEx
               /\ ~curNull' /\ counter' = 0 /\ heard' = 0 /\ pc' = "return"
               /\ outEx' = (~curNull' /\ curHasEx')
               /\ queue' = Tail(queue)
               /\ UNCHANGED <<submitted, purgeId, out, purgeFlag>>
<1> USE DEF IInv
<1> DEFINE request == Head(queue)
<1>1. queue # <<>> /\ queue \in Seq(Request)
  BY DEF StartRequest, TypeOK
<1>2. request \in Request /\ request = queue[1] /\ Len(queue) \in Nat \ {0}
  BY <1>1, HeadType
<1>3. request.id = IF started < purgeId THEN purgeId ELSE started + 1
  BY <1>2 DEF Numbering, QueueIsContiguous, TypeOK
<1>4. started' = request.id /\ request.id # started
  BY <1>3 DEF StartRequest, TypeOK
<1>5. heard' = 0
  BY <1>4 DEF UpdateCurrentFrame
<1> QED BY <1>2, <1>3, <1>4, <1>5 DEF StartRequest, UpdateCurrentFrame

LEMMA StartIInv ==
    ASSUME IInv, UpdateCurrentFrame, NEW c, c = (counter + 1) % CounterMod, StartRequest(c)
    PROVE  IInv'
<1> USE DEF IInv
<1> DEFINE request == Head(queue)
           origin  == FadeOrigin(request)
           target  == FadeTarget(request)
<1>1. TypeOK'
  BY UpdateTypeOK
<1>2. /\ request \in Request /\ request = queue[1] /\ Len(queue) \in Nat \ {0}
      /\ request.id = IF started < purgeId THEN purgeId ELSE started + 1
      /\ new = NoRequest /\ new' = target /\ old' = origin /\ started' = request.id
      /\ ~curNull' /\ counter' = 0 /\ heard' = 0 /\ pc' = "return"
      /\ outEx' = (~curNull' /\ curHasEx') /\ queue' = Tail(queue)
      /\ UNCHANGED <<submitted, purgeId, out>>
  BY StartFacts
<1>3. /\ cur' = IF curNull \/ old.null THEN Settled(origin.frame) ELSE cur
      /\ curHasEx' = IF curNull \/ old.null THEN origin.hasEx ELSE curHasEx
      /\ lastIndex' = IF request.index # NoIndex THEN request.index ELSE lastIndex
  BY StartFacts
<1>4. /\ request.index \in {NoIndex, request.id}
      /\ ~request.null => request.frame.src = request.id
      /\ request.id <= submitted /\ request.id >= purgeId /\ request.id > started
      /\ request.id \in Nat /\ request.fade >= 1
  BY <1>2 DEF Numbering, QueueIsContiguous, TypeOK, FadesTakeTime
<1>5. /\ target.id = request.id /\ target.null = request.null /\ target \in Request
      /\ target.fade = request.fade
      /\ ~request.null => target = request
      /\ request.null => target.frame = SilenceAfter(old.frame)
  BY <1>2, FadeType DEF FadeTarget, TypeOK, Request
<1>6. /\ old.null /\ ~request.null =>
            /\ origin.frame = SilenceBefore(request.frame) /\ origin.null = FALSE
      /\ ~(old.null /\ ~request.null) => origin = old
      /\ old \in Request
  BY DEF FadeOrigin, TypeOK, Request
<1> HIDE DEF request, origin, target
<1>7. target # NoRequest
  BY <1>5, ConstantsAssumption
<1>8. started' >= purgeId' /\ ~(started' < purgeId')
  BY <1>1, <1>2, <1>4 DEF TypeOK
<1>9. Numbering' /\ FadesTakeTime'
  <2>1. /\ queue' \in Seq(Request) /\ Len(queue') = Len(queue) - 1
        /\ \A i \in 1 .. (Len(queue) - 1) : queue'[i] = queue[i + 1]
    BY <1>2, HeadType DEF TypeOK
  <2>2. QueueIsContiguous'
    <3>1. /\ Len(queue) = submitted + 1 - request.id
          /\ \A i \in 1 .. Len(queue) : queue[i].id = request.id + i - 1
      BY <1>2 DEF Numbering, QueueIsContiguous
    <3>2. \A i \in 1 .. (Len(queue) - 1) : queue'[i].id = request.id + (i + 1) - 1
      BY <1>2, <2>1, <3>1
    <3>3. (IF started' < purgeId' THEN purgeId' ELSE started' + 1) = request.id + 1
      BY <1>2, <1>8
    <3>4. Len(queue') = submitted' + 1 - (request.id + 1)
      BY <1>2, <1>4, <2>1, <3>1 DEF TypeOK
    <3>5. \A i \in 1 .. Len(queue') : queue'[i].id = (request.id + 1) + i - 1
      BY <1>4, <2>1, <3>2
    <3> QED BY <3>3, <3>4, <3>5 DEF QueueIsContiguous
  <2>3. \A i \in 1 .. Len(queue') : i + 1 \in 1 .. Len(queue) /\ queue'[i] = queue[i + 1]
    BY <1>2, <2>1
  <2>4. \A i \in 1 .. Len(queue') :
           /\ queue'[i].index \in {NoIndex, queue'[i].id}
           /\ ~queue'[i].null => queue'[i].frame.src = queue'[i].id
           /\ queue'[i].fade >= 1
    BY <2>3 DEF Numbering, FadesTakeTime
  <2>5. lastIndex' <= started'
    BY <1>2, <1>3, <1>4 DEF Numbering, TypeOK, NoIndex
  <2>6. purgeId' <= submitted' /\ started' <= submitted'
    BY <1>2, <1>4 DEF Numbering
  <2> QED BY <1>2, <1>4, <1>5, <2>2, <2>4, <2>5, <2>6 DEF Numbering, FadesTakeTime
<1>10. CurrentFrameTracksRequest'
  <2>1. CASE curNull \/ old.null
    BY <1>2, <1>3, <2>1 DEF CurrentFrameTracksRequest
  <2>2. CASE ~curNull /\ ~old.null
    BY <1>2, <1>3, <1>6, <2>2 DEF CurrentFrameTracksRequest
  <2> QED BY <2>1, <2>2
<1>11. SilenceIsMarked' /\ PurgeIsArmed'
  BY <1>2, <1>8 DEF SilenceIsMarked, PurgeIsArmed
<1>12. AudibleIsCurrent'
  <2>1. CASE request.null
    BY <1>2, <1>5, <1>6, <2>1 DEF AudibleIsCurrent
  <2>2. CASE ~request.null /\ old.null
    <3>1. origin.frame.src = request.id
      BY <1>2, <1>4, <1>6, <2>2 DEF SilenceBefore, Request, Frame
    <3> QED BY <1>2, <1>4, <1>5, <1>6, <2>2, <3>1 DEF AudibleIsCurrent
  <2>3. CASE ~request.null /\ ~old.null
    BY <1>2, <1>4, <1>5, <1>6, <2>3 DEF AudibleIsCurrent
  <2> QED BY <2>1, <2>2, <2>3
<1>13. PausesAreSilent'
  <2>1. request.null => IsSilent(target.frame)
    BY <1>5, <1>6 DEF SilenceAfter, IsSilent, Request, Frame
  <2> QED BY <1>2, <1>5, <1>7, <2>1 DEF PausesAreSilent, IsSilent
<1>14. OutIsCurrent'
  BY <1>1, <1>2 DEF OutIsCurrent, TypeOK
<1>15. HeardSinceStart'
  BY <1>2, <1>5, <1>7 DEF HeardSinceStart
<1> QED BY <1>1, <1>9, <1>10, <1>11, <1>12, <1>13, <1>14, <1>15

LEMMA NextIInv == IInv /\ [Next]_vars => IInv'
<1> SUFFICES ASSUME IInv, [Next]_vars PROVE IInv'
  OBVIOUS
<1>1. ASSUME NEW shape \in Shapes, QueueFrame(shape) PROVE IInv'
  BY <1>1, QueueFrameIInv
<1>2. ASSUME NEW shape \in Shapes, QueueFramePurging(shape) PROVE IInv'
  BY <1>2, QueueFramePurgingIInv
<1>3. CASE UpdateCurrentFrame
  <2> DEFINE c == (counter + 1) % CounterMod
  <2>1. \/ FinishFade(c) \/ Crossfade(c) \/ RunDry(c) \/ Hold(c)
        \/ StartRequest(c)
    BY <1>3 DEF UpdateCurrentFrame
  <2>2. CASE StartRequest(c)
    BY <1>3, <2>2, StartIInv
  <2>3. CASE FinishFade(c) \/ Crossfade(c) \/ RunDry(c) \/ Hold(c)
    BY <1>3, <2>3, ContinueIInv
  <2> QED BY <2>1, <2>2, <2>3
<1>4. CASE ReturnFrame \/ CheckAndClearPurgeFlag \/ UNCHANGED vars
  <2>1. TypeOK'
    BY NextTypeOK DEF IInv
  <2>2. UNCHANGED <<frameVars, history>>
    BY <1>4 DEF ReturnFrame, CheckAndClearPurgeFlag, vars
  <2>3. Numbering' /\ CurrentFrameTracksRequest' /\ SilenceIsMarked' /\ PurgeIsArmed'
    BY <2>2 DEF IInv, Numbering, QueueIsContiguous, CurrentFrameTracksRequest,
                SilenceIsMarked, PurgeIsArmed, frameVars, history
  <2>4. AudibleIsCurrent' /\ PausesAreSilent' /\ HeardSinceStart' /\ FadesTakeTime'
    BY <2>2 DEF IInv, AudibleIsCurrent, PausesAreSilent, IsSilent, HeardSinceStart,
                FadesTakeTime, frameVars, history
  <2>5. OutIsCurrent'
    BY <1>4, <2>2 DEF IInv, OutIsCurrent, ReturnFrame, CheckAndClearPurgeFlag, vars, frameVars
  <2> QED BY <2>1, <2>3, <2>4, <2>5 DEF IInv
<1> QED BY <1>1, <1>2, <1>3, <1>4 DEF Next

\* The invariant the safety theorems below rest on holds in every reachable state.
THEOREM InvariantHolds == Spec => []IInv
  BY InitIInv, NextIInv, PTL DEF Spec

-----------------------------------------------------------------------------
(* What it gives the callers.                                              *)

\* No request is lost, repeated or overtaken in the queue (frame.cpp 383-387, 607-624).
THEOREM QueueSafety == Spec => []QueueIsContiguous
<1>1. IInv => QueueIsContiguous
  BY DEF IInv, Numbering
<1> QED BY <1>1, InvariantHolds, PTL

\* The frame handed out always matches the requests it is made from.
THEOREM FrameSafety == Spec => []CurrentFrameTracksRequest
<1>1. IInv => CurrentFrameTracksRequest
  BY DEF IInv
<1> QED BY <1>1, InvariantHolds, PTL

\* No audible request fades in from the formants of a purged one (frame.cpp 610-616).
THEOREM PurgeSafety == Spec => []NoCrossfadeAcrossPurge
<1>1. IInv => NoCrossfadeAcrossPurge
  BY DEF IInv, AudibleIsCurrent, NoCrossfadeAcrossPurge
<1> QED BY <1>1, InvariantHolds, PTL

\* A settled pause has no voice and at most the aspiration's residual gain (frame.cpp 388-411).
THEOREM PauseSafety == Spec => []SettledPauseIsVoiceless
<1>1. IInv => SettledPauseIsVoiceless
  <2> SUFFICES ASSUME IInv, ~curNull, new = NoRequest, old.null
               PROVE  ~cur.to.voice /\ cur.to.gain # "full"
    BY DEF SettledPauseIsVoiceless
  <2>1. cur.to = old.frame
    BY DEF IInv, CurrentFrameTracksRequest, Settled
  <2> QED BY <2>1 DEF IInv, PausesAreSilent, IsSilent
<1> QED BY <1>1, InvariantHolds, PTL

\* The pointer returned after the unlock stays good until the next pull (frame.cpp 640-649).
THEOREM PointerSafety == Spec => []ReturnedFrameIsStable
<1>1. IInv => ReturnedFrameIsStable
  BY DEF IInv, OutIsCurrent, ReturnedFrameIsStable
<1> QED BY <1>1, InvariantHolds, PTL

\* Both together: what the generator holds is the frame of the request that plays.
THEOREM FrameIsKept == Spec => []CurrentFrameIsKept
<1>1. CurrentFrameTracksRequest /\ ReturnedFrameIsStable => CurrentFrameIsKept
  BY DEF CurrentFrameIsKept
<1> QED BY <1>1, FrameSafety, PointerSafety, PTL

-----------------------------------------------------------------------------
(* Action properties.  Only UpdateCurrentFrame takes requests off the queue *)
(* or ends a silence.                                                      *)

LEMMA UpdateCases ==
    ASSUME UpdateCurrentFrame
    PROVE  \E c : /\ c = (counter + 1) % CounterMod
                  /\ \/ FinishFade(c) \/ Crossfade(c) \/ RunDry(c) \/ Hold(c)
                     \/ StartRequest(c)
  BY DEF UpdateCurrentFrame

\* Every other step leaves the current frame, the index and the queue's head alone.
LEMMA OtherSteps ==
    ASSUME IInv, [Next]_vars, ~UpdateCurrentFrame
    PROVE  /\ UNCHANGED <<started, lastIndex>> /\ (~curNull' => ~curNull)
           /\ ~curNull' => UNCHANGED cur
           /\ ~(pc = "idle" /\ pc' = "return")
  BY DEF Next, vars, frameVars, history, QueueFrame, QueueFramePurging, ReturnFrame,
         CheckAndClearPurgeFlag

\* Starting a request: the purging one first, at zero gain after silence, with
\* its own index, and only once the last one has played out.
LEMMA StartEffects ==
    ASSUME IInv, UpdateCurrentFrame, NEW c, c = (counter + 1) % CounterMod, StartRequest(c)
    PROVE  /\ started < purgeId => started' = purgeId
           /\ (curNull /\ ~new'.null) =>
                 /\ cur'.from.src = started' /\ cur'.from.gain = "zero" /\ cur'.to = cur'.from
           /\ (~curNull /\ cur'.from \notin {cur.from, cur.to}) => cur'.from.gain = "zero"
           /\ lastIndex' # lastIndex =>
                 lastIndex' = started' /\ lastIndex' > lastIndex /\ lastIndex' >= purgeId
           /\ (started > 0 /\ started >= purgeId) =>
                 heard >= old.min /\ heard > old.fade /\ old.id = started
<1> USE DEF IInv
<1> DEFINE request == Head(queue)
           origin  == FadeOrigin(request)
<1>1. /\ request \in Request /\ request = queue[1] /\ Len(queue) \in Nat \ {0}
      /\ request.id = IF started < purgeId THEN purgeId ELSE started + 1
      /\ new = NoRequest /\ new' = FadeTarget(request) /\ started' = request.id
      /\ c > old.min
      /\ cur' = IF curNull \/ old.null THEN Settled(origin.frame) ELSE cur
      /\ lastIndex' = IF request.index # NoIndex THEN request.index ELSE lastIndex
  BY StartFacts
<1>2. new'.null = request.null
  BY <1>1 DEF FadeTarget, Request
<1>3. /\ request.index \in {NoIndex, request.id}
      /\ ~request.null => request.frame.src = request.id
      /\ request.id >= purgeId /\ request.id > started
  BY <1>1 DEF Numbering, TypeOK
<1>4. old.null /\ ~request.null =>
         origin.frame.src = request.id /\ origin.frame.gain = "zero"
  BY <1>1, <1>3 DEF FadeOrigin, SilenceBefore, TypeOK, Request, Frame
<1>5. ~(old.null /\ ~request.null) => origin = old
  BY DEF FadeOrigin
<1> HIDE DEF request, origin
<1>6. (curNull /\ ~new'.null) =>
         /\ cur'.from.src = started' /\ cur'.from.gain = "zero" /\ cur'.to = cur'.from
  BY <1>1, <1>2, <1>4 DEF SilenceIsMarked, Settled
<1>7. (~curNull /\ cur'.from \notin {cur.from, cur.to}) => cur'.from.gain = "zero"
  <2> SUFFICES ASSUME ~curNull, cur'.from \notin {cur.from, cur.to}
               PROVE  cur'.from.gain = "zero"
    OBVIOUS
  <2>1. cur = Settled(old.frame)
    BY <1>1 DEF CurrentFrameTracksRequest
  <2>2. cur' # cur
    BY <2>1
  <2>3. old.null /\ cur' = Settled(origin.frame)
    BY <1>1, <2>2
  <2>4. origin # old
    BY <2>1, <2>2, <2>3
  <2> QED BY <1>4, <1>5, <2>3, <2>4 DEF Settled
<1>8. lastIndex' # lastIndex =>
         lastIndex' = started' /\ lastIndex' > lastIndex /\ lastIndex' >= purgeId
  BY <1>1, <1>3 DEF Numbering, TypeOK, NoIndex
<1>9. (started > 0 /\ started >= purgeId) =>
         heard >= old.min /\ heard > old.fade /\ old.id = started
  <2> SUFFICES ASSUME started > 0, started >= purgeId
               PROVE  heard >= old.min /\ heard > old.fade /\ old.id = started
    OBVIOUS
  <2>1. heard >= counter /\ heard > old.fade /\ old.id = started
    BY <1>1 DEF HeardSinceStart
  <2>2. counter \in Nat /\ old.min \in Nat /\ c <= counter + 1 /\ c \in Nat /\ heard \in Nat
    BY CounterTick, ConstantsAssumption DEF TypeOK, Request, Durations
  <2> QED BY <1>1, <2>1, <2>2
<1> QED BY <1>1, <1>6, <1>7, <1>8, <1>9

\* The first pull after a purge starts the purging request (frame.cpp 609, 618-621).
THEOREM PurgeIsImmediate == Spec => PurgeStartsAtOnce
<1>1. IInv /\ [Next]_vars =>
         [(started < purgeId /\ pc = "idle" /\ pc' = "return") => started' = purgeId]_vars
  <2> SUFFICES ASSUME IInv, [Next]_vars, started < purgeId, pc = "idle", pc' = "return"
               PROVE  started' = purgeId
    OBVIOUS
  <2>1. UpdateCurrentFrame
    BY OtherSteps
  <2> QED BY <2>1, UpdateCases, ContinueFacts, StartEffects
<1> QED BY <1>1, InvariantHolds, PTL DEF Spec, PurgeStartsAtOnce

\* Silence gives way to an audible request at zero gain, on its own formants
\* (frame.cpp 412-439).
THEOREM SilenceEndsSoftly == Spec => SilenceEndsAtZeroGain
<1>1. IInv /\ [Next]_vars =>
         [(curNull /\ ~curNull' /\ ~new'.null) =>
            cur'.from.src = started' /\ cur'.from.gain = "zero" /\ cur'.to = cur'.from]_vars
  <2> SUFFICES ASSUME IInv, [Next]_vars, curNull, ~curNull', ~new'.null
               PROVE  cur'.from.src = started' /\ cur'.from.gain = "zero" /\ cur'.to = cur'.from
    OBVIOUS
  <2>1. UpdateCurrentFrame
    BY OtherSteps
  <2> QED BY <2>1, UpdateCases, ContinueFacts, StartEffects
<1> QED BY <1>1, InvariantHolds, PTL DEF Spec, SilenceEndsAtZeroGain

\* No audible sample jumps to a frame that is not at zero gain (frame.cpp 384, 435-439).
THEOREM NoJumpToSound == Spec => JumpsOnlyToZeroGain
<1>1. IInv /\ [Next]_vars =>
         [(~curNull /\ ~curNull' /\ cur'.from \notin {cur.from, cur.to}) =>
            cur'.from.gain = "zero"]_vars
  <2> SUFFICES ASSUME IInv, [Next]_vars, ~curNull, ~curNull', cur'.from \notin {cur.from, cur.to}
               PROVE  cur'.from.gain = "zero"
    OBVIOUS
  <2>1. UpdateCurrentFrame
    BY OtherSteps
  <2> QED BY <2>1, UpdateCases, ContinueFacts, StartEffects
<1> QED BY <1>1, InvariantHolds, PTL DEF Spec, JumpsOnlyToZeroGain

\* A purge takes over at the next pull and leaves no trace of what it cut.
THEOREM PurgeIsTakenOver == Spec => PurgeTakesOver
  BY PurgeSafety, PurgeIsImmediate, PTL DEF PurgeTakesOver

\* Nothing clicks, neither at the end of a silence nor at a jump.
THEOREM NothingClicks == Spec => NoClicks
  BY SilenceEndsSoftly, NoJumpToSound, PTL DEF NoClicks

\* Reported indices grow and are never those of purged requests (frame.cpp 431, 607-624).
THEOREM IndexSafety == Spec => NoDroppedIndexReported
<1>1. IInv /\ [Next]_vars =>
         [lastIndex' # lastIndex =>
            lastIndex' = started' /\ lastIndex' > lastIndex /\ lastIndex' >= purgeId]_vars
  <2> SUFFICES ASSUME IInv, [Next]_vars, lastIndex' # lastIndex
               PROVE  lastIndex' = started' /\ lastIndex' > lastIndex /\ lastIndex' >= purgeId
    OBVIOUS
  <2>1. UpdateCurrentFrame
    BY OtherSteps
  <2> QED BY <2>1, UpdateCases, ContinueFacts, StartEffects
<1> QED BY <1>1, InvariantHolds, PTL DEF Spec, NoDroppedIndexReported

\* A request is heard for its fade and its minimum unless purged (frame.cpp 161, 382, 432).
THEOREM RequestsPlayOut == Spec => EachRequestPlaysOut
<1>1. IInv /\ [Next]_vars =>
         [(started' # started /\ started > 0 /\ started >= purgeId) =>
            heard >= old.min /\ heard > old.fade /\ old.id = started]_vars
  <2> SUFFICES ASSUME IInv, [Next]_vars, started' # started, started > 0, started >= purgeId
               PROVE  heard >= old.min /\ heard > old.fade /\ old.id = started
    OBVIOUS
  <2>1. UpdateCurrentFrame
    BY OtherSteps
  <2> QED BY <2>1, UpdateCases, ContinueFacts, StartEffects
<1> QED BY <1>1, InvariantHolds, PTL DEF Spec, EachRequestPlaysOut

-----------------------------------------------------------------------------
(* Refinement.                                                             *)

\* The queue as its callers see it.
Pending == [i \in 1 .. Len(queue) |-> [id |-> queue[i].id, index |-> queue[i].index]]
Playing == IF started < purgeId THEN 0 ELSE started

\* Every step of the frame manager is a step of the request queue, or none.
LEMMA StepRefines == IInv /\ IInv' /\ [Next]_vars => [Promise!AbstractNext]_(Promise!abstractVars)
<1> SUFFICES ASSUME IInv, IInv', [Next]_vars
             PROVE  Promise!AbstractNext \/ UNCHANGED <<submitted, Pending, Playing, lastIndex>>
  BY DEF Promise!abstractVars, Pending, Playing
<1> USE DEF IInv
<1>1. ASSUME NEW shape \in Shapes, QueueFrame(shape) PROVE Promise!Submit
  <2> DEFINE r == NewRequest(shape)
             a == [id |-> r.id, index |-> r.index]
  <2>1. r \in Request /\ r.id = submitted + 1 /\ r.index \in {NoIndex, submitted + 1}
    BY NewRequestType
  <2>2. queue' = Append(queue, r) /\ UNCHANGED <<started, purgeId, lastIndex>>
        /\ submitted' = submitted + 1
    BY <1>1 DEF QueueFrame
  <2> HIDE DEF r
  <2>3. Len(queue') = Len(queue) + 1 /\ Len(queue) \in Nat
    BY <2>1, <2>2 DEF TypeOK
  <2>4. \A i \in 1 .. Len(queue') : queue'[i] = IF i = Len(queue') THEN r ELSE queue[i]
    BY <2>1, <2>2 DEF TypeOK
  <2>5. Pending' = Append(Pending, a)
    BY <2>3, <2>4 DEF Pending
  <2> QED BY <2>1, <2>2, <2>5 DEF Promise!Submit, Pending
<1>2. ASSUME NEW shape \in Shapes, QueueFramePurging(shape) PROVE Promise!PurgeAndSubmit
  <2> DEFINE r == NewRequest(shape)
  <2>1. r \in Request /\ r.id = submitted + 1 /\ r.index \in {NoIndex, submitted + 1}
    BY NewRequestType
  <2>2. queue' = <<r>> /\ UNCHANGED <<started, lastIndex>>
        /\ submitted' = submitted + 1 /\ purgeId' = submitted + 1
    BY <1>2 DEF QueueFramePurging
  <2> HIDE DEF r
  <2>3. Pending' = <<[id |-> r.id, index |-> r.index]>>
    BY <2>2 DEF Pending
  <2>4. Playing' = 0
    BY <2>2 DEF Playing, Numbering, TypeOK
  <2> QED BY <2>1, <2>2, <2>3, <2>4 DEF Promise!PurgeAndSubmit, Pending, Playing
<1>3. ASSUME UpdateCurrentFrame, NEW c, c = (counter + 1) % CounterMod, StartRequest(c)
      PROVE  Promise!Start
  <2> DEFINE request == Head(queue)
  <2>1. /\ request \in Request /\ request = queue[1] /\ Len(queue) \in Nat \ {0}
        /\ request.id = IF started < purgeId THEN purgeId ELSE started + 1
        /\ started' = request.id
        /\ lastIndex' = IF request.index # NoIndex THEN request.index ELSE lastIndex
        /\ queue' = Tail(queue) /\ UNCHANGED <<submitted, purgeId>>
    BY <1>3, StartFacts
  <2>2. /\ Len(queue') = Len(queue) - 1
        /\ \A i \in 1 .. (Len(queue) - 1) : queue'[i] = queue[i + 1]
    BY <2>1, HeadType DEF TypeOK
  <2> HIDE DEF request
  <2>3. Pending # <<>> /\ Head(Pending) = [id |-> request.id, index |-> request.index]
    BY <2>1 DEF Pending
  <2>4. Pending' = Tail(Pending)
    BY <2>1, <2>2 DEF Pending
  <2>5. Playing' = request.id
    BY <2>1 DEF Playing, Numbering, TypeOK
  <2> QED BY <2>1, <2>3, <2>4, <2>5 DEF Promise!Start, Pending, Playing
<1>4. ASSUME UpdateCurrentFrame, NEW c, FinishFade(c) \/ Crossfade(c) \/ RunDry(c) \/ Hold(c)
      PROVE  UNCHANGED <<submitted, Pending, Playing, lastIndex>>
  BY <1>4 DEF UpdateCurrentFrame, FinishFade, Crossfade, RunDry, Hold, Pending, Playing
<1>5. CASE ReturnFrame \/ CheckAndClearPurgeFlag \/ UNCHANGED vars
  BY <1>5 DEF ReturnFrame, CheckAndClearPurgeFlag, vars, frameVars, history, Pending, Playing
<1> QED BY <1>1, <1>2, <1>3, <1>4, <1>5, UpdateCases DEF Next, Promise!AbstractNext

\* The frame manager implements the abstract request queue.
THEOREM Refinement == Spec => ImplementsRequestQueue
<1>1. Init => Promise!AbstractInit
  BY DEF Init, Promise!AbstractInit
<1>2. IInv /\ IInv' /\ [Next]_vars => [Promise!AbstractNext]_(Promise!abstractVars)
  BY StepRefines
<1> QED BY <1>1, <1>2, InvariantHolds, PTL
       DEF Spec, ImplementsRequestQueue, Promise!AbstractSpec

-----------------------------------------------------------------------------
(* The generator: the inductive invariant.                                 *)

\* The types of what the tags pass through.
GenTypes ==
    /\ gpc \in {"outside", "pull", "return", "render", "stretch", "stretchReturn", "next"}
    /\ wasSilence \in BOOLEAN
    /\ stopFade \in [left : 0 .. StopFade, total : {0, StopFade}]
    /\ delay \in [1 .. LookAhead -> Nat] /\ bright \in Nat
    /\ cutAt \in Nat /\ seenCut \in Nat /\ seenCut <= cutAt
    /\ sample \in [kind : {"none", "voice", "tail", "zero"}, tag : Nat, left : 0 .. StopFade]

\* The formants that sound are never of a later request than those that follow.
SourcesInOrder ==
    /\ old.frame.src <= started
    /\ new # NoRequest => old.frame.src <= new.frame.src /\ new.frame.src <= started

\* A purge silences the frame manager until the purging request starts.
PurgeSilences == started < purgeId => curNull

\* What the last purge lets be heard is sounding, or waits at the head of the queue.
CutIsHeard ==
    \/ cutAt <= old.frame.src
    \/ started < purgeId /\ cutAt = purgeId /\ ~queue[1].null

\* The frame in the generator's hands is the old request's, and may be heard.
FrameMayBeHeard ==
    gpc = "render" /\ out # NoFrame =>
        out.from = old.frame /\ seenCut <= old.frame.src

\* After the reset that ends the silence of a purge, only zeroes of the empty line and
\* what that purge lets be heard are in it.
TagsSincePurge ==
    ~wasSilence => /\ \A k \in 1 .. LookAhead : delay[k] = NoTag \/ delay[k] >= seenCut
                   /\ bright = NoTag \/ bright >= seenCut

\* A tail sample was written from the fade-out in force.
TailIsTheFade ==
    sample.kind = "tail" /\ ~wasSilence =>
        stopFade.total = StopFade /\ sample.left = stopFade.left + 1

\* What the generator relies on in the frame manager.
SoundsInOrder == SourcesInOrder /\ PurgeSilences

GInv == /\ GenTypes
        /\ SoundsInOrder
        /\ CutIsHeard
        /\ FrameMayBeHeard
        /\ LookaheadInOrder
        /\ TagsSincePurge
        /\ TailIsTheFade
-----------------------------------------------------------------------------
(* The frame manager under the generator.                                  *)

\* Every step of the generator is one of the frame manager, or leaves it alone.
LEMMA StepBelow == [GenNext]_allVars => [Next]_vars
<1>1. Queueing => Next
  BY DEF Queueing, Queue, QueuePurging, Next
<1>2. BeginBuffer \/ Pull \/ Pulled => Next
  BY DEF BeginBuffer, Pull, Pulled, Next
<1>3. RenderFrame \/ RenderTail \/ GiveUp \/ NextSample => UNCHANGED vars
  BY DEF RenderFrame, RenderTail, GiveUp, NextSample
<1> QED BY <1>1, <1>2, <1>3 DEF GenNext, Generate, allVars

THEOREM BelowHolds == GenSpec => []IInv
<1>1. GenInit => Init
  BY DEF GenInit
<1> QED BY <1>1, StepBelow, InitIInv, NextIInv, PTL DEF GenSpec

\* Starting a request: its formants, and those a fade to it leaves, follow what sounds.
LEMMA StartSources ==
    ASSUME IInv, SoundsInOrder, UpdateCurrentFrame,
           NEW c, c = (counter + 1) % CounterMod, StartRequest(c)
    PROVE  /\ old.frame.src <= old'.frame.src /\ old'.frame.src <= new'.frame.src
           /\ new'.frame.src <= started' /\ ~(started' < purgeId')
           /\ {new'.frame.src, started'} \subseteq Nat
           /\ (started < purgeId /\ ~queue[1].null) => old'.frame.src = purgeId
<1> USE DEF IInv
<1> DEFINE request == Head(queue)
<1>1. /\ request \in Request /\ request = queue[1] /\ Len(queue) \in Nat \ {0}
      /\ request.id = IF started < purgeId THEN purgeId ELSE started + 1
      /\ new' = FadeTarget(request) /\ old' = FadeOrigin(request) /\ started' = request.id
      /\ UNCHANGED purgeId
  BY StartFacts
<1>2. ~request.null => request.frame.src = request.id
  BY <1>1 DEF Numbering
<1>3. /\ old \in Request /\ old.frame.src \in Nat /\ started \in Nat /\ purgeId \in Nat
      /\ old.frame.src <= started
  BY DEF TypeOK, Request, Frame, SoundsInOrder, SourcesInOrder
<1> HIDE DEF request
<1>4. request.id \in Nat /\ started < request.id /\ ~(request.id < purgeId)
  BY <1>1, <1>3
<1>5. CASE request.null
  <2>1. old' = old
    BY <1>1, <1>5 DEF FadeOrigin
  <2>2. new'.frame = SilenceAfter(old.frame)
    BY <1>1, <1>5 DEF FadeTarget, Request
  <2>3. new'.frame.src = old.frame.src
    BY <1>3, <2>2 DEF SilenceAfter, Request, Frame
  <2> QED BY <1>1, <1>3, <1>4, <1>5, <2>1, <2>3
<1>6. CASE ~request.null
  <2>1. new' = request /\ new'.frame.src = request.id
    BY <1>1, <1>2, <1>6 DEF FadeTarget
  <2>2. CASE old.null
    <3>1. old'.frame = SilenceBefore(request.frame)
      BY <1>1, <1>3, <1>6, <2>2 DEF FadeOrigin, Request
    <3>2. old'.frame.src = request.id
      BY <1>1, <1>2, <1>6, <3>1 DEF SilenceBefore, Request, Frame
    <3> QED BY <1>1, <1>3, <1>4, <2>1, <3>2
  <2>3. CASE ~old.null
    <3>1. old' = old
      BY <1>1, <2>3 DEF FadeOrigin
    <3>2. ~(started < purgeId)
      BY <1>3, <2>3 DEF AudibleIsCurrent
    <3> QED BY <1>1, <1>3, <1>4, <2>1, <3>1, <3>2
  <2> QED BY <2>2, <2>3
<1> QED BY <1>5, <1>6

\* Whatever the frame manager does, the formants that sound are never an earlier
\* request's than before, and only a pull makes them a later one's.
LEMMA SoundAdvances ==
    ASSUME IInv, SoundsInOrder, [Next]_vars
    PROVE  /\ SoundsInOrder'
           /\ {old.frame.src, old'.frame.src, purgeId, submitted} \subseteq Nat
           /\ old.frame.src <= old'.frame.src
           /\ UpdateCurrentFrame \/ old'.frame = old.frame
<1> USE DEF IInv, SoundsInOrder
<1>1. /\ TypeOK' /\ {old.frame.src, old'.frame.src, purgeId, submitted, started} \subseteq Nat
      /\ new # NoRequest => new.frame.src \in Nat
      /\ [old EXCEPT !.null = TRUE].frame = old.frame
  BY NextTypeOK DEF TypeOK, Request, Frame
<1>2. CASE UpdateCurrentFrame
  <2>1. PICK c : /\ c = (counter + 1) % CounterMod
                 /\ \/ FinishFade(c) \/ Crossfade(c) \/ RunDry(c) \/ Hold(c)
                    \/ StartRequest(c)
    BY <1>2, UpdateCases
  <2>2. CASE StartRequest(c)
    <3>1. /\ old.frame.src <= old'.frame.src /\ old'.frame.src <= new'.frame.src
          /\ new'.frame.src <= started' /\ ~(started' < purgeId')
          /\ {new'.frame.src, started'} \subseteq Nat
      BY <1>2, <2>1, <2>2, StartSources
    <3> QED BY <1>1, <1>2, <3>1 DEF SourcesInOrder, PurgeSilences
  <2>3. CASE FinishFade(c) \/ Crossfade(c) \/ RunDry(c) \/ Hold(c)
    <3>1. UNCHANGED <<started, purgeId>> /\ ~(started < purgeId)
      BY <1>2, <2>1, <2>3, ContinueFacts DEF UpdateCurrentFrame
    <3>2. \/ old'.frame = old.frame /\ UNCHANGED new
          \/ old' = new /\ new # NoRequest /\ new' = NoRequest
      BY <1>1, <2>3 DEF FinishFade, Crossfade, RunDry, Hold
    <3> QED BY <1>1, <1>2, <3>1, <3>2 DEF SourcesInOrder, PurgeSilences
  <2> QED BY <2>1, <2>2, <2>3
<1>3. CASE ~UpdateCurrentFrame
  <2>1. UNCHANGED started
    BY <1>3, OtherSteps
  <2>2. /\ old' \in {old, [old EXCEPT !.null = TRUE]} /\ new' \in {new, NoRequest}
        /\ UNCHANGED <<curNull, purgeId>> \/ curNull'
    BY <1>3 DEF Next, vars, frameVars, history, QueueFrame, QueueFramePurging,
                ReturnFrame, CheckAndClearPurgeFlag
  <2>3. old'.frame = old.frame
    BY <1>1, <2>2
  <2>4. SourcesInOrder'
    BY <2>1, <2>2, <2>3 DEF SourcesInOrder
  <2>5. PurgeSilences'
    BY <2>1, <2>2 DEF PurgeSilences
  <2> QED BY <1>1, <2>3, <2>4, <2>5
<1> QED BY <1>2, <1>3

\* What the last purge lets be heard goes on waiting until it sounds.
LEMMA CutStaysHeard ==
    ASSUME IInv, SoundsInOrder, CutIsHeard, cutAt \in Nat, [Next]_vars,
           UNCHANGED <<cutAt, purgeId>>
    PROVE  CutIsHeard'
<1> USE DEF IInv
<1>1. {old.frame.src, old'.frame.src} \subseteq Nat /\ old.frame.src <= old'.frame.src
  BY SoundAdvances
<1>2. CASE cutAt <= old.frame.src
  BY <1>1, <1>2 DEF CutIsHeard
<1>3. CASE started < purgeId /\ cutAt = purgeId /\ ~queue[1].null
  <2>1. CASE UpdateCurrentFrame
    <3>1. PICK c : /\ c = (counter + 1) % CounterMod
                   /\ \/ FinishFade(c) \/ Crossfade(c) \/ RunDry(c) \/ Hold(c)
                      \/ StartRequest(c)
      BY <2>1, UpdateCases
    <3>2. StartRequest(c)
      BY <1>3, <3>1, ContinueFacts
    <3>3. old'.frame.src = purgeId
      BY <1>3, <2>1, <3>1, <3>2, StartSources
    <3> QED BY <1>1, <1>3, <3>3 DEF CutIsHeard
  <2>2. CASE ~UpdateCurrentFrame
    <3>1. UNCHANGED started
      BY <2>2, OtherSteps
    <3>2. queue \in Seq(Request) /\ Len(queue) >= 1
      BY <1>3 DEF TypeOK, Numbering, QueueIsContiguous
    <3>3. UNCHANGED queue \/ \E shape \in Shapes : queue' = Append(queue, NewRequest(shape))
      BY <2>2 DEF Next, vars, frameVars, history, QueueFrame, QueueFramePurging,
                  ReturnFrame, CheckAndClearPurgeFlag, TypeOK, Numbering
    <3>4. queue'[1] = queue[1]
      BY <3>2, <3>3
    <3> QED BY <1>3, <3>1, <3>4 DEF CutIsHeard
  <2> QED BY <2>1, <2>2
<1> QED BY <1>2, <1>3 DEF CutIsHeard

-----------------------------------------------------------------------------
(* The generator's own invariant.                                          *)

\* One sample through the lookahead line: the oldest out, the new one in at the end.
LEMMA LineShift ==
    ASSUME NEW line \in [1 .. LookAhead -> Nat], NEW tag \in Nat
    PROVE  /\ Append(Tail(line), tag) \in [1 .. LookAhead -> Nat]
           /\ \A k \in 1 .. LookAhead :
                 Append(Tail(line), tag)[k] = IF k = LookAhead THEN tag ELSE line[k + 1]
           /\ Head(line) = line[1] /\ 1 \in 1 .. LookAhead
<1>1. LookAhead \in Nat /\ LookAhead >= 1
  BY GeneratorAssumption
<1>2. line \in Seq(Nat) /\ Len(line) = LookAhead
  BY <1>1
<1>3. Head(line) = line[1]
  BY <1>1, <1>2
<1>4. /\ Tail(line) \in Seq(Nat) /\ Len(Tail(line)) = LookAhead - 1
      /\ \A k \in 1 .. (LookAhead - 1) : Tail(line)[k] = line[k + 1]
  BY <1>1, <1>2
<1> DEFINE rest == Tail(line)
<1> HIDE DEF rest
<1>5. /\ Append(rest, tag) \in Seq(Nat) /\ Len(Append(rest, tag)) = LookAhead
      /\ \A k \in 1 .. LookAhead :
            Append(rest, tag)[k] = IF k = LookAhead THEN tag ELSE rest[k]
  BY <1>1, <1>4 DEF rest
<1>6. Append(rest, tag) \in [1 .. LookAhead -> Nat]
  <2> DEFINE s == Append(rest, tag)
  <2>1. s \in Seq(Nat) /\ Len(s) = LookAhead
    BY <1>5
  <2> HIDE DEF s
  <2>2. s \in [1 .. LookAhead -> Nat]
    BY <1>1, <2>1
  <2> QED BY <2>2 DEF s
<1>7. \A k \in 1 .. LookAhead : k # LookAhead => rest[k] = line[k + 1]
  BY <1>1, <1>4 DEF rest
<1> QED BY <1>1, <1>3, <1>5, <1>6, <1>7 DEF rest

LEMMA InitGInv == GenInit => GInv
<1> SUFFICES ASSUME GenInit PROVE GInv
  OBVIOUS
<1> USE DEF GenInit
<1>1. LookAhead \in Nat /\ LookAhead >= 1 /\ StopFade \in Nat
  BY GeneratorAssumption
<1>2. delay \in [1 .. LookAhead -> Nat] /\ \A k \in 1 .. LookAhead : delay[k] = 0
  BY <1>1 DEF EmptyLine, NoTag
<1>3. /\ started = 0 /\ purgeId = 0 /\ cutAt = 0 /\ seenCut = 0 /\ bright = 0
      /\ new = NoRequest /\ old.frame.src = 0
  BY DEF Init, NoTag, BlankFrame
<1>4. GenTypes
  BY <1>1, <1>2, <1>3 DEF GenTypes, NoFade, NoTag
<1>5. SoundsInOrder /\ CutIsHeard /\ FrameMayBeHeard
  BY <1>3 DEF SoundsInOrder, SourcesInOrder, PurgeSilences, CutIsHeard, FrameMayBeHeard
<1> QED BY <1>2, <1>3, <1>4, <1>5 DEF GInv, LookaheadInOrder, TagsSincePurge, TailIsTheFade

\* A step that renders nothing and notices no purge: what sounds may only advance.
LEMMA QuietStep ==
    ASSUME GInv, IInv, [Next]_vars, CutIsHeard', FrameMayBeHeard',
           gpc' \in {"outside", "pull", "return", "render", "stretch", "stretchReturn", "next"},
           cutAt' \in Nat, seenCut' \in Nat, seenCut' <= seenCut, seenCut' <= cutAt',
           UNCHANGED <<wasSilence, stopFade, delay, bright, sample>>
    PROVE  GInv'
<1> USE DEF GInv
<1>1. /\ SoundsInOrder' /\ {old.frame.src, old'.frame.src} \subseteq Nat
      /\ old.frame.src <= old'.frame.src
  BY SoundAdvances
<1>2. GenTypes'
  BY DEF GenTypes
<1>3. /\ \A k \in 1 .. LookAhead : delay[k] \in Nat /\ delay[k] <= old.frame.src
      /\ bright \in Nat /\ seenCut \in Nat
  BY DEF GenTypes, LookaheadInOrder
<1>4. LookaheadInOrder'
  <2>1. \A k \in 1 .. LookAhead : delay[k] <= old'.frame.src
    BY <1>1, <1>3
  <2> QED BY <2>1 DEF LookaheadInOrder
<1>5. TagsSincePurge'
  BY <1>3 DEF TagsSincePurge
<1>6. TailIsTheFade'
  BY DEF TailIsTheFade
<1> QED BY <1>1, <1>2, <1>4, <1>5, <1>6

LEMMA BeginBufferGInv == ASSUME GInv, IInv, [Next]_vars, BeginBuffer PROVE GInv'
<1> USE DEF GInv
<1>1. /\ gpc' = "pull" /\ UNCHANGED <<stopFade, delay, bright, sample, cutAt, old, purgeId>>
      /\ \/ wasSilence' = TRUE /\ seenCut' = cutAt
         \/ UNCHANGED <<wasSilence, seenCut>>
  BY DEF BeginBuffer, CheckAndClearPurgeFlag, history, frameVars
<1>2. GenTypes'
  <2>1. wasSilence' \in BOOLEAN
    BY <1>1, Zenon DEF GenTypes
  <2>2. cutAt' \in Nat /\ seenCut' \in Nat /\ seenCut' <= cutAt'
    BY <1>1 DEF GenTypes
  <2> QED BY <1>1, <2>1, <2>2 DEF GenTypes
<1>3. SoundsInOrder' /\ CutIsHeard'
  BY <1>1, SoundAdvances, CutStaysHeard DEF GenTypes
<1>4. FrameMayBeHeard'
  BY <1>1 DEF FrameMayBeHeard
<1>5. LookaheadInOrder' /\ TagsSincePurge' /\ TailIsTheFade'
  BY <1>1 DEF LookaheadInOrder, TagsSincePurge, TailIsTheFade
<1> QED BY <1>2, <1>3, <1>4, <1>5

LEMMA RenderFrameGInv == ASSUME GInv, IInv, [Next]_vars, RenderFrame PROVE GInv'
<1> USE DEF GInv
<1> DEFINE line == IF wasSilence THEN EmptyLine ELSE delay
           tag  == out.from.src
<1>1. /\ LookAhead \in Nat /\ LookAhead >= 1 /\ StopFade \in Nat
      /\ tag = old.frame.src /\ tag \in Nat /\ seenCut \in Nat /\ seenCut <= tag
  BY GeneratorAssumption, SoundAdvances DEF RenderFrame, GenTypes, FrameMayBeHeard
<1>2. /\ line \in [1 .. LookAhead -> Nat]
      /\ \A j, k \in 1 .. LookAhead : j < k => line[j] <= line[k]
      /\ \A k \in 1 .. LookAhead : /\ line[k] <= tag
                                   /\ line[k] = NoTag \/ line[k] >= seenCut
  <2>1. CASE wasSilence
    BY <1>1, <2>1 DEF EmptyLine, NoTag
  <2>2. CASE ~wasSilence
    BY <1>1, <2>2 DEF GenTypes, LookaheadInOrder, TagsSincePurge
  <2> QED BY <2>1, <2>2
<1>3. /\ delay' = Append(Tail(line), tag) /\ bright' = Head(line)
      /\ sample' = [kind |-> "voice", tag |-> Head(line), left |-> 0]
      /\ stopFade' = IF wasSilence THEN NoFade ELSE stopFade
      /\ wasSilence' = FALSE /\ gpc' \in {"stretch", "next"}
      /\ UNCHANGED <<old, purgeId, cutAt, seenCut>>
  BY DEF RenderFrame, Rendered, vars, history, frameVars
<1> HIDE DEF line, tag
<1>4. /\ delay' \in [1 .. LookAhead -> Nat]
      /\ \A k \in 1 .. LookAhead : delay'[k] = IF k = LookAhead THEN tag ELSE line[k + 1]
      /\ bright' = line[1] /\ 1 \in 1 .. LookAhead
  BY <1>1, <1>2, <1>3, LineShift
<1>5. \A k \in 1 .. LookAhead :
         delay'[k] \in Nat /\ (k # LookAhead => k + 1 \in 1 .. LookAhead)
  BY <1>1, <1>4
<1>6. GenTypes'
  <2>1. stopFade' \in [left : 0 .. StopFade, total : {0, StopFade}]
    BY <1>1, <1>3 DEF GenTypes, NoFade
  <2>2. line[1] \in Nat /\ Head(line) = line[1]
    BY <1>1, <1>2, <1>4, LineShift
  <2>3. sample' \in [kind : {"none", "voice", "tail", "zero"}, tag : Nat, left : 0 .. StopFade]
    BY <1>1, <1>3, <2>2
  <2>4. wasSilence' \in BOOLEAN
    BY <1>3
  <2>5. cutAt' \in Nat /\ seenCut' \in Nat /\ seenCut' <= cutAt'
    BY <1>3 DEF GenTypes
  <2> QED BY <1>3, <1>4, <2>1, <2>2, <2>3, <2>4, <2>5 DEF GenTypes
<1>7. SoundsInOrder' /\ CutIsHeard' /\ FrameMayBeHeard'
  BY <1>3, SoundAdvances, CutStaysHeard DEF FrameMayBeHeard, GenTypes
<1>8. LookaheadInOrder'
  <2>1. \A k \in 1 .. LookAhead : delay'[k] <= old'.frame.src
    BY <1>1, <1>2, <1>3, <1>4, <1>5
  <2>2. ASSUME NEW j \in 1 .. LookAhead, NEW k \in 1 .. LookAhead, j < k
        PROVE  delay'[j] <= delay'[k]
    <3>1. j # LookAhead /\ delay'[j] = line[j + 1] /\ j + 1 \in 1 .. LookAhead
      BY <1>1, <1>4, <2>2
    <3>2. CASE k = LookAhead
      BY <1>2, <1>4, <3>1, <3>2
    <3>3. CASE k # LookAhead
      <4>1. delay'[k] = line[k + 1] /\ k + 1 \in 1 .. LookAhead /\ j + 1 < k + 1
        BY <1>1, <1>4, <2>2, <3>3
      <4> QED BY <1>2, <3>1, <4>1
    <3> QED BY <3>2, <3>3
  <2>3. bright' <= delay'[1]
    <3>1. CASE LookAhead = 1
      BY <1>2, <1>4, <3>1
    <3>2. CASE LookAhead # 1
      <4>1. delay'[1] = line[2] /\ 2 \in 1 .. LookAhead
        BY <1>1, <1>4, <3>2
      <4> QED BY <1>2, <1>4, <4>1
    <3> QED BY <3>1, <3>2
  <2> QED BY <1>3, <2>1, <2>2, <2>3 DEF LookaheadInOrder
<1>9. TagsSincePurge'
  <2>1. \A k \in 1 .. LookAhead : delay'[k] = NoTag \/ delay'[k] >= seenCut
    BY <1>1, <1>2, <1>4, <1>5
  <2>2. bright' = NoTag \/ bright' >= seenCut
    BY <1>2, <1>4
  <2> QED BY <1>3, <2>1, <2>2 DEF TagsSincePurge
<1>10. TailIsTheFade'
  BY <1>3 DEF TailIsTheFade
<1> QED BY <1>6, <1>7, <1>8, <1>9, <1>10

\* The fade-out in force is counted from StopFade, and is the one before if there was one.
LEMMA FadeOutFacts ==
    ASSUME GenTypes
    PROVE  /\ FadeOut.left \in 0 .. StopFade /\ FadeOut.total = StopFade
           /\ stopFade.total = StopFade => FadeOut = stopFade
<1>1. StopFade \in Nat /\ StopFade > 1
  BY GeneratorAssumption
<1>2. CASE stopFade.total = 0
  BY <1>1, <1>2 DEF FadeOut, GenTypes
<1>3. CASE stopFade.total = StopFade /\ stopFade.total # 0
  BY <1>1, <1>3 DEF FadeOut, GenTypes
<1> QED BY <1>2, <1>3 DEF GenTypes

LEMMA RenderTailGInv == ASSUME GInv, IInv, [Next]_vars, RenderTail PROVE GInv'
<1> USE DEF GInv
<1> DEFINE fade == FadeOut
<1>1. /\ gpc = "render" /\ gpc' = "next" /\ fade.left > 0
      /\ sample' = [kind |-> "tail", tag |-> bright, left |-> fade.left]
      /\ stopFade' = [fade EXCEPT !.left = @ - 1]
      /\ UNCHANGED <<old, purgeId, cutAt, wasSilence, delay, bright, seenCut>>
  BY DEF RenderTail, vars, history, frameVars
<1>2. StopFade \in Nat /\ fade.left \in 0 .. StopFade /\ fade.total = StopFade
  BY GeneratorAssumption, FadeOutFacts
<1>3. fade \in [left : 0 .. StopFade, total : {0, StopFade}]
  BY GeneratorAssumption DEF FadeOut, GenTypes
<1> HIDE DEF fade
<1>4. stopFade' \in [left : 0 .. StopFade, total : {0, StopFade}]
      /\ stopFade'.left = fade.left - 1 /\ stopFade'.total = StopFade
  BY <1>1, <1>2, <1>3
<1>5. GenTypes'
  BY <1>1, <1>2, <1>4 DEF GenTypes
<1>6. SoundsInOrder' /\ CutIsHeard' /\ FrameMayBeHeard'
  BY <1>1, SoundAdvances, CutStaysHeard DEF FrameMayBeHeard, GenTypes
<1>7. LookaheadInOrder' /\ TagsSincePurge'
  BY <1>1 DEF LookaheadInOrder, TagsSincePurge
<1>8. TailIsTheFade'
  BY <1>1, <1>2, <1>4 DEF TailIsTheFade
<1> QED BY <1>5, <1>6, <1>7, <1>8

LEMMA GiveUpGInv == ASSUME GInv, IInv, [Next]_vars, GiveUp PROVE GInv'
<1> USE DEF GInv
<1>1. /\ gpc = "render" /\ gpc' = "outside" /\ wasSilence' = TRUE /\ stopFade' = NoFade
      /\ sample' = [kind |-> "zero", tag |-> NoTag, left |-> 0]
      /\ UNCHANGED <<old, purgeId, cutAt, delay, bright, seenCut>>
  BY DEF GiveUp, vars, history, frameVars
<1>2. GenTypes'
  BY <1>1, GeneratorAssumption DEF GenTypes, NoFade, NoTag
<1>3. SoundsInOrder' /\ CutIsHeard' /\ FrameMayBeHeard'
  BY <1>1, SoundAdvances, CutStaysHeard DEF FrameMayBeHeard, GenTypes
<1> QED BY <1>1, <1>2, <1>3 DEF LookaheadInOrder, TagsSincePurge, TailIsTheFade

\* The pull whose frame the generator renders: no purge is waiting then, so what the
\* last one lets be heard is sounding.
LEMMA PulledGInv == ASSUME GInv, IInv, [Next]_vars, Pulled PROVE GInv'
<1> USE DEF GInv
<1>1. /\ gpc' \in {"render", "stretch", "next"}
      /\ out' = IF curNull THEN NoFrame ELSE cur
      /\ UNCHANGED <<old, new, curNull, started, purgeId, wasSilence, stopFade, delay, bright,
                     sample, cutAt, seenCut>>
  BY DEF Pulled, ReturnFrame, frameVars, history
<1>2. CutIsHeard' /\ seenCut <= cutAt /\ {seenCut, cutAt, old.frame.src} \subseteq Nat
  BY <1>1, SoundAdvances, CutStaysHeard DEF GenTypes
<1>3. FrameMayBeHeard'
  <2> SUFFICES ASSUME ~curNull
               PROVE  cur.from = old.frame /\ seenCut <= old.frame.src
    BY <1>1 DEF FrameMayBeHeard
  <2>1. cur.from = old.frame
    BY DEF IInv, CurrentFrameTracksRequest, Settled
  <2>2. ~(started < purgeId)
    BY DEF SoundsInOrder, PurgeSilences
  <2> QED BY <1>2, <2>1, <2>2 DEF CutIsHeard
<1> QED BY <1>1, <1>2, <1>3, QuietStep

\* Queueing: a purge says anew what may be heard, and never more than is sounding or
\* first in the queue.
LEMMA QueueingGInv == ASSUME GInv, IInv, [Next]_vars, Queueing PROVE GInv'
<1> USE DEF GInv
<1>1. PICK shape \in Shapes : Queue(shape) \/ QueuePurging(shape)
  BY DEF Queueing
<1>2. /\ UNCHANGED <<gpc, wasSilence, stopFade, delay, bright, sample>>
      /\ UNCHANGED <<out, started>> /\ old'.frame = old.frame
      /\ {old.frame.src, purgeId, submitted, cutAt, seenCut} \subseteq Nat
      /\ gpc \in {"outside", "pull", "return", "render", "stretch", "stretchReturn", "next"}
  <2>1. old'.frame = old.frame /\ UNCHANGED <<out, started>>
    BY <1>1 DEF Queue, QueuePurging, QueueFrame, QueueFramePurging, IInv, TypeOK, Request
  <2> QED BY <1>1, <2>1, SoundAdvances DEF Queue, QueuePurging, genVars, GenTypes
<1>3. CASE Queue(shape)
  <2>1. UNCHANGED <<cutAt, seenCut, purgeId>>
    BY <1>3 DEF Queue, QueueFrame, genVars
  <2>2. CutIsHeard'
    BY <1>2, <2>1, CutStaysHeard
  <2>3. FrameMayBeHeard'
    BY <1>2, <2>1 DEF FrameMayBeHeard
  <2> QED BY <1>2, <2>1, <2>2, <2>3, QuietStep DEF GenTypes
<1>4. CASE QueuePurging(shape)
  <2>1. /\ cutAt' = HeardAfter(shape) /\ queue' = <<NewRequest(shape)>>
        /\ purgeId' = submitted + 1 /\ started <= submitted /\ started \in Nat
        /\ seenCut' = IF cutAt' < seenCut THEN cutAt' ELSE seenCut
    BY <1>4 DEF QueuePurging, QueueFramePurging, IInv, Numbering, TypeOK
  <2>2. cutAt' = IF shape.null THEN old.frame.src ELSE submitted + 1
    BY <2>1 DEF HeardAfter
  <2>3. cutAt' \in Nat /\ seenCut' \in Nat /\ seenCut' <= seenCut /\ seenCut' <= cutAt'
    BY <1>2, <2>1, <2>2
  <2>4. CutIsHeard'
    <3>1. CASE shape.null
      BY <1>2, <2>2, <3>1 DEF CutIsHeard
    <3>2. CASE ~shape.null
      <4>1. ~queue'[1].null
        BY <2>1, <3>2 DEF NewRequest
      <4> QED BY <1>2, <2>1, <2>2, <3>2, <4>1 DEF CutIsHeard
    <3> QED BY <3>1, <3>2
  <2>5. FrameMayBeHeard'
    BY <1>2, <2>3 DEF FrameMayBeHeard
  <2> QED BY <1>2, <2>3, <2>4, <2>5, QuietStep
<1> QED BY <1>1, <1>3, <1>4

LEMMA NextGInv == GInv /\ IInv /\ [GenNext]_allVars => GInv'
<1> SUFFICES ASSUME GInv, IInv, [GenNext]_allVars PROVE GInv'
  OBVIOUS
<1>0. [Next]_vars
  BY StepBelow
<1>1. CASE BeginBuffer
  BY <1>0, <1>1, BeginBufferGInv
<1>2. CASE Pull
  <2>1. /\ gpc' \in {"return", "stretchReturn"} /\ UNCHANGED purgeId
        /\ UNCHANGED <<wasSilence, stopFade, delay, bright, sample, cutAt, seenCut>>
    BY <1>2 DEF Pull, UpdateCurrentFrame
  <2>2. CutIsHeard' /\ FrameMayBeHeard'
    BY <1>0, <2>1, CutStaysHeard DEF FrameMayBeHeard, GInv, GenTypes
  <2> QED BY <1>0, <2>1, <2>2, QuietStep DEF GInv, GenTypes
<1>3. CASE Pulled
  BY <1>0, <1>3, PulledGInv
<1>4. CASE RenderFrame
  BY <1>0, <1>4, RenderFrameGInv
<1>5. CASE RenderTail
  BY <1>0, <1>5, RenderTailGInv
<1>6. CASE GiveUp
  BY <1>0, <1>6, GiveUpGInv
<1>7. CASE NextSample \/ UNCHANGED allVars
  <2>1. /\ gpc' \in {gpc, "outside", "pull"} /\ UNCHANGED <<out, old, purgeId>>
        /\ UNCHANGED <<wasSilence, stopFade, delay, bright, sample, cutAt, seenCut>>
    BY <1>7 DEF NextSample, allVars, genVars, vars, frameVars, history
  <2>2. CutIsHeard' /\ FrameMayBeHeard'
    BY <1>0, <2>1, CutStaysHeard DEF FrameMayBeHeard, GInv, GenTypes
  <2> QED BY <1>0, <2>1, <2>2, QuietStep DEF GInv, GenTypes
<1>8. CASE Queueing
  BY <1>0, <1>8, QueueingGInv
<1> QED BY <1>1, <1>2, <1>3, <1>4, <1>5, <1>6, <1>7, <1>8 DEF GenNext, Generate

\* The generator's invariant holds in every reachable state.
THEOREM GeneratorInvariantHolds == GenSpec => []GInv
  BY InitGInv, NextGInv, BelowHolds, PTL DEF GenSpec

-----------------------------------------------------------------------------
(* What is heard.                                                          *)

\* The lookahead line never reorders sound (speechWaveGenerator.cpp 728-741).
THEOREM LookaheadSafety == GenSpec => []LookaheadInOrder
<1>1. GInv => LookaheadInOrder
  BY DEF GInv
<1> QED BY <1>1, GeneratorInvariantHolds, PTL

\* The only steps that write a sample.
LEMMA Rendering ==
    ASSUME GenNext, gpc = "render", gpc' # "render"
    PROVE  RenderFrame \/ RenderTail \/ GiveUp
  BY DEF GenNext, Generate, Queueing, Queue, QueuePurging, genVars, BeginBuffer, Pull,
         Pulled, NextSample

\* After a noticed purge, no sample is of a request before the purging one, but for
\* the frame that a purging pause fades out (speechWaveGenerator.cpp 349-360, 384-387,
\* 757; frame.cpp 388-411).
THEOREM PurgeIsFinal == GenSpec => PurgedSoundNeverHeard
<1>1. GInv /\ [GenNext]_allVars =>
         [(gpc = "render" /\ gpc' # "render" /\ sample'.tag # NoTag) =>
             sample'.tag >= seenCut]_allVars
  <2> SUFFICES ASSUME GInv, GenNext, gpc = "render", gpc' # "render", sample'.tag # NoTag
               PROVE  sample'.tag >= seenCut
    OBVIOUS
  <2>1. CASE RenderFrame
    <3> DEFINE line == IF wasSilence THEN EmptyLine ELSE delay
    <3>1. sample'.tag = Head(line)
      BY <2>1 DEF RenderFrame, Rendered
    <3>2. EmptyLine \in [1 .. LookAhead -> Nat] /\ delay \in [1 .. LookAhead -> Nat]
      BY DEF EmptyLine, NoTag, GInv, GenTypes
    <3>3. sample'.tag = line[1] /\ 1 \in 1 .. LookAhead
      BY <3>1, <3>2, LineShift, 0 \in Nat
    <3>4. ~wasSilence
      BY <3>3 DEF EmptyLine
    <3> QED BY <3>3, <3>4 DEF GInv, TagsSincePurge
  <2>2. CASE RenderTail
    BY <2>2 DEF RenderTail, GInv, TagsSincePurge
  <2>3. CASE GiveUp
    BY <2>3 DEF GiveUp
  <2> QED BY <2>1, <2>2, <2>3, Rendering
<1> QED BY <1>1, GeneratorInvariantHolds, PTL DEF GenSpec, PurgedSoundNeverHeard

\* A fade-out, from whichever step it begins, goes down by single steps, and silence
\* follows only its last one (speechWaveGenerator.cpp 748-771).
THEOREM FadeOutSafety == GenSpec => FadeOutIsSmooth
<1>1. GInv /\ [GenNext]_allVars =>
         [(gpc = "render" /\ gpc' # "render" /\ sample.kind = "tail" /\ ~wasSilence) =>
             \/ sample'.kind = "voice"
             \/ sample'.kind = "tail" /\ sample'.left = sample.left - 1
             \/ sample'.kind = "zero" /\ sample.left = 1]_allVars
  <2> SUFFICES ASSUME GInv, GenNext, gpc = "render", gpc' # "render",
                      sample.kind = "tail", ~wasSilence
               PROVE  \/ sample'.kind = "voice"
                      \/ sample'.kind = "tail" /\ sample'.left = sample.left - 1
                      \/ sample'.kind = "zero" /\ sample.left = 1
    OBVIOUS
  <2>1. FadeOut = stopFade /\ sample.left = stopFade.left + 1 /\ stopFade.left \in Nat
    BY FadeOutFacts, GeneratorAssumption DEF GInv, TailIsTheFade, GenTypes
  <2>2. CASE RenderFrame
    BY <2>2 DEF RenderFrame, Rendered
  <2>3. CASE RenderTail
    BY <2>1, <2>3 DEF RenderTail
  <2>4. CASE GiveUp
    BY <2>1, <2>4 DEF GiveUp
  <2> QED BY <2>2, <2>3, <2>4, Rendering
<1> QED BY <1>1, GeneratorInvariantHolds, PTL DEF GenSpec, FadeOutIsSmooth
=============================================================================
