--------------------------- MODULE NvdaDriverProofs ---------------------------
(***************************************************************************)
(* Proofs about NvdaDriver, for every number of calls of speak and cancel  *)
(* and of clauses in an utterance.                                         *)
(***************************************************************************)
EXTENDS NvdaDriver, FiniteSetTheorems, TLAPS

-----------------------------------------------------------------------------
(* Types.                                                                  *)

Indices == {NoIndex} \cup Utterances
Frames  == [utt : 0 .. MaxSpeaks, index : Indices]
Pieces  == [utts : SUBSET (0 .. MaxSpeaks), index : Indices]
Jobs    == [utt : 0 .. MaxSpeaks, gen : Nat, text : BOOLEAN]

MainPcs == {"idle", "clear", "stop", "bump", "drain", "purge", "kick"}
BgPcs ==
    {"idle", "notify", "notifyDone", "chunk", "onFrame", "queueFrame", "checkKick", "setPending",
     "setSpeaking", "recheck", "unset", "kick", "ready", "marker", "tail", "allQueued", "final",
     "lateSpeaking", "lateRecheck", "lateKick"}
AudioPcs ==
    {"wait", "clear", "loop", "synthesize", "recheck", "deliver", "exit", "idlePlayer", "done",
     "clearSpeaking"}

DriverTypeOK ==
    /\ isSpeaking \in BOOLEAN /\ allFramesQueued \in BOOLEAN /\ wake \in BOOLEAN
    /\ speakGen \in Nat /\ bgQueue \in Seq(Jobs)
    /\ frames \in Seq(Frames) /\ playerIndex \in Indices /\ fed \in Seq(Pieces)
    /\ main \in MainPcs /\ speaks \in 0 .. MaxSpeaks /\ cancels \in Nat
    /\ bg \in BgPcs /\ job \in Jobs /\ left \in Int /\ kicked \in BOOLEAN /\ real \in BOOLEAN
    /\ audio \in AudioPcs /\ data \in Pieces /\ audioIndex \in Indices /\ didSpeak \in BOOLEAN
    /\ cut \in 0 .. MaxSpeaks /\ reached \in Seq(Utterances) /\ dones \in Nat

-----------------------------------------------------------------------------
(* The invariant.                                                          *)

\* The jobs wait in the order of the calls, behind the running one.
JobsInOrder ==
    /\ job.utt <= speaks
    /\ bg # "idle" => job.utt # NoUtterance
    /\ \A k \in DOMAIN bgQueue : job.utt < bgQueue[k].utt /\ bgQueue[k].utt <= speaks
    /\ \A j, k \in DOMAIN bgQueue : j < k => bgQueue[j].utt < bgQueue[k].utt

\* What the player holds is between the last marker it met and the running job.
FramesInOrder ==
    /\ playerIndex <= job.utt
    /\ \A k \in DOMAIN frames :
          /\ frames[k].utt <= job.utt
          /\ frames[k].utt # NoUtterance => playerIndex <= frames[k].utt
    /\ \A j, k \in DOMAIN frames :
          j < k /\ frames[k].utt # NoUtterance => frames[j].utt <= frames[k].utt

\* What left the player belongs in front of what it still holds.
InFront(utts) ==
    \A u \in utts :
        /\ u <= job.utt
        /\ \A k \in DOMAIN frames : frames[k].utt # NoUtterance => u <= frames[k].utt

AudioInOrder == InFront(data.utts) /\ \A i \in DOMAIN fed : InFront(fed[i].utts)

TailComes(u) == bg = "tail" /\ job.utt = u
MarkerComes ==
    bg \in {"chunk", "onFrame", "queueFrame", "checkKick", "setPending", "setSpeaking", "recheck",
            "kick", "ready", "marker"}

\* Behind a marker only the tail of its utterance follows; a job that has not queued its
\* marker has none.
MarkersInOrder ==
    /\ \A k \in DOMAIN frames : frames[k].index # NoIndex => frames[k].index = frames[k].utt
    /\ \A j, k \in DOMAIN frames :
          j < k /\ frames[j].index # NoIndex /\ frames[k].utt = frames[j].index =>
              /\ frames[k].index = NoIndex /\ ~TailComes(frames[k].utt)
              /\ \A l \in DOMAIN frames : j < l /\ frames[l].utt = frames[k].utt => l = k
    /\ MarkerComes => /\ playerIndex < job.utt
                      /\ \A k \in DOMAIN frames : frames[k].index # job.utt

\* The data of synthesize is on its way to the device.
Pending == audio \in {"recheck", "deliver"}

\* Of utterance u, there is at most the tail: about to be queued, on the player, on its way,
\* or among the chunks behind number i.
OnlyTail(u, i) ==
    /\ \A j, k \in DOMAIN frames : frames[j].utt = u /\ frames[k].utt = u => j = k
    /\ \A j, k \in DOMAIN fed :
          i < j /\ i < k /\ u \in fed[j].utts /\ u \in fed[k].utts => j = k
    /\ \A k \in DOMAIN frames :
          frames[k].utt = u => /\ ~TailComes(u)
                               /\ Pending => u \notin data.utts
                               /\ \A j \in DOMAIN fed : i < j => u \notin fed[j].utts
    /\ \A j \in DOMAIN fed :
          i < j /\ u \in fed[j].utts => ~TailComes(u) /\ (Pending => u \notin data.utts)
    /\ Pending /\ u \in data.utts => ~TailComes(u)

\* So it is of every index that the player, the device or the listener came to.
PassedAreOver ==
    /\ Pending => data.index = playerIndex
    /\ \A j, k \in DOMAIN frames :
          frames[j].utt = playerIndex /\ frames[k].utt = playerIndex => j = k
    /\ \A k \in DOMAIN frames : frames[k].utt = playerIndex => ~TailComes(playerIndex)
    /\ \A u \in Utterances :
          /\ \A i \in DOMAIN fed : fed[i].index = u => u <= playerIndex /\ OnlyTail(u, i)
          /\ \A k \in DOMAIN reached : reached[k] = u => u <= playerIndex /\ OnlyTail(u, 0)

OrderInv ==
    /\ DriverTypeOK /\ JobsInOrder /\ FramesInOrder /\ AudioInOrder /\ MarkersInOrder
    /\ PassedAreOver

\* Every notification belongs to a job: one that was taken, or the one that runs and may
\* still set isSpeaking or notify.
MayNotify ==
    \/ bg \in {"checkKick", "setPending", "setSpeaking", "lateSpeaking", "notify", "notifyDone"}
    \/ bg \in {"chunk", "onFrame", "queueFrame", "ready", "marker", "tail", "allQueued", "final"}
       /\ ~kicked

WillNotify ==
    \/ audio \in {"idlePlayer", "done"}
    \/ isSpeaking /\ audio # "clearSpeaking"

Count(b) == IF b THEN 1 ELSE 0
DonesBelongToJobs == dones + Count(WillNotify) + Count(MayNotify) <= job.utt

\* What a cancel finds has an older generation once the generation was raised, and none of
\* it waits any more once the jobs were drained.
CancelledAreStale ==
    /\ cut <= speaks
    /\ job.gen <= speakGen /\ \A k \in DOMAIN bgQueue : bgQueue[k].gen <= speakGen
    /\ main \in {"drain", "purge", "kick", "idle"} =>
          /\ job.utt \in 1 .. cut => job.gen < speakGen
          /\ \A k \in DOMAIN bgQueue : bgQueue[k].utt <= cut => bgQueue[k].gen < speakGen
    /\ main \in {"purge", "kick", "idle"} => \A k \in DOMAIN bgQueue : bgQueue[k].utt > cut

\* The frames a stale job can still queue.
StillQueues ==
    IF bg = "queueFrame" THEN 4
    ELSE IF bg \in {"ready", "kick"} THEN 3
    ELSE IF bg \in {"chunk", "onFrame", "marker"} THEN 2
    ELSE IF bg = "tail" THEN 1
    ELSE 0

CutFrames == {k \in DOMAIN frames : frames[k].utt \in 1 .. cut}
CancelledRunOut ==
    main \in {"kick", "idle"} =>
        Cardinality(CutFrames) + (IF job.utt \in 1 .. cut THEN StillQueues ELSE 0) <= 4

CancelInv == DriverTypeOK /\ JobsInOrder /\ CancelledAreStale /\ CancelledRunOut

-----------------------------------------------------------------------------
(* The steps, by what they change.                                         *)

\* A step of a thread moves it from one place to the next.
LEMMA QueueFacts ==
    ASSUME NEW S, NEW q \in Seq(S)
    PROVE  /\ \A x \in S : /\ Append(q, x) \in Seq(S) /\ Len(Append(q, x)) = Len(q) + 1
                           /\ Append(q, x)[Len(q) + 1] = x
                           /\ \A k \in 1 .. Len(q) : Append(q, x)[k] = q[k]
           /\ q # <<>> => /\ Head(q) \in S /\ Head(q) = q[1] /\ Tail(q) \in Seq(S)
                          /\ Len(q) \in Nat /\ Len(q) > 0 /\ Len(Tail(q)) = Len(q) - 1
                          /\ \A k \in 1 .. Len(q) - 1 : Tail(q)[k] = q[k + 1]
  OBVIOUS

LEMMA TakeFacts ==
    ASSUME NEW S, NEW q \in Seq(S), NEW n \in 1 .. Len(q)
    PROVE  /\ SubSeq(q, n + 1, Len(q)) \in Seq(S)
           /\ Len(SubSeq(q, n + 1, Len(q))) = Len(q) - n
           /\ \A k \in 1 .. Len(q) - n : SubSeq(q, n + 1, Len(q))[k] = q[n + k]
  OBVIOUS

\* What one synthesize takes: the first n frames, their utterances, and the index of the
\* last marker among them.
Takes(n) ==
    /\ n \in 0 .. Len(frames)
    /\ Len(frames') = Len(frames) - n
    /\ \A k \in 1 .. Len(frames) - n : frames'[k] = frames[n + k]
    /\ data'.utts = {frames[k].utt : k \in 1 .. n}
    /\ \/ /\ playerIndex' = playerIndex
          /\ \A k \in 1 .. n : frames[k].index = NoIndex
       \/ \E k \in 1 .. n :
             /\ frames[k].index # NoIndex /\ playerIndex' = frames[k].index
             /\ \A m \in 1 .. n : frames[m].index # NoIndex => m <= k

LEMMA SynthesizeFacts ==
    ASSUME DriverTypeOK, Synthesize
    PROVE  /\ playerIndex' \in Indices /\ data' \in Pieces /\ data'.index = playerIndex'
           /\ frames' \in Seq(Frames)
           /\ \E n \in 0 .. Len(frames) : Takes(n)
<1> DEFINE Markers(n) == {k \in 1 .. n : frames[k].index # NoIndex}
<1>0. frames \in Seq(Frames) /\ playerIndex \in Indices
  BY DEF DriverTypeOK
<1>1. ASSUME frames = <<>>, data' = [utts |-> {}, index |-> playerIndex],
             UNCHANGED <<frames, playerIndex>>
      PROVE  Takes(0) /\ data' \in Pieces
  <2>1. Len(frames) = 0
    BY <1>1
  <2> QED BY <1>0, <1>1, <2>1 DEF Takes, Pieces
<1>2. ASSUME NEW n \in 1 .. Len(frames),
             frames' = SubSeq(frames, n + 1, Len(frames)),
             \/ Markers(n) = {} /\ UNCHANGED playerIndex
             \/ \E last \in Markers(n) : /\ \A m \in Markers(n) : m <= last
                                         /\ playerIndex' = frames[last].index,
             data' = [utts |-> {frames[k].utt : k \in 1 .. n}, index |-> playerIndex']
      PROVE  /\ playerIndex' \in Indices /\ data' \in Pieces /\ frames' \in Seq(Frames)
             /\ n \in 0 .. Len(frames) /\ Takes(n)
  <2>1. /\ frames' \in Seq(Frames) /\ Len(frames') = Len(frames) - n
        /\ \A k \in 1 .. Len(frames) - n : frames'[k] = frames[n + k]
    BY <1>0, <1>2, TakeFacts
  <2>2. \A k \in 1 .. n : frames[k] \in Frames
    BY <1>0
  <2>3. \/ /\ playerIndex' = playerIndex
           /\ \A k \in 1 .. n : frames[k].index = NoIndex
        \/ \E k \in 1 .. n :
             /\ frames[k].index # NoIndex /\ playerIndex' = frames[k].index
             /\ \A m \in 1 .. n : frames[m].index # NoIndex => m <= k
    BY <1>2
  <2>4. playerIndex' \in Indices
    BY <1>0, <2>2, <2>3 DEF Frames
  <2>5. data' \in Pieces
    BY <1>2, <2>2, <2>4 DEF Frames, Pieces
  <2>6. n \in 0 .. Len(frames)
    BY <1>0
  <2>7. data'.utts = {frames[k].utt : k \in 1 .. n}
    BY <1>2
  <2> QED BY <2>1, <2>3, <2>4, <2>5, <2>6, <2>7 DEF Takes
<1>3. Len(frames) \in Nat /\ 0 \in 0 .. Len(frames)
  BY <1>0
<1>4. \/ /\ frames = <<>> /\ data' = [utts |-> {}, index |-> playerIndex]
         /\ UNCHANGED <<frames, playerIndex>>
      \/ \E n \in 1 .. Len(frames) :
            /\ frames' = SubSeq(frames, n + 1, Len(frames))
            /\ \/ Markers(n) = {} /\ UNCHANGED playerIndex
               \/ \E last \in Markers(n) : /\ \A m \in Markers(n) : m <= last
                                           /\ playerIndex' = frames[last].index
            /\ data' = [utts |-> {frames[k].utt : k \in 1 .. n}, index |-> playerIndex']
  BY DEF Synthesize
<1>5. data'.index = playerIndex'
  <2> HIDE DEF Markers
  <2> QED BY <1>4
<1> HIDE DEF Markers
<1>6. CASE frames = <<>> /\ data' = [utts |-> {}, index |-> playerIndex]
           /\ UNCHANGED <<frames, playerIndex>>
  BY <1>0, <1>1, <1>3, <1>5, <1>6
<1> QED BY <1>2, <1>4, <1>5, <1>6

\* Taking a job off the queue: it is a real utterance, later than the last one.
LEMMA TakeJobFacts ==
    ASSUME DriverTypeOK, JobsInOrder, bgQueue # <<>>
    PROVE  /\ Head(bgQueue) \in Jobs /\ Head(bgQueue) = bgQueue[1] /\ 1 \in DOMAIN bgQueue
           /\ job.utt < Head(bgQueue).utt /\ Head(bgQueue).utt <= speaks
           /\ Head(bgQueue).utt \in Utterances
           /\ Tail(bgQueue) \in Seq(Jobs) /\ Len(Tail(bgQueue)) = Len(bgQueue) - 1
           /\ \A k \in DOMAIN Tail(bgQueue) :
                 k + 1 \in DOMAIN bgQueue /\ Tail(bgQueue)[k] = bgQueue[k + 1]
<1>1. /\ bgQueue \in Seq(Jobs) /\ job.utt \in Nat /\ speaks \in Nat /\ speaks <= MaxSpeaks
      /\ MaxSpeaks \in Nat
  BY DriverAssumption DEF DriverTypeOK, Jobs
<1>2. /\ Head(bgQueue) \in Jobs /\ Head(bgQueue) = bgQueue[1] /\ Tail(bgQueue) \in Seq(Jobs)
      /\ Len(bgQueue) \in Nat /\ Len(bgQueue) > 0 /\ Len(Tail(bgQueue)) = Len(bgQueue) - 1
      /\ \A k \in 1 .. Len(bgQueue) - 1 : Tail(bgQueue)[k] = bgQueue[k + 1]
  BY <1>1, QueueFacts
<1>3. DOMAIN bgQueue = 1 .. Len(bgQueue) /\ DOMAIN Tail(bgQueue) = 1 .. Len(bgQueue) - 1
  BY <1>1, <1>2
<1>4. job.utt < Head(bgQueue).utt /\ Head(bgQueue).utt <= speaks
  BY <1>2, <1>3 DEF JobsInOrder
<1>5. Head(bgQueue).utt \in Utterances
  BY <1>1, <1>2, <1>4 DEF Jobs, Utterances
<1> QED BY <1>2, <1>3, <1>4, <1>5

LEMMA InitTypes == Init => DriverTypeOK /\ JobsInOrder
<1> SUFFICES ASSUME Init PROVE DriverTypeOK /\ JobsInOrder
  OBVIOUS
<1>1. NoIndex \in Indices /\ NoData \in Pieces /\ NoJob \in Jobs /\ NoJob.utt = 0
  BY DriverAssumption DEF NoData, NoJob, NoUtterance, Pieces, Jobs, Indices
<1>2. /\ bgQueue \in Seq(Jobs) /\ frames \in Seq(Frames) /\ fed \in Seq(Pieces)
      /\ reached \in Seq(Utterances) /\ speaks \in 0 .. MaxSpeaks /\ cut \in 0 .. MaxSpeaks
  BY DriverAssumption DEF Init
<1>3. DriverTypeOK
  <2>1. main \in MainPcs /\ bg \in BgPcs /\ audio \in AudioPcs
    BY DEF Init, MainPcs, BgPcs, AudioPcs
  <2>2. playerIndex \in Indices /\ audioIndex \in Indices
    BY <1>1 DEF Init
  <2>3. data \in Pieces /\ job \in Jobs
    BY <1>1 DEF Init
  <2>4. /\ isSpeaking \in BOOLEAN /\ allFramesQueued \in BOOLEAN /\ wake \in BOOLEAN
        /\ kicked \in BOOLEAN /\ real \in BOOLEAN /\ didSpeak \in BOOLEAN
    BY DEF Init
  <2>5. speakGen \in Nat /\ cancels \in Nat /\ left \in Int /\ dones \in Nat
    BY DEF Init
  <2> QED BY <1>2, <2>1, <2>2, <2>3, <2>4, <2>5 DEF DriverTypeOK
<1>4. JobsInOrder
  BY <1>1 DEF Init, JobsInOrder
<1> QED BY <1>3, <1>4

LEMMA NextTypes ==
    ASSUME DriverTypeOK, JobsInOrder, [Next]_vars
    PROVE  DriverTypeOK'
<1> USE DriverAssumption DEF DriverTypeOK, MainPcs, BgPcs, AudioPcs
<1>1. CASE UNCHANGED vars
  BY <1>1 DEF vars, shared, mainVars, bgVars, audioVars, history
<1>2. CASE Main
  <2> USE DEF bgVars, audioVars, history, shared
  <2>1. CASE Speak
    <3>1. \A text \in BOOLEAN : [utt |-> speaks + 1, gen |-> speakGen, text |-> text] \in Jobs
      BY <2>1 DEF Speak, Jobs
    <3>2. bgQueue' \in Seq(Jobs)
      BY <2>1, <3>1, QueueFacts DEF Speak
    <3> QED BY <2>1, <3>2 DEF Speak
  <2>2. CancelPolling => DriverTypeOK'  BY DEF CancelPolling
  <2>3. CancelSpeaking => DriverTypeOK'  BY DEF CancelSpeaking
  <2>4. CancelPlayback => DriverTypeOK'  BY DEF CancelPlayback
  <2>5. CancelGeneration => DriverTypeOK'  BY DEF CancelGeneration
  <2>6. CancelJobs => DriverTypeOK'  BY DEF CancelJobs
  <2>7. CASE CancelFrames
    <3>1. Silence \in Frames
      BY DEF Silence, Sound, NoUtterance, Frames, Indices
    <3> QED BY <2>7, <3>1 DEF CancelFrames
  <2>8. CancelKick => DriverTypeOK'  BY DEF CancelKick
  <2> QED BY <1>2, <2>1, <2>2, <2>3, <2>4, <2>5, <2>6, <2>7, <2>8 DEF Main
<1>3. CASE BgStep \/ BgError
  <2> USE DEF OthersByBg, mainVars, audioVars, history, BgGoto
  <2>1. CASE TakeJob
    <3>1. Chunks[Head(bgQueue).utt] \in Nat
      <4>1. Head(bgQueue).utt \in Utterances
        BY <2>1, TakeJobFacts DEF TakeJob
      <4> QED BY <4>1 DEF Utterances
    <3>2. Head(bgQueue) \in Jobs /\ Tail(bgQueue) \in Seq(Jobs)
      BY <2>1, TakeJobFacts DEF TakeJob
    <3>3. bg' \in {"chunk", "notify"} /\ left' \in Int /\ job' \in Jobs /\ bgQueue' \in Seq(Jobs)
          /\ kicked' = FALSE /\ real' = FALSE
      BY <2>1, <3>1, <3>2 DEF TakeJob
    <3>4. UNCHANGED <<isSpeaking, allFramesQueued, wake, frames, OthersByBg>>
      BY <2>1 DEF TakeJob
    <3> QED BY <3>3, <3>4
  <2>2. NotifyIndexesAndDone => DriverTypeOK'  BY DEF NotifyIndexesAndDone, shared
  <2>3. NextChunk => DriverTypeOK'  BY DEF NextChunk
  <2>4. OnFrame => DriverTypeOK'  BY DEF OnFrame
  <2>5. Sound(job.utt) \in Frames /\ (bg # "idle" => Marker(job.utt) \in Frames)
    BY DEF Sound, Marker, Frames, Jobs, Indices, Utterances, JobsInOrder, NoUtterance
  <2>6. /\ Append(frames, Sound(job.utt)) \in Seq(Frames)
        /\ bg # "idle" => Append(frames, Marker(job.utt)) \in Seq(Frames)
    BY <2>5, QueueFacts
  <2>7. QueueSound => DriverTypeOK'  BY <2>6 DEF QueueSound
  <2>8. CASE ClauseDone
    <3>1. frames' \in Seq(Frames)
      BY <2>6, <2>8 DEF ClauseDone
    <3> QED BY <2>8, <3>1 DEF ClauseDone
  <2>9. QueueMarker => DriverTypeOK'  BY <2>6 DEF QueueMarker
  <2>10. QueueTail => DriverTypeOK'  BY <2>6 DEF QueueTail
  <2>11. CheckKick => DriverTypeOK'  BY DEF CheckKick
  <2>12. SetPending => DriverTypeOK'  BY DEF SetPending
  <2>13. SetSpeaking => DriverTypeOK'  BY DEF SetSpeaking
  <2>14. RecheckKick => DriverTypeOK'  BY DEF RecheckKick
  <2>15. UnsetSpeaking => DriverTypeOK'  BY DEF UnsetSpeaking
  <2>16. Kick => DriverTypeOK'  BY DEF Kick
  <2>17. SetAllQueued => DriverTypeOK'  BY DEF SetAllQueued
  <2>18. FinalCheck => DriverTypeOK'  BY DEF FinalCheck
  <2>19. BgError => DriverTypeOK'  BY DEF BgError
  <2> QED BY <1>3, <2>1, <2>2, <2>3, <2>4, <2>7, <2>8, <2>9, <2>10, <2>11, <2>12, <2>13, <2>14,
             <2>15, <2>16, <2>17, <2>18, <2>19 DEF BgStep
<1>4. CASE AudioStep
  <2> USE DEF OthersByAudio, mainVars, bgVars
  <2>1. Woken => DriverTypeOK'  BY DEF Woken
  <2>2. ClearWake => DriverTypeOK'  BY DEF ClearWake, Indices
  <2>3. LoopTest => DriverTypeOK'  BY DEF LoopTest
  <2>4. CASE Synthesize
    <3>1. playerIndex' \in Indices /\ data' \in Pieces /\ frames' \in Seq(Frames)
      BY <2>4, SynthesizeFacts
    <3> QED BY <2>4, <3>1 DEF Synthesize
  <2>5. RecheckSpeaking => DriverTypeOK'  BY DEF RecheckSpeaking
  <2>6. data.index \in Indices /\ Append(fed, data) \in Seq(Pieces)
    BY QueueFacts DEF Pieces
  <2>7. Feed => DriverTypeOK'  BY <2>6 DEF Feed
  <2>8. FeedIndex => DriverTypeOK'  BY <2>6 DEF FeedIndex
  <2>9. OutOfAudio => DriverTypeOK'  BY DEF OutOfAudio
  <2>10. ExitTest => DriverTypeOK'  BY DEF ExitTest
  <2>11. IdlePlayer => DriverTypeOK'  BY DEF IdlePlayer
  <2>12. NotifyDone => DriverTypeOK'  BY DEF NotifyDone
  <2>13. ClearSpeaking => DriverTypeOK'  BY DEF ClearSpeaking
  <2> QED BY <1>4, <2>1, <2>2, <2>3, <2>4, <2>5, <2>7, <2>8, <2>9, <2>10, <2>11, <2>12, <2>13
          DEF AudioStep
<1>5. CASE PlayChunk
  <2>1. Head(fed) \in Pieces /\ Tail(fed) \in Seq(Pieces)
    BY <1>5, QueueFacts DEF PlayChunk
  <2>2. Head(fed).index # NoIndex => Append(reached, Head(fed).index) \in Seq(Utterances)
    BY <2>1, QueueFacts DEF Pieces, Indices
  <2>3. reached' \in Seq(Utterances)
    BY <1>5, <2>2 DEF PlayChunk
  <2> QED BY <1>5, <2>1, <2>3 DEF PlayChunk, shared, mainVars, bgVars, audioVars
<1> QED BY <1>1, <1>2, <1>3, <1>4, <1>5 DEF Next

LEMMA NextJobs ==
    ASSUME DriverTypeOK, JobsInOrder, [Next]_vars
    PROVE  JobsInOrder'
<1>0. bgQueue \in Seq(Jobs) /\ job.utt \in Nat /\ speaks \in Nat
  BY DriverAssumption DEF DriverTypeOK, Jobs
<1>1. CASE UNCHANGED <<job, bgQueue, speaks>> /\ (bg = "idle" => bg' = "idle")
  BY <1>1 DEF JobsInOrder
<1>2. CASE Speak
  <2>1. \A k \in DOMAIN bgQueue' :
           \/ k \in DOMAIN bgQueue /\ bgQueue'[k] = bgQueue[k] /\ k < Len(bgQueue) + 1
           \/ k = Len(bgQueue) + 1 /\ bgQueue'[k].utt = speaks + 1
    BY <1>0, <1>2 DEF Speak
  <2>2. speaks' = speaks + 1 /\ UNCHANGED <<job, bg>>
    BY <1>2 DEF Speak, bgVars
  <2>3. \A k \in DOMAIN bgQueue : bgQueue[k].utt \in Nat /\ k \in Nat
    <3>1. \A k \in DOMAIN bgQueue : bgQueue[k] \in Jobs /\ k \in Nat
      BY <1>0
    <3> QED BY <3>1 DEF Jobs
  <2>4. \A k \in DOMAIN bgQueue' : job'.utt < bgQueue'[k].utt /\ bgQueue'[k].utt <= speaks'
    BY <1>0, <2>1, <2>2, <2>3 DEF JobsInOrder
  <2>5. \A j, k \in DOMAIN bgQueue' : j < k => bgQueue'[j].utt < bgQueue'[k].utt
    <3> SUFFICES ASSUME NEW j \in DOMAIN bgQueue', NEW k \in DOMAIN bgQueue', j < k
                 PROVE  bgQueue'[j].utt < bgQueue'[k].utt
      OBVIOUS
    <3>1. j \in DOMAIN bgQueue /\ bgQueue'[j] = bgQueue[j]
      BY <1>0, <2>1, <2>3
    <3> QED BY <1>0, <2>1, <2>3, <3>1 DEF JobsInOrder
  <2> QED BY <1>0, <2>2, <2>4, <2>5 DEF JobsInOrder
<1>3. CASE CancelJobs
  BY <1>3 DEF CancelJobs, bgVars, JobsInOrder
<1>4. CASE TakeJob
  <2>1. job' = Head(bgQueue) /\ bgQueue' = Tail(bgQueue) /\ UNCHANGED speaks
    BY <1>4 DEF TakeJob, OthersByBg, mainVars
  <2>2. /\ Head(bgQueue) = bgQueue[1] /\ 1 \in DOMAIN bgQueue
        /\ Head(bgQueue).utt <= speaks /\ Head(bgQueue).utt \in Utterances
        /\ \A k \in DOMAIN Tail(bgQueue) :
              k + 1 \in DOMAIN bgQueue /\ Tail(bgQueue)[k] = bgQueue[k + 1]
    BY <1>4, TakeJobFacts DEF TakeJob
  <2>3. DOMAIN Tail(bgQueue) \subseteq Nat \ {0}
    BY <1>0, <1>4 DEF TakeJob
  <2>4. \A k \in DOMAIN bgQueue' : job'.utt < bgQueue'[k].utt /\ bgQueue'[k].utt <= speaks
    BY <2>1, <2>2, <2>3 DEF JobsInOrder
  <2>5. \A j, k \in DOMAIN bgQueue' : j < k => bgQueue'[j].utt < bgQueue'[k].utt
    <3> SUFFICES ASSUME NEW j \in DOMAIN Tail(bgQueue), NEW k \in DOMAIN Tail(bgQueue), j < k
                 PROVE  Tail(bgQueue)[j].utt < Tail(bgQueue)[k].utt
      BY <2>1
    <3> QED BY <2>2, <2>3 DEF JobsInOrder
  <2>6. job'.utt # NoUtterance
    BY <2>1, <2>2 DEF Utterances, NoUtterance
  <2>7. job'.utt <= speaks' /\ UNCHANGED speaks
    BY <2>1, <2>2
  <2> QED BY <2>4, <2>5, <2>6, <2>7 DEF JobsInOrder
<1> USE DEF OthersByBg, OthersByAudio, mainVars, bgVars, shared, BgGoto
<1>5. CASE UNCHANGED vars
  BY <1>1, <1>5 DEF vars
<1>6. CASE CancelPolling \/ CancelSpeaking \/ CancelPlayback \/ CancelGeneration \/ CancelFrames
           \/ CancelKick
  BY <1>1, <1>6
     DEF CancelPolling, CancelSpeaking, CancelPlayback, CancelGeneration, CancelFrames, CancelKick
<1>7. CASE NotifyIndexesAndDone \/ NextChunk \/ OnFrame \/ QueueSound \/ CheckKick \/ SetPending
  BY <1>1, <1>7 DEF NotifyIndexesAndDone, NextChunk, OnFrame, QueueSound, CheckKick, SetPending
<1>8. CASE SetSpeaking \/ RecheckKick \/ UnsetSpeaking \/ Kick \/ ClauseDone
  BY <1>1, <1>8 DEF SetSpeaking, RecheckKick, UnsetSpeaking, Kick, ClauseDone
<1>9. CASE QueueMarker \/ QueueTail \/ SetAllQueued \/ FinalCheck \/ BgError
  BY <1>1, <1>9 DEF QueueMarker, QueueTail, SetAllQueued, FinalCheck, BgError
<1>10. CASE AudioStep
  BY <1>1, <1>10
     DEF AudioStep, Woken, ClearWake, LoopTest, Synthesize, RecheckSpeaking, Feed, FeedIndex,
         OutOfAudio, ExitTest, IdlePlayer, NotifyDone, ClearSpeaking
<1>11. CASE PlayChunk
  BY <1>1, <1>11 DEF PlayChunk
<1> QED BY <1>2, <1>3, <1>4, <1>5, <1>6, <1>7, <1>8, <1>9, <1>10, <1>11 DEF Next, Main, BgStep

\* Every state is well typed, and the jobs wait in the order of the calls.
THEOREM DriverTypes == Spec => [](DriverTypeOK /\ JobsInOrder)
<1>1. DriverTypeOK /\ JobsInOrder /\ [Next]_vars => (DriverTypeOK /\ JobsInOrder)'
  BY NextTypes, NextJobs
<1> QED BY <1>1, InitTypes, PTL DEF Spec

-----------------------------------------------------------------------------
(* What the steps do to the speech on its way.                             *)

Speech == <<frames, playerIndex, fed, data, reached, job>>

\* Nothing moves, and no thread comes to where it queues or delivers.
QuietStep ==
    /\ UNCHANGED Speech
    /\ bg' = "tail" => bg = "tail"
    /\ MarkerComes' => MarkerComes
    /\ Pending' => Pending

\* The running job queues a frame.
Queues(f) == frames' = Append(frames, f) /\ UNCHANGED <<playerIndex, fed, data, reached, job, audio>>
SoundStep  == MarkerComes /\ bg' # "tail" /\ Queues(Sound(job.utt))
MarkerStep == bg = "marker" /\ bg' = "tail" /\ Queues(Marker(job.utt))
TailStep   == bg = "tail" /\ bg' = "allQueued" /\ Queues(Sound(job.utt))

TakeStep ==
    /\ job.utt < job'.utt /\ bg' \in {"chunk", "notify"}
    /\ UNCHANGED <<frames, playerIndex, fed, data, reached, audio>>
PurgeStep ==
    frames' = <<Silence>> /\ UNCHANGED <<playerIndex, fed, data, reached, job, audio, bg>>
SynthesizeStep ==
    /\ ~Pending /\ data'.index = playerIndex'
    /\ \E n \in 0 .. Len(frames) : Takes(n)
    /\ UNCHANGED <<fed, reached, job, bg>>
FeedStep ==
    /\ Pending /\ ~Pending' /\ fed' = Append(fed, data)
    /\ UNCHANGED <<frames, playerIndex, data, reached, job, bg>>
StopStep == fed' = <<>> /\ UNCHANGED <<frames, playerIndex, data, reached, job, audio, bg>>
PlayStep == PlayChunk /\ UNCHANGED <<frames, playerIndex, data, job, audio, bg>>

LEMMA SpeechSteps ==
    ASSUME DriverTypeOK, JobsInOrder, [Next]_vars
    PROVE  \/ QuietStep \/ SoundStep \/ MarkerStep \/ TailStep \/ TakeStep \/ PurgeStep
           \/ SynthesizeStep \/ FeedStep \/ StopStep \/ PlayStep
<1> USE DEF Speech, mainVars, bgVars, audioVars, shared, history
<1>1. CASE UNCHANGED vars
  BY <1>1 DEF vars, QuietStep, MarkerComes, Pending
<1>2. CASE Main
  <2>1. CASE Speak \/ CancelPolling \/ CancelSpeaking \/ CancelGeneration \/ CancelJobs \/ CancelKick
    <3>1. UNCHANGED <<frames, playerIndex, fed, data, reached, job, bg, audio>>
      BY <2>1 DEF Speak, CancelPolling, CancelSpeaking, CancelGeneration, CancelJobs, CancelKick
    <3> QED BY <3>1 DEF QuietStep, MarkerComes, Pending
  <2>2. CancelPlayback => StopStep
    BY DEF CancelPlayback, StopStep
  <2>3. CancelFrames => PurgeStep
    BY DEF CancelFrames, PurgeStep
  <2> QED BY <1>2, <2>1, <2>2, <2>3 DEF Main
<1>3. CASE BgStep \/ BgError
  <2> USE DEF OthersByBg, BgGoto
  <2>1. TakeJob => TakeStep
    BY TakeJobFacts DEF TakeJob, TakeStep
  <2> USE DEF QuietStep, MarkerComes, Pending
  <2>2. NotifyIndexesAndDone => QuietStep  BY DEF NotifyIndexesAndDone
  <2>3. NextChunk => QuietStep  BY DEF NextChunk
  <2>4. OnFrame => QuietStep  BY DEF OnFrame
  <2>5. QueueSound => SoundStep  BY DEF QueueSound, SoundStep, Queues
  <2>6. CheckKick => QuietStep  BY DEF CheckKick
  <2>7. SetPending => QuietStep  BY DEF SetPending
  <2>8. SetSpeaking => QuietStep  BY DEF SetSpeaking
  <2>9. RecheckKick => QuietStep  BY DEF RecheckKick
  <2>10. UnsetSpeaking => QuietStep  BY DEF UnsetSpeaking
  <2>11. Kick => QuietStep  BY DEF Kick
  <2>12. ClauseDone => QuietStep \/ SoundStep  BY DEF ClauseDone, SoundStep, Queues
  <2>13. QueueMarker => MarkerStep  BY DEF QueueMarker, MarkerStep, Queues
  <2>14. QueueTail => QuietStep \/ TailStep  BY DEF QueueTail, TailStep, Queues
  <2>15. SetAllQueued => QuietStep  BY DEF SetAllQueued
  <2>16. FinalCheck => QuietStep  BY DEF FinalCheck
  <2>17. BgError => QuietStep  BY DEF BgError
  <2> QED BY <1>3, <2>1, <2>2, <2>3, <2>4, <2>5, <2>6, <2>7, <2>8, <2>9, <2>10, <2>11, <2>12,
             <2>13, <2>14, <2>15, <2>16, <2>17 DEF BgStep
<1>4. CASE AudioStep
  <2> USE DEF OthersByAudio
  <2>1. Synthesize => SynthesizeStep
    <3> SUFFICES ASSUME Synthesize PROVE SynthesizeStep
      OBVIOUS
    <3>1. data'.index = playerIndex' /\ \E n \in 0 .. Len(frames) : Takes(n)
      BY SynthesizeFacts
    <3>2. audio = "synthesize" /\ UNCHANGED <<fed, reached, job, bg>>
      BY DEF Synthesize
    <3> QED BY <3>1, <3>2 DEF SynthesizeStep, Pending
  <2> USE DEF Pending
  <2>2. Feed \/ FeedIndex => FeedStep
    BY DEF Feed, FeedIndex, FeedStep
  <2> USE DEF QuietStep, MarkerComes
  <2>3. Woken => QuietStep  BY DEF Woken
  <2>4. ClearWake => QuietStep  BY DEF ClearWake
  <2>5. LoopTest => QuietStep  BY DEF LoopTest
  <2>6. RecheckSpeaking => QuietStep  BY DEF RecheckSpeaking
  <2>7. OutOfAudio => QuietStep  BY DEF OutOfAudio
  <2>8. ExitTest => QuietStep  BY DEF ExitTest
  <2>9. IdlePlayer => QuietStep  BY DEF IdlePlayer
  <2>10. NotifyDone => QuietStep  BY DEF NotifyDone
  <2>11. ClearSpeaking => QuietStep  BY DEF ClearSpeaking
  <2> QED BY <1>4, <2>1, <2>2, <2>3, <2>4, <2>5, <2>6, <2>7, <2>8, <2>9, <2>10, <2>11
          DEF AudioStep
<1>5. PlayChunk => PlayStep
  BY DEF PlayChunk, PlayStep
<1> QED BY <1>1, <1>2, <1>3, <1>4, <1>5 DEF Next

\* The frames after a step: the old ones, and the new one behind them.
LEMMA QueuesFacts ==
    ASSUME frames \in Seq(Frames), NEW f, Queues(f)
    PROVE  \A k \in DOMAIN frames' :
              \/ k \in DOMAIN frames /\ frames'[k] = frames[k] /\ k < Len(frames) + 1
              \/ k = Len(frames) + 1 /\ frames'[k] = f
  BY DEF Queues

Leaves(n) ==
    /\ \A k \in DOMAIN frames' : n + k \in DOMAIN frames /\ frames'[k] = frames[n + k] /\ k > 0
    /\ \A k \in 1 .. n : k \in DOMAIN frames
    /\ DOMAIN frames' \subseteq Nat

LEMMA TakesFacts ==
    ASSUME DriverTypeOK, DriverTypeOK', SynthesizeStep
    PROVE  \E n \in Nat : Takes(n) /\ Leaves(n)
<1>1. PICK n \in 0 .. Len(frames) : Takes(n)
  BY DEF SynthesizeStep
<1>2. frames \in Seq(Frames) /\ frames' \in Seq(Frames)
  BY DEF DriverTypeOK
<1>3. n \in Nat /\ Leaves(n)
  BY <1>1, <1>2 DEF Takes, Leaves
<1> QED BY <1>1, <1>3

LEMMA Values ==
    ASSUME DriverTypeOK
    PROVE  /\ frames \in Seq(Frames) /\ fed \in Seq(Pieces) /\ reached \in Seq(Utterances)
           /\ DOMAIN frames \subseteq Nat \ {0} /\ DOMAIN fed \subseteq Nat \ {0}
           /\ \A k \in DOMAIN frames : /\ frames[k].utt \in Nat /\ frames[k].index \in Int
                                       /\ frames[k].index # NoIndex => frames[k].index > 0
           /\ \A i \in DOMAIN fed : fed[i].utts \subseteq Nat /\ fed[i].index \in Int
           /\ data.utts \subseteq Nat /\ playerIndex \in Int /\ job.utt \in Nat
           /\ \A k \in DOMAIN reached : reached[k] \in Nat \ {0}
<1>1. /\ frames \in Seq(Frames) /\ fed \in Seq(Pieces) /\ reached \in Seq(Utterances)
      /\ data \in Pieces /\ playerIndex \in Indices /\ job \in Jobs
  BY DEF DriverTypeOK
<1>2. \A f \in Frames : f.utt \in Nat /\ f.index \in Int /\ (f.index # NoIndex => f.index > 0)
  BY DriverAssumption DEF Frames, Indices, Utterances, NoIndex
<1>3. \A d \in Pieces : d.utts \subseteq Nat /\ d.index \in Int
  BY DriverAssumption DEF Pieces, Indices, Utterances, NoIndex
<1>4. playerIndex \in Int /\ job.utt \in Nat
  BY <1>1, DriverAssumption DEF Indices, Utterances, NoIndex, Jobs
<1>5. /\ \A k \in DOMAIN frames : frames[k] \in Frames
      /\ \A i \in DOMAIN fed : fed[i] \in Pieces
      /\ \A k \in DOMAIN reached : reached[k] \in Utterances
      /\ DOMAIN frames \subseteq Nat \ {0} /\ DOMAIN fed \subseteq Nat \ {0}
  BY <1>1
<1>6. Utterances \subseteq Nat \ {0}
  BY DriverAssumption DEF Utterances
<1> QED BY <1>1, <1>2, <1>3, <1>4, <1>5, <1>6

-----------------------------------------------------------------------------
(* The speech keeps its order.                                             *)

LEMMA NextFramesInOrder ==
    ASSUME DriverTypeOK, DriverTypeOK', JobsInOrder, FramesInOrder, MarkersInOrder, [Next]_vars
    PROVE  FramesInOrder'
<1> USE Values DEF FramesInOrder
<1>1. CASE QuietStep \/ FeedStep \/ StopStep \/ PlayStep
  BY <1>1 DEF QuietStep, FeedStep, StopStep, PlayStep, Speech
<1>2. ASSUME NEW f, Queues(f), f.utt = job.utt PROVE FramesInOrder'
  <2>1. \A k \in DOMAIN frames' :
           \/ k \in DOMAIN frames /\ frames'[k] = frames[k] /\ k < Len(frames) + 1
           \/ k = Len(frames) + 1 /\ frames'[k] = f
    BY <1>2, QueuesFacts
  <2>2. playerIndex' = playerIndex /\ job' = job
    BY <1>2 DEF Queues
  <2>3. \A k \in DOMAIN frames' : /\ frames'[k].utt <= job'.utt
                                  /\ frames'[k].utt # NoUtterance => playerIndex' <= frames'[k].utt
    BY <1>2, <2>1, <2>2
  <2>4. ASSUME NEW j \in DOMAIN frames', NEW k \in DOMAIN frames', j < k,
               frames'[k].utt # NoUtterance
        PROVE  frames'[j].utt <= frames'[k].utt
    <3>1. Len(frames) \in Nat
      OBVIOUS
    <3>2. j \in DOMAIN frames /\ frames'[j] = frames[j]
      BY <2>1, <2>4, <3>1
    <3> QED BY <1>2, <2>1, <2>4, <3>2
  <2> QED BY <2>2, <2>3, <2>4
<1>3. CASE SoundStep \/ MarkerStep \/ TailStep
  BY <1>2, <1>3 DEF SoundStep, MarkerStep, TailStep, Sound, Marker
<1>4. CASE TakeStep
  <2>1. job'.utt \in Nat
    BY DEF DriverTypeOK, Jobs
  <2> QED BY <1>4, <2>1 DEF TakeStep
<1>5. CASE PurgeStep
  <2>1. DOMAIN frames' = {1} /\ frames'[1].utt = NoUtterance
    BY <1>5 DEF PurgeStep, Silence, Sound
  <2> QED BY <1>5, <2>1 DEF PurgeStep, NoUtterance
<1>6. CASE SynthesizeStep
  <2>1. PICK n \in Nat : Takes(n) /\ Leaves(n)
    BY <1>6, TakesFacts
  <2>2. /\ \A k \in DOMAIN frames' :
             n + k \in DOMAIN frames /\ frames'[k] = frames[n + k] /\ k > 0
        /\ \A k \in 1 .. n : k \in DOMAIN frames
        /\ n \in Nat /\ DOMAIN frames' \subseteq Nat
    BY <2>1 DEF Leaves
  <2>3. job' = job
    BY <1>6 DEF SynthesizeStep
  <2>4. \/ playerIndex' = playerIndex
        \/ \E k \in 1 .. n : frames[k].index # NoIndex /\ playerIndex' = frames[k].utt
    <3>1. \A k \in 1 .. n : frames[k].index # NoIndex => frames[k].index = frames[k].utt
      BY <2>2 DEF MarkersInOrder
    <3> QED BY <2>1, <3>1 DEF Takes
  <2>5. playerIndex' <= job'.utt
    BY <2>2, <2>3, <2>4
  <2>6. ASSUME NEW k \in DOMAIN frames', frames'[k].utt # NoUtterance
        PROVE  playerIndex' <= frames'[k].utt
    <3>1. CASE playerIndex' = playerIndex
      BY <2>2, <2>6, <3>1
    <3>2. ASSUME NEW m \in 1 .. n, playerIndex' = frames[m].utt
          PROVE  playerIndex' <= frames'[k].utt
      <4>1. m \in DOMAIN frames /\ n + k \in DOMAIN frames /\ m < n + k
        BY <2>2
      <4> QED BY <2>2, <2>6, <3>2, <4>1
    <3> QED BY <2>4, <3>1, <3>2
  <2>7. \A k \in DOMAIN frames' : frames'[k].utt <= job'.utt
    BY <2>2, <2>3
  <2>8. ASSUME NEW j \in DOMAIN frames', NEW k \in DOMAIN frames', j < k,
               frames'[k].utt # NoUtterance
        PROVE  frames'[j].utt <= frames'[k].utt
    <3>1. n + j < n + k
      BY <2>2, <2>8
    <3> QED BY <2>2, <2>8, <3>1
  <2> QED BY <2>5, <2>6, <2>7, <2>8
<1> QED BY <1>1, <1>3, <1>4, <1>5, <1>6, SpeechSteps

LEMMA NextAudioInOrder ==
    ASSUME DriverTypeOK, DriverTypeOK', JobsInOrder, FramesInOrder, AudioInOrder, [Next]_vars
    PROVE  AudioInOrder'
<1> USE Values
<1>1. CASE QuietStep
  BY <1>1 DEF QuietStep, Speech, AudioInOrder, InFront
<1>2. ASSUME NEW utts, utts \subseteq Nat, InFront(utts), UNCHANGED job,
             \A k \in DOMAIN frames' : /\ frames'[k].utt \in Nat
                                       /\ \/ frames'[k].utt \in {NoUtterance, job.utt}
                                          \/ \E j \in DOMAIN frames : frames'[k] = frames[j]
      PROVE  InFront(utts)'
  BY <1>2 DEF InFront
<1>3. ASSUME UNCHANGED <<data, fed, job>>,
             \A k \in DOMAIN frames' : /\ frames'[k].utt \in Nat
                                       /\ \/ frames'[k].utt \in {NoUtterance, job.utt}
                                          \/ \E j \in DOMAIN frames : frames'[k] = frames[j]
      PROVE  AudioInOrder'
  <2>1. InFront(data.utts)'
    BY <1>2, <1>3 DEF AudioInOrder
  <2>2. ASSUME NEW i \in DOMAIN fed PROVE InFront(fed[i].utts)'
    BY <1>2, <1>3 DEF AudioInOrder
  <2> QED BY <1>3, <2>1, <2>2 DEF AudioInOrder
<1>4. CASE SoundStep \/ MarkerStep \/ TailStep
  <2>1. PICK f : Queues(f) /\ f.utt = job.utt
    BY <1>4 DEF SoundStep, MarkerStep, TailStep, Sound, Marker
  <2>2. \A k \in DOMAIN frames' :
           \/ k \in DOMAIN frames /\ frames'[k] = frames[k]
           \/ frames'[k] = f
    BY <2>1, QueuesFacts
  <2>3. UNCHANGED <<data, fed, job>>
    BY <2>1 DEF Queues
  <2> QED BY <1>3, <2>1, <2>2, <2>3
<1>5. CASE TakeStep
  <2>1. job'.utt \in Nat
    BY DEF DriverTypeOK, Jobs
  <2> QED BY <1>5, <2>1 DEF TakeStep, AudioInOrder, InFront
<1>6. CASE PurgeStep
  <2>1. DOMAIN frames' = {1} /\ frames'[1].utt = NoUtterance /\ NoUtterance \in Nat
    BY <1>6 DEF PurgeStep, Silence, Sound, NoUtterance
  <2> QED BY <1>3, <1>6, <2>1 DEF PurgeStep
<1>7. CASE SynthesizeStep
  <2>1. PICK n \in Nat : Takes(n) /\ Leaves(n)
    BY <1>7, TakesFacts
  <2>2. /\ \A k \in DOMAIN frames' :
             n + k \in DOMAIN frames /\ frames'[k] = frames[n + k] /\ k > 0
        /\ \A k \in 1 .. n : k \in DOMAIN frames
        /\ n \in Nat /\ DOMAIN frames' \subseteq Nat
    BY <2>1 DEF Leaves
  <2>3. UNCHANGED <<fed, job>>
    BY <1>7 DEF SynthesizeStep
  <2>4. data'.utts = {frames[k].utt : k \in 1 .. n}
    BY <2>1 DEF Takes
  <2>5. ASSUME NEW m \in 1 .. n
        PROVE  /\ frames[m].utt <= job'.utt
               /\ \A k \in DOMAIN frames' : frames'[k].utt # NoUtterance =>
                                               frames[m].utt <= frames'[k].utt
    <3>1. m \in DOMAIN frames /\ \A k \in DOMAIN frames' : m < n + k
      BY <2>2
    <3> QED BY <2>2, <2>3, <3>1 DEF FramesInOrder
  <2>6. InFront(data.utts)'
    BY <2>4, <2>5 DEF InFront
  <2>7. ASSUME NEW i \in DOMAIN fed PROVE InFront(fed[i].utts)'
    BY <1>2, <2>2, <2>3 DEF AudioInOrder
  <2> QED BY <2>3, <2>6, <2>7 DEF AudioInOrder
<1>8. CASE FeedStep
  <2>1. \A i \in DOMAIN fed' : \/ i \in DOMAIN fed /\ fed'[i] = fed[i]
                               \/ fed'[i] = data
    BY <1>8 DEF FeedStep
  <2>2. UNCHANGED <<frames, data, job>>
    BY <1>8 DEF FeedStep
  <2> QED BY <2>1, <2>2 DEF AudioInOrder, InFront
<1>9. CASE StopStep
  <2>1. DOMAIN fed' = {}
    BY <1>9 DEF StopStep
  <2> QED BY <1>9, <2>1 DEF StopStep, AudioInOrder, InFront
<1>10. CASE PlayStep
  <2>1. \A i \in DOMAIN fed' : i + 1 \in DOMAIN fed /\ fed'[i] = fed[i + 1]
    BY <1>10 DEF PlayStep, PlayChunk
  <2> QED BY <1>10, <2>1 DEF PlayStep, AudioInOrder, InFront
<1> QED BY <1>1, <1>4, <1>5, <1>6, <1>7, <1>8, <1>9, <1>10, SpeechSteps

LEMMA NextMarkersInOrder ==
    ASSUME DriverTypeOK, DriverTypeOK', JobsInOrder, FramesInOrder, MarkersInOrder, [Next]_vars
    PROVE  MarkersInOrder'
<1> USE Values
<1>1. CASE QuietStep
  BY <1>1 DEF QuietStep, Speech, MarkersInOrder, TailComes
<1>2. CASE FeedStep \/ StopStep \/ PlayStep
  BY <1>2 DEF FeedStep, StopStep, PlayStep, MarkersInOrder, TailComes, MarkerComes
<1>3. CASE SoundStep \/ MarkerStep
  <2>1. PICK f : Queues(f) /\ f.utt = job.utt /\ f.index \in {NoIndex, f.utt}
    BY <1>3 DEF SoundStep, MarkerStep, Sound, Marker
  <2>2. \A k \in DOMAIN frames' :
           \/ k \in DOMAIN frames /\ frames'[k] = frames[k] /\ k < Len(frames) + 1
           \/ k = Len(frames) + 1 /\ frames'[k] = f
    BY <2>1, QueuesFacts
  <2>3. UNCHANGED <<playerIndex, job>> /\ Len(frames) \in Nat
    BY <2>1 DEF Queues
  <2>4. MarkerComes /\ playerIndex < job.utt
        /\ \A k \in DOMAIN frames : frames[k].index # job.utt
    BY <1>3 DEF SoundStep, MarkerStep, MarkerComes, MarkersInOrder
  <2>5. \A k \in DOMAIN frames' : frames'[k].index # NoIndex => frames'[k].index = frames'[k].utt
    BY <2>1, <2>2 DEF MarkersInOrder
  <2>6. ASSUME NEW j \in DOMAIN frames', NEW k \in DOMAIN frames', j < k,
               frames'[j].index # NoIndex, frames'[k].utt = frames'[j].index
        PROVE  /\ frames'[k].index = NoIndex /\ ~(bg' = "tail" /\ job'.utt = frames'[k].utt)
               /\ \A l \in DOMAIN frames' : j < l /\ frames'[l].utt = frames'[k].utt => l = k
    <3>1. j \in DOMAIN frames /\ frames'[j] = frames[j]
      BY <2>2, <2>3, <2>6
    <3>2. frames'[j].index # job.utt
      BY <2>4, <3>1
    <3>3. \A l \in DOMAIN frames' : frames'[l].utt = frames'[k].utt =>
             l \in DOMAIN frames /\ frames'[l] = frames[l]
      BY <2>1, <2>2, <2>6, <3>2
    <3>4. ~(bg' = "tail" /\ job'.utt = frames'[k].utt)
      BY <2>3, <2>6, <3>2 DEF TailComes
    <3> QED BY <2>6, <3>1, <3>3, <3>4 DEF MarkersInOrder
  <2>7. MarkerComes' => \A k \in DOMAIN frames' : frames'[k].index # job'.utt
    <3>1. CASE SoundStep
      <4>1. f.index = NoIndex
        <5>1. Append(frames, f) = Append(frames, Sound(job.utt))
          BY <2>1, <3>1 DEF SoundStep, Queues
        <5> QED BY <5>1 DEF Sound
      <4> QED BY <2>2, <2>3, <2>4, <4>1 DEF NoIndex
    <3>2. CASE MarkerStep
      BY <3>2 DEF MarkerStep, MarkerComes
    <3> QED BY <1>3, <3>1, <3>2
  <2>8. MarkerComes' => playerIndex' < job'.utt
    BY <2>3, <2>4
  <2> QED BY <2>5, <2>6, <2>7, <2>8 DEF MarkersInOrder, TailComes
<1>4. CASE TailStep
  <2>1. Queues(Sound(job.utt)) /\ TailComes(job.utt) /\ \A u : ~TailComes(u)' /\ ~MarkerComes'
    BY <1>4 DEF TailStep, TailComes, MarkerComes
  <2>2. \A k \in DOMAIN frames' :
           \/ k \in DOMAIN frames /\ frames'[k] = frames[k] /\ k < Len(frames) + 1
           \/ k = Len(frames) + 1 /\ frames'[k] = Sound(job.utt)
    BY <2>1, QueuesFacts
  <2>3. Len(frames) \in Nat /\ Sound(job.utt).index = NoIndex /\ Sound(job.utt).utt = job.utt
    BY DEF Sound
  <2>4. \A k \in DOMAIN frames' : frames'[k].index # NoIndex => frames'[k].index = frames'[k].utt
    BY <2>2, <2>3 DEF MarkersInOrder
  <2>5. ASSUME NEW j \in DOMAIN frames', NEW k \in DOMAIN frames', j < k,
               frames'[j].index # NoIndex, frames'[k].utt = frames'[j].index
        PROVE  /\ frames'[k].index = NoIndex
               /\ \A l \in DOMAIN frames' : j < l /\ frames'[l].utt = frames'[k].utt => l = k
    <3>1. j \in DOMAIN frames /\ frames'[j] = frames[j]
      BY <2>2, <2>3, <2>5
    <3>2. ASSUME frames[j].index = job.utt
          PROVE  \A l \in DOMAIN frames : j < l => frames[l].utt # job.utt
      BY <2>1, <2>5, <3>1, <3>2 DEF MarkersInOrder
    <3>3. CASE frames[j].index = job.utt
      BY <2>2, <2>3, <2>5, <3>1, <3>2, <3>3
    <3>4. CASE frames[j].index # job.utt
      <4>1. \A l \in DOMAIN frames' : frames'[l].utt = frames'[k].utt =>
               l \in DOMAIN frames /\ frames'[l] = frames[l]
        BY <2>2, <2>3, <2>5, <3>1, <3>4
      <4> QED BY <2>5, <3>1, <4>1 DEF MarkersInOrder
    <3> QED BY <3>3, <3>4
  <2> QED BY <2>1, <2>4, <2>5 DEF MarkersInOrder
<1>5. CASE TakeStep
  <2>1. \A u : ~TailComes(u)'
    BY <1>5 DEF TakeStep, TailComes
  <2>2. job'.utt \in Nat /\ job.utt < job'.utt /\ UNCHANGED <<frames, playerIndex>>
    BY <1>5 DEF TakeStep, DriverTypeOK, Jobs
  <2>3. playerIndex < job'.utt
    BY <2>2 DEF FramesInOrder
  <2>4. \A k \in DOMAIN frames : frames[k].index # job'.utt
    BY <2>2 DEF FramesInOrder, MarkersInOrder, NoIndex
  <2> QED BY <2>1, <2>2, <2>3, <2>4 DEF MarkersInOrder
<1>6. CASE PurgeStep
  <2>1. DOMAIN frames' = {1} /\ frames'[1].utt = NoUtterance /\ frames'[1].index = NoIndex
    BY <1>6 DEF PurgeStep, Silence, Sound
  <2>2. UNCHANGED <<playerIndex, job, bg>>
    BY <1>6 DEF PurgeStep
  <2> QED BY <2>1, <2>2 DEF MarkersInOrder, MarkerComes, NoIndex
<1>7. CASE SynthesizeStep
  <2>1. PICK n \in Nat : Takes(n) /\ Leaves(n)
    BY <1>7, TakesFacts
  <2>2. /\ \A k \in DOMAIN frames' :
             n + k \in DOMAIN frames /\ frames'[k] = frames[n + k] /\ k > 0
        /\ \A k \in 1 .. n : k \in DOMAIN frames
        /\ n \in Nat /\ DOMAIN frames' \subseteq Nat
    BY <2>1 DEF Leaves
  <2>3. UNCHANGED <<job, bg>>
    BY <1>7 DEF SynthesizeStep
  <2>4. \A k \in DOMAIN frames' : frames'[k].index # NoIndex => frames'[k].index = frames'[k].utt
    BY <2>2 DEF MarkersInOrder
  <2>5. ASSUME NEW j \in DOMAIN frames', NEW k \in DOMAIN frames', j < k,
               frames'[j].index # NoIndex, frames'[k].utt = frames'[j].index
        PROVE  /\ frames'[k].index = NoIndex /\ ~(bg' = "tail" /\ job'.utt = frames'[k].utt)
               /\ \A l \in DOMAIN frames' : j < l /\ frames'[l].utt = frames'[k].utt => l = k
    <3>1. n + j < n + k /\ \A l \in DOMAIN frames' : (j < l => n + j < n + l)
      BY <2>2, <2>5
    <3>2. /\ frames[n + k].index = NoIndex /\ ~TailComes(frames[n + k].utt)
          /\ \A l \in DOMAIN frames : n + j < l /\ frames[l].utt = frames[n + k].utt => l = n + k
      BY <2>2, <2>5, <3>1 DEF MarkersInOrder
    <3>3. ASSUME NEW l \in DOMAIN frames', j < l, frames'[l].utt = frames'[k].utt
          PROVE  l = k
      <4>1. n + l \in DOMAIN frames /\ n + j < n + l /\ frames[n + l].utt = frames[n + k].utt
        BY <2>2, <3>1, <3>3
      <4>2. n + l = n + k
        BY <3>2, <4>1
      <4> QED BY <2>2, <4>2
    <3> QED BY <2>2, <2>3, <3>2, <3>3 DEF TailComes
  <2>6. ASSUME MarkerComes'
        PROVE  playerIndex' < job'.utt /\ \A k \in DOMAIN frames' : frames'[k].index # job'.utt
    <3>1. MarkerComes
      BY <2>3, <2>6 DEF MarkerComes
    <3>2. playerIndex < job.utt /\ \A k \in DOMAIN frames : frames[k].index # job.utt
      BY <3>1 DEF MarkersInOrder
    <3>3. \A k \in 1 .. n : frames[k].index # NoIndex => frames[k].index < job.utt
      BY <2>2, <3>2 DEF MarkersInOrder, FramesInOrder
    <3>4. playerIndex' < job.utt
      BY <2>1, <3>2, <3>3 DEF Takes
    <3> QED BY <2>2, <2>3, <3>2, <3>4
  <2> QED BY <2>4, <2>5, <2>6 DEF MarkersInOrder, TailComes
<1> QED BY <1>1, <1>2, <1>3, <1>4, <1>5, <1>6, <1>7, SpeechSteps

-----------------------------------------------------------------------------
(* Of what was passed, only the tail is left.                              *)

\* What is left of an utterance whose marker the player met stays that little, except that
\* playing a chunk renumbers the others.
LEMMA OnlyTailStays ==
    ASSUME DriverTypeOK, DriverTypeOK', JobsInOrder, MarkersInOrder, [Next]_vars,
           NEW u \in Nat \ {0}, u <= playerIndex, NEW i \in Nat, OnlyTail(u, i), ~PlayStep
    PROVE  OnlyTail(u, i)'
<1> USE Values
<1>1. CASE QuietStep
  BY <1>1 DEF QuietStep, Speech, OnlyTail, TailComes
<1>2. CASE SoundStep \/ MarkerStep
  <2>1. PICK f : Queues(f) /\ f.utt = job.utt
    BY <1>2 DEF SoundStep, MarkerStep, Sound, Marker
  <2>2. \A k \in DOMAIN frames' :
           \/ k \in DOMAIN frames /\ frames'[k] = frames[k]
           \/ frames'[k] = f
    BY <2>1, QueuesFacts
  <2>3. MarkerComes /\ u < job.utt
    BY <1>2 DEF SoundStep, MarkerStep, MarkerComes, MarkersInOrder
  <2>4. UNCHANGED <<fed, data, job, audio>>
    BY <2>1 DEF Queues
  <2>5. ~TailComes(u)'
    BY <2>3, <2>4 DEF TailComes
  <2>6. \A k \in DOMAIN frames' : frames'[k].utt = u => k \in DOMAIN frames /\ frames[k].utt = u
    BY <2>1, <2>2, <2>3
  <2>7. UNCHANGED Pending
    BY <2>4 DEF Pending
  <2> QED BY <2>4, <2>5, <2>6, <2>7 DEF OnlyTail
<1>3. CASE TailStep
  <2>1. Queues(Sound(job.utt)) /\ TailComes(job.utt) /\ ~TailComes(u)'
    BY <1>3 DEF TailStep, TailComes
  <2>2. \A k \in DOMAIN frames' :
           \/ k \in DOMAIN frames /\ frames'[k] = frames[k]
           \/ k = Len(frames) + 1 /\ frames'[k].utt = job.utt
    BY <2>1, QueuesFacts DEF Sound
  <2>3. UNCHANGED <<fed, data, job, audio, Pending>>
    BY <2>1 DEF Queues, Pending
  <2>4. CASE u = job.utt
    <3>1. \A k \in DOMAIN frames' : frames'[k].utt = u => k = Len(frames) + 1
      BY <2>1, <2>2, <2>4 DEF OnlyTail
    <3>2. /\ Pending => u \notin data.utts
          /\ \A j \in DOMAIN fed : i < j => u \notin fed[j].utts
      BY <2>1, <2>4 DEF OnlyTail
    <3> QED BY <2>1, <2>3, <3>1, <3>2 DEF OnlyTail
  <2>5. CASE u # job.utt
    <3>1. \A k \in DOMAIN frames' : frames'[k].utt = u => k \in DOMAIN frames /\ frames[k].utt = u
      BY <2>2, <2>5
    <3> QED BY <2>1, <2>3, <3>1 DEF OnlyTail
  <2> QED BY <2>4, <2>5
<1>4. CASE TakeStep
  <2>1. ~TailComes(u)' /\ UNCHANGED <<frames, fed, data, audio, Pending>>
    BY <1>4 DEF TakeStep, TailComes, Pending
  <2> QED BY <2>1 DEF OnlyTail
<1>5. CASE PurgeStep
  <2>1. DOMAIN frames' = {1} /\ frames'[1].utt # u
    BY <1>5 DEF PurgeStep, Silence, Sound, NoUtterance
  <2>2. UNCHANGED <<fed, data, job, bg, audio, Pending>>
    BY <1>5 DEF PurgeStep, Pending
  <2>3. (TailComes(u))' = TailComes(u)
    BY <2>2 DEF TailComes
  <2> QED BY <2>1, <2>2, <2>3 DEF OnlyTail
<1>6. CASE SynthesizeStep
  <2>1. PICK n \in Nat : Takes(n) /\ Leaves(n)
    BY <1>6, TakesFacts
  <2>2. /\ \A k \in DOMAIN frames' :
             n + k \in DOMAIN frames /\ frames'[k] = frames[n + k] /\ k > 0
        /\ \A k \in 1 .. n : k \in DOMAIN frames
        /\ n \in Nat /\ DOMAIN frames' \subseteq Nat
    BY <2>1 DEF Leaves
  <2>3. UNCHANGED <<fed, job, bg>> /\ ~Pending
    BY <1>6 DEF SynthesizeStep
  <2>4. (TailComes(u))' = TailComes(u)
    BY <2>3 DEF TailComes
  <2>5. u \in data'.utts => \E k \in 1 .. n : frames[k].utt = u
    BY <2>1 DEF Takes
  <2>6. ASSUME NEW j \in DOMAIN frames', NEW k \in DOMAIN frames',
               frames'[j].utt = u, frames'[k].utt = u
        PROVE  j = k
    <3>1. n + j = n + k
      BY <2>2, <2>6 DEF OnlyTail
    <3> QED BY <2>2, <3>1
  <2>7. ASSUME NEW k \in DOMAIN frames', frames'[k].utt = u
        PROVE  /\ ~TailComes(u) /\ u \notin data'.utts
               /\ \A j \in DOMAIN fed : i < j => u \notin fed[j].utts
    <3>1. n + k \in DOMAIN frames /\ frames[n + k].utt = u
      BY <2>2, <2>7
    <3>2. \A m \in 1 .. n : frames[m].utt # u
      <4>1. \A m \in 1 .. n : m # n + k
        BY <2>2
      <4> QED BY <2>2, <3>1, <4>1 DEF OnlyTail
    <3> QED BY <2>5, <3>1, <3>2 DEF OnlyTail
  <2>8. ASSUME u \in data'.utts
        PROVE  /\ ~TailComes(u)
               /\ \A j \in DOMAIN fed : i < j => u \notin fed[j].utts
    BY <2>2, <2>5, <2>8 DEF OnlyTail
  <2>9. \A j, k \in DOMAIN fed :
           i < j /\ i < k /\ u \in fed[j].utts /\ u \in fed[k].utts => j = k
    BY DEF OnlyTail
  <2>10. \A j \in DOMAIN fed : i < j /\ u \in fed[j].utts => ~TailComes(u) /\ u \notin data'.utts
    BY <2>8 DEF OnlyTail
  <2> QED BY <2>3, <2>4, <2>6, <2>7, <2>8, <2>9, <2>10 DEF OnlyTail
<1>7. CASE FeedStep
  <2>1. \A j \in DOMAIN fed' : \/ j \in DOMAIN fed /\ fed'[j] = fed[j]
                               \/ j = Len(fed) + 1 /\ fed'[j] = data
    BY <1>7 DEF FeedStep
  <2>2. UNCHANGED <<frames, data, job, bg>> /\ Pending /\ ~Pending'
    BY <1>7 DEF FeedStep
  <2>3. (TailComes(u))' = TailComes(u)
    BY <2>2 DEF TailComes
  <2>4. \A j, k \in DOMAIN fed' :
           i < j /\ i < k /\ u \in fed'[j].utts /\ u \in fed'[k].utts => j = k
    BY <2>1, <2>2 DEF OnlyTail
  <2>5. \A k \in DOMAIN frames :
          frames[k].utt = u => /\ ~TailComes(u)
                               /\ \A j \in DOMAIN fed' : i < j => u \notin fed'[j].utts
    BY <2>1, <2>2 DEF OnlyTail
  <2>6. \A j \in DOMAIN fed' : i < j /\ u \in fed'[j].utts => ~TailComes(u)
    BY <2>1, <2>2 DEF OnlyTail
  <2> QED BY <2>2, <2>3, <2>4, <2>5, <2>6 DEF OnlyTail
<1>8. CASE StopStep
  <2>1. DOMAIN fed' = {}
    BY <1>8 DEF StopStep
  <2>2. UNCHANGED <<frames, data, job, bg, audio, Pending>>
    BY <1>8 DEF StopStep, Pending
  <2>3. (TailComes(u))' = TailComes(u)
    BY <2>2 DEF TailComes
  <2> QED BY <2>1, <2>2, <2>3 DEF OnlyTail
<1> QED BY <1>1, <1>2, <1>3, <1>4, <1>5, <1>6, <1>7, <1>8, SpeechSteps

\* Playing a chunk takes number 1 off, so what was behind number i + 1 is behind number i.
LEMMA OnlyTailMoves ==
    ASSUME DriverTypeOK, PlayStep, NEW u \in Nat, NEW i \in Nat, OnlyTail(u, i + 1)
    PROVE  OnlyTail(u, i)'
<1> USE Values
<1>1. \A j \in DOMAIN fed' : j \in Nat /\ j + 1 \in DOMAIN fed /\ fed'[j] = fed[j + 1]
  BY DEF PlayStep, PlayChunk
<1>2. UNCHANGED <<frames, data, job, bg, audio, Pending>>
  BY DEF PlayStep, Pending
<1>3. (TailComes(u))' = TailComes(u)
  BY <1>2 DEF TailComes
<1>4. ASSUME NEW j \in DOMAIN fed', NEW k \in DOMAIN fed', i < j, i < k,
             u \in fed'[j].utts, u \in fed'[k].utts
      PROVE  j = k
  <2>1. i + 1 < j + 1 /\ i + 1 < k + 1 /\ j + 1 \in DOMAIN fed /\ k + 1 \in DOMAIN fed
        /\ u \in fed[j + 1].utts /\ u \in fed[k + 1].utts
    BY <1>1, <1>4
  <2>2. j + 1 = k + 1
    BY <2>1 DEF OnlyTail
  <2> QED BY <1>1, <2>2
<1>5. ASSUME NEW j \in DOMAIN fed', i < j, u \in fed'[j].utts
      PROVE  /\ ~TailComes(u) /\ (Pending => u \notin data.utts)
             /\ \A k \in DOMAIN frames : frames[k].utt # u
  <2>1. i + 1 < j + 1 /\ j + 1 \in DOMAIN fed /\ u \in fed[j + 1].utts
    BY <1>1, <1>5
  <2> QED BY <2>1 DEF OnlyTail
<1> QED BY <1>2, <1>3, <1>4, <1>5 DEF OnlyTail

\* The player goes on from marker to marker.
LEMMA PlayerGoesOn ==
    ASSUME DriverTypeOK, DriverTypeOK', JobsInOrder, FramesInOrder, MarkersInOrder, [Next]_vars
    PROVE  playerIndex <= playerIndex'
<1> USE Values
<1>1. CASE UNCHANGED playerIndex
  BY <1>1
<1>2. CASE SynthesizeStep
  <2>1. PICK n \in Nat : Takes(n) /\ Leaves(n)
    BY <1>2, TakesFacts
  <2>2. ASSUME NEW k \in 1 .. n, frames[k].index # NoIndex, playerIndex' = frames[k].index
        PROVE  playerIndex <= playerIndex'
    <3>1. k \in DOMAIN frames
      BY <2>1 DEF Leaves
    <3>2. frames[k].utt = frames[k].index /\ frames[k].utt # NoUtterance
      BY <2>2, <3>1 DEF MarkersInOrder, NoUtterance
    <3> QED BY <2>2, <3>1, <3>2 DEF FramesInOrder
  <2> QED BY <1>1, <2>1, <2>2 DEF Takes
<1> QED BY <1>1, <1>2, SpeechSteps
        DEF QuietStep, Speech, SoundStep, MarkerStep, TailStep, Queues, TakeStep, PurgeStep,
            FeedStep, StopStep, PlayStep

\* The part of PassedAreOver about the player.
PlayerIsOver ==
    /\ Pending => data.index = playerIndex
    /\ \A j, k \in DOMAIN frames :
          frames[j].utt = playerIndex /\ frames[k].utt = playerIndex => j = k
    /\ \A k \in DOMAIN frames : frames[k].utt = playerIndex => ~TailComes(playerIndex)

LEMMA NextPlayerIsOver ==
    ASSUME DriverTypeOK, DriverTypeOK', JobsInOrder, FramesInOrder, MarkersInOrder,
           PlayerIsOver, [Next]_vars
    PROVE  PlayerIsOver'
<1> USE Values
<1>1. CASE QuietStep
  BY <1>1 DEF QuietStep, Speech, PlayerIsOver, TailComes
<1>2. CASE FeedStep \/ StopStep \/ PlayStep
  <2>1. UNCHANGED <<frames, playerIndex, data, job, bg>> /\ (Pending' => Pending)
    BY <1>2 DEF FeedStep, StopStep, PlayStep, Pending
  <2> QED BY <2>1 DEF PlayerIsOver, TailComes
<1>3. CASE SoundStep \/ MarkerStep
  <2>1. PICK f : Queues(f) /\ f.utt = job.utt
    BY <1>3 DEF SoundStep, MarkerStep, Sound, Marker
  <2>2. \A k \in DOMAIN frames' :
           \/ k \in DOMAIN frames /\ frames'[k] = frames[k]
           \/ frames'[k] = f
    BY <2>1, QueuesFacts
  <2>3. MarkerComes /\ playerIndex < job.utt
    BY <1>3 DEF SoundStep, MarkerStep, MarkerComes, MarkersInOrder
  <2>4. UNCHANGED <<playerIndex, data, job, audio, Pending>>
    BY <2>1 DEF Queues, Pending
  <2>5. \A k \in DOMAIN frames' :
           frames'[k].utt = playerIndex => k \in DOMAIN frames /\ frames[k].utt = playerIndex
    BY <2>1, <2>2, <2>3
  <2>6. ~(bg' = "tail" /\ job'.utt = playerIndex')
    BY <2>3, <2>4
  <2> QED BY <2>4, <2>5, <2>6 DEF PlayerIsOver, TailComes
<1>4. CASE TailStep
  <2>1. Queues(Sound(job.utt)) /\ TailComes(job.utt) /\ bg' # "tail"
    BY <1>4 DEF TailStep, TailComes
  <2>2. \A k \in DOMAIN frames' :
           \/ k \in DOMAIN frames /\ frames'[k] = frames[k]
           \/ k = Len(frames) + 1 /\ frames'[k].utt = job.utt
    BY <2>1, QueuesFacts DEF Sound
  <2>3. UNCHANGED <<playerIndex, data, job, audio, Pending>>
    BY <2>1 DEF Queues, Pending
  <2>4. \A j, k \in DOMAIN frames' :
           frames'[j].utt = playerIndex /\ frames'[k].utt = playerIndex => j = k
    BY <2>1, <2>2 DEF PlayerIsOver
  <2> QED BY <2>1, <2>3, <2>4 DEF PlayerIsOver, TailComes
<1>5. CASE TakeStep
  <2>1. bg' # "tail" /\ UNCHANGED <<frames, playerIndex, data, audio, Pending>>
    BY <1>5 DEF TakeStep, Pending
  <2> QED BY <2>1 DEF PlayerIsOver, TailComes
<1>6. CASE PurgeStep
  <2>1. DOMAIN frames' = {1} /\ frames'[1].utt = NoUtterance
    BY <1>6 DEF PurgeStep, Silence, Sound
  <2>2. UNCHANGED <<playerIndex, data, job, bg, audio, Pending>>
    BY <1>6 DEF PurgeStep, Pending
  <2>3. playerIndex # NoUtterance
    BY DEF DriverTypeOK, Indices, Utterances, NoIndex, NoUtterance
  <2> QED BY <2>1, <2>2, <2>3 DEF PlayerIsOver
<1>7. CASE SynthesizeStep
  <2>1. PICK n \in Nat : Takes(n) /\ Leaves(n)
    BY <1>7, TakesFacts
  <2>2. /\ \A k \in DOMAIN frames' :
             n + k \in DOMAIN frames /\ frames'[k] = frames[n + k] /\ k > 0
        /\ \A k \in 1 .. n : k \in DOMAIN frames
        /\ DOMAIN frames' \subseteq Nat
    BY <2>1 DEF Leaves
  <2>3. UNCHANGED <<job, bg>> /\ data'.index = playerIndex'
    BY <1>7 DEF SynthesizeStep
  <2>4. \A k \in DOMAIN frames' : frames'[k].utt = playerIndex' =>
           /\ \A l \in DOMAIN frames' : frames'[l].utt = playerIndex' => n + l = n + k
           /\ ~TailComes(playerIndex')
    <3>1. CASE playerIndex' = playerIndex
      BY <2>2, <3>1 DEF PlayerIsOver
    <3>2. ASSUME NEW m \in 1 .. n, frames[m].index # NoIndex, playerIndex' = frames[m].index,
                 NEW k \in DOMAIN frames', frames'[k].utt = playerIndex'
          PROVE  /\ \A l \in DOMAIN frames' : frames'[l].utt = playerIndex' => n + l = n + k
                 /\ ~TailComes(playerIndex')
      <4>1. m \in DOMAIN frames /\ \A l \in DOMAIN frames' : m < n + l
        BY <2>2
      <4>2. /\ ~TailComes(frames[n + k].utt)
            /\ \A l \in DOMAIN frames : m < l /\ frames[l].utt = frames[n + k].utt => l = n + k
        BY <2>2, <3>2, <4>1 DEF MarkersInOrder
      <4> QED BY <2>2, <3>2, <4>1, <4>2
    <3> QED BY <2>1, <3>1, <3>2 DEF Takes
  <2>5. \A j, k \in DOMAIN frames' : n + j = n + k => j = k
    BY <2>2
  <2> QED BY <2>3, <2>4, <2>5 DEF PlayerIsOver, TailComes
<1> QED BY <1>1, <1>2, <1>3, <1>4, <1>5, <1>6, <1>7, SpeechSteps

LEMMA NextPassedAreOver ==
    ASSUME DriverTypeOK, DriverTypeOK', JobsInOrder, FramesInOrder, MarkersInOrder,
           PassedAreOver, [Next]_vars
    PROVE  PassedAreOver'
<1> USE Values
<1>1. PlayerIsOver'
  BY NextPlayerIsOver DEF PassedAreOver, PlayerIsOver
<1>2. playerIndex <= playerIndex' /\ playerIndex' \in Int
  BY PlayerGoesOn DEF DriverTypeOK, Indices, Utterances, NoIndex
<1>3. Utterances \subseteq Nat \ {0} /\ NoIndex \notin Utterances
  BY DriverAssumption DEF Utterances, NoIndex
<1>4. SUFFICES ASSUME NEW u \in Utterances
               PROVE  /\ \A i \in DOMAIN fed' :
                            fed'[i].index = u => u <= playerIndex' /\ OnlyTail(u, i)'
                      /\ \A k \in DOMAIN reached' :
                            reached'[k] = u => u <= playerIndex' /\ OnlyTail(u, 0)'
  BY <1>1 DEF PassedAreOver, PlayerIsOver
<1>5. CASE ~PlayStep
  <2>1. ASSUME NEW i \in Nat, u <= playerIndex, OnlyTail(u, i)
        PROVE  u <= playerIndex' /\ OnlyTail(u, i)'
    BY <1>2, <1>3, <1>5, <2>1, OnlyTailStays
  <2>2. CASE FeedStep
    <3>1. UNCHANGED <<frames, playerIndex, data, reached, job, bg>> /\ Pending /\ ~Pending'
          /\ fed' = Append(fed, data)
      BY <2>2 DEF FeedStep
    <3>2. \A i \in DOMAIN fed' : \/ i \in DOMAIN fed /\ fed'[i] = fed[i]
                                 \/ i = Len(fed) + 1 /\ fed'[i] = data
      BY <3>1
    <3>3. ASSUME NEW i \in DOMAIN fed', i = Len(fed) + 1, data.index = u
          PROVE  u <= playerIndex' /\ OnlyTail(u, i)'
      <4>1. u = playerIndex
        BY <3>1, <3>3 DEF PassedAreOver
      <4>2. \A j \in DOMAIN fed' : ~(i < j)
        BY <3>1, <3>3
      <4>3. OnlyTail(u, i)'
        BY <3>1, <4>1, <4>2 DEF PassedAreOver, OnlyTail, TailComes
      <4> QED BY <3>1, <4>1, <4>3
    <3> QED BY <2>1, <3>1, <3>2, <3>3 DEF PassedAreOver
  <2>3. CASE ~FeedStep
    <3>1. reached' = reached /\ (fed' = fed \/ fed' = <<>>)
      BY <1>5, <2>3, SpeechSteps
         DEF QuietStep, Speech, SoundStep, MarkerStep, TailStep, Queues, TakeStep, PurgeStep,
             SynthesizeStep, StopStep
    <3>2. \A i \in DOMAIN fed' : i \in DOMAIN fed /\ fed'[i] = fed[i]
      BY <3>1
    <3> QED BY <2>1, <3>1, <3>2 DEF PassedAreOver
  <2> QED BY <2>2, <2>3
<1>6. CASE PlayStep
  <2>1. /\ \A i \in DOMAIN fed' : i + 1 \in DOMAIN fed /\ fed'[i] = fed[i + 1] /\ i \in Nat
        /\ 1 \in DOMAIN fed /\ UNCHANGED playerIndex
    BY <1>6 DEF PlayStep, PlayChunk
  <2>2. ASSUME NEW i \in Nat, OnlyTail(u, i + 1) PROVE OnlyTail(u, i)'
    BY <1>3, <1>6, <2>2, OnlyTailMoves
  <2>3. OnlyTail(u, 0) \/ OnlyTail(u, 1) => OnlyTail(u, 0)'
    <3>1. OnlyTail(u, 0) => OnlyTail(u, 1)
      BY DEF OnlyTail
    <3>2. OnlyTail(u, 0 + 1) => OnlyTail(u, 0)'
      BY <2>2
    <3> QED BY <3>1, <3>2
  <2>4. ASSUME NEW i \in DOMAIN fed', fed'[i].index = u
        PROVE  u <= playerIndex' /\ OnlyTail(u, i)'
    <3>1. u <= playerIndex /\ OnlyTail(u, i + 1)
      BY <2>1, <2>4 DEF PassedAreOver
    <3> QED BY <2>1, <2>2, <3>1
  <2>5. ASSUME NEW k \in DOMAIN reached', reached'[k] = u
        PROVE  u <= playerIndex' /\ OnlyTail(u, 0)'
    <3>1. \/ k \in DOMAIN reached /\ reached'[k] = reached[k]
          \/ reached'[k] = fed[1].index
      BY <1>6 DEF PlayStep, PlayChunk
    <3>2. u <= playerIndex /\ (OnlyTail(u, 0) \/ OnlyTail(u, 1))
      BY <2>1, <2>5, <3>1 DEF PassedAreOver
    <3> QED BY <2>1, <2>3, <3>2
  <2> QED BY <2>4, <2>5
<1> QED BY <1>5, <1>6

LEMMA InitOrder == Init => OrderInv
<1> SUFFICES ASSUME Init PROVE OrderInv
  OBVIOUS
<1>1. DriverTypeOK /\ JobsInOrder
  BY InitTypes
<1>2. /\ DOMAIN frames = {} /\ DOMAIN fed = {} /\ DOMAIN reached = {} /\ data.utts = {}
      /\ playerIndex = NoIndex /\ bg = "idle" /\ audio = "wait" /\ job.utt = 0
  BY DEF Init, NoData, NoJob, NoUtterance
<1>3. FramesInOrder /\ AudioInOrder /\ MarkersInOrder
  BY <1>2 DEF FramesInOrder, AudioInOrder, InFront, MarkersInOrder, MarkerComes, NoIndex
<1>4. PassedAreOver
  BY <1>2 DEF PassedAreOver, Pending
<1> QED BY <1>1, <1>3, <1>4 DEF OrderInv

LEMMA NextOrder == OrderInv /\ [Next]_vars => OrderInv'
<1> SUFFICES ASSUME OrderInv, [Next]_vars PROVE OrderInv'
  OBVIOUS
<1>1. DriverTypeOK' /\ JobsInOrder'
  BY NextTypes, NextJobs DEF OrderInv
<1>2. FramesInOrder'
  BY <1>1, NextFramesInOrder DEF OrderInv
<1>3. AudioInOrder'
  BY <1>1, NextAudioInOrder DEF OrderInv
<1>4. MarkersInOrder'
  BY <1>1, NextMarkersInOrder DEF OrderInv
<1>5. PassedAreOver'
  BY <1>1, NextPassedAreOver DEF OrderInv
<1> QED BY <1>1, <1>2, <1>3, <1>4, <1>5 DEF OrderInv

LEMMA AtMostOne ==
    ASSUME NEW S, \A x, y \in S : x = y
    PROVE  Cardinality(S) \in {0, 1} /\ (S = {} <=> Cardinality(S) = 0)
<1>1. CASE S = {}
  BY <1>1, FS_EmptySet
<1>2. CASE S # {}
  <2>1. PICK x : S = {x}
    BY <1>2
  <2>2. Cardinality({x}) = 1
    BY FS_Singleton
  <2> QED BY <1>2, <2>1, <2>2
<1> QED BY <1>1, <1>2

\* What is heard keeps the order of the calls, and an index is reported when at most the
\* tail of its utterance is left, however calls of speak and cancel cross the threads.
THEOREM SpeechOrder == Spec => []SpeechAndIndicesInOrder
<1>1. OrderInv => SpeechAndIndicesInOrder
  <2> SUFFICES ASSUME OrderInv PROVE SpeechAndIndicesInOrder
    OBVIOUS
  <2> USE Values DEF OrderInv
  <2>1. SpeechKeepsItsOrder
    <3>1. ASSUME NEW u \in Utterances, FedOf(u) # {}, NEW v \in 1 .. u - 1,
                 NEW k \in SoundOf(v)
          PROVE  FALSE
      <4>1. u \in Nat /\ v \in Nat /\ v < u /\ v # NoUtterance
        BY DriverAssumption DEF Utterances, NoUtterance
      <4>2. k \in DOMAIN frames /\ frames[k].utt = v
        BY DEF SoundOf, Sound
      <4>3. PICK i \in DOMAIN fed : u \in fed[i].utts
        BY <3>1 DEF FedOf
      <4>4. u <= v
        BY <4>1, <4>2, <4>3 DEF AudioInOrder, InFront
      <4> QED BY <4>1, <4>4
    <3>2. \A j, k \in DOMAIN frames :
             j < k /\ frames[k].utt # NoUtterance => frames[j].utt <= frames[k].utt
      BY DEF FramesInOrder
    <3> QED BY <3>1, <3>2 DEF SpeechKeepsItsOrder
  <2>2. IndexFollowsItsText
    <3> SUFFICES ASSUME NEW i \in DOMAIN reached
                 PROVE  Cardinality(SoundOf(reached[i])) + Cardinality(FedOf(reached[i])) <= 1
      BY DEF IndexFollowsItsText
    <3>1. PICK u \in Utterances : u = reached[i] /\ OnlyTail(u, 0)
      BY DEF PassedAreOver
    <3>2. \A j, k \in SoundOf(u) : j = k
      <4>1. \A k \in SoundOf(u) : k \in DOMAIN frames /\ frames[k].utt = u
        BY DEF SoundOf, Sound
      <4> QED BY <3>1, <4>1 DEF OnlyTail
    <3>3. \A j, k \in FedOf(u) : j = k
      <4>1. \A k \in FedOf(u) : k \in DOMAIN fed /\ 0 < k /\ u \in fed[k].utts
        BY DEF FedOf
      <4> QED BY <3>1, <4>1 DEF OnlyTail
    <3>4. SoundOf(u) = {} \/ FedOf(u) = {}
      BY <3>1 DEF OnlyTail, SoundOf, FedOf, Sound
    <3>5. Cardinality(SoundOf(u)) \in {0, 1} /\ (SoundOf(u) = {} <=> Cardinality(SoundOf(u)) = 0)
      BY <3>2, AtMostOne
    <3>6. Cardinality(FedOf(u)) \in {0, 1} /\ (FedOf(u) = {} <=> Cardinality(FedOf(u)) = 0)
      BY <3>3, AtMostOne
    <3> QED BY <3>1, <3>4, <3>5, <3>6
  <2> QED BY <2>1, <2>2 DEF SpeechAndIndicesInOrder
<1> QED BY <1>1, InitOrder, NextOrder, PTL DEF Spec

-----------------------------------------------------------------------------
(* Done notifications.                                                     *)

LEMMA NextDones ==
    ASSUME DriverTypeOK, JobsInOrder, DonesBelongToJobs, [Next]_vars
    PROVE  DonesBelongToJobs'
<1>0. dones \in Nat /\ job.utt \in Nat /\ isSpeaking \in BOOLEAN /\ kicked \in BOOLEAN
  BY DEF DriverTypeOK, Jobs
<1> USE <1>0 DEF DonesBelongToJobs, Count, MayNotify, WillNotify,
                 mainVars, bgVars, audioVars, shared, history
<1>1. CASE UNCHANGED vars
  BY <1>1 DEF vars
<1>2. CASE Main
  <2>1. /\ UNCHANGED <<dones, job, bg, kicked, audio>>
        /\ isSpeaking' = isSpeaking \/ isSpeaking' = FALSE
    BY <1>2 DEF Main, Speak, CancelPolling, CancelSpeaking, CancelPlayback, CancelGeneration,
                CancelJobs, CancelFrames, CancelKick
  <2>2. (MayNotify)' = MayNotify
    BY <2>1
  <2>3. (WillNotify)' => WillNotify
    BY <2>1
  <2> HIDE DEF MayNotify, WillNotify
  <2> QED BY <2>1, <2>2, <2>3
<1>3. CASE BgStep \/ BgError
  <2> USE DEF OthersByBg, BgGoto
  <2>1. CASE TakeJob
    <3>1. job'.utt \in Nat /\ job.utt < job'.utt /\ bg = "idle"
      BY <2>1, TakeJobFacts DEF TakeJob, Jobs
    <3>2. UNCHANGED <<dones, isSpeaking, audio>>
      BY <2>1 DEF TakeJob
    <3> QED BY <3>1, <3>2
  <2>2. NotifyIndexesAndDone => DonesBelongToJobs'  BY DEF NotifyIndexesAndDone
  <2>3. NextChunk => DonesBelongToJobs'  BY DEF NextChunk
  <2>4. OnFrame => DonesBelongToJobs'  BY DEF OnFrame
  <2>5. QueueSound => DonesBelongToJobs'  BY DEF QueueSound
  <2>6. CheckKick => DonesBelongToJobs'  BY DEF CheckKick
  <2>7. SetPending => DonesBelongToJobs'  BY DEF SetPending
  <2>8. SetSpeaking => DonesBelongToJobs'  BY DEF SetSpeaking
  <2>9. RecheckKick => DonesBelongToJobs'  BY DEF RecheckKick
  <2>10. UnsetSpeaking => DonesBelongToJobs'  BY DEF UnsetSpeaking
  <2>11. Kick => DonesBelongToJobs'  BY DEF Kick
  <2>12. ClauseDone => DonesBelongToJobs'  BY DEF ClauseDone
  <2>13. QueueMarker => DonesBelongToJobs'  BY DEF QueueMarker
  <2>14. QueueTail => DonesBelongToJobs'  BY DEF QueueTail
  <2>15. SetAllQueued => DonesBelongToJobs'  BY DEF SetAllQueued
  <2>16. FinalCheck => DonesBelongToJobs'  BY DEF FinalCheck
  <2>17. BgError => DonesBelongToJobs'  BY DEF BgError
  <2> QED BY <1>3, <2>1, <2>2, <2>3, <2>4, <2>5, <2>6, <2>7, <2>8, <2>9, <2>10, <2>11, <2>12,
             <2>13, <2>14, <2>15, <2>16, <2>17 DEF BgStep
<1>4. CASE AudioStep
  <2> USE DEF OthersByAudio
  <2>1. ASSUME UNCHANGED <<dones, job, bg, kicked, isSpeaking>>,
               audio \notin {"idlePlayer", "done", "clearSpeaking"},
               audio' \notin {"idlePlayer", "done"}
        PROVE  DonesBelongToJobs'
    BY <2>1
  <2>2. CASE Woken \/ ClearWake \/ LoopTest
    BY <2>1, <2>2 DEF Woken, ClearWake, LoopTest
  <2>3. CASE Synthesize \/ RecheckSpeaking
    BY <2>1, <2>3 DEF Synthesize, RecheckSpeaking
  <2>4. CASE Feed \/ FeedIndex \/ OutOfAudio
    BY <2>1, <2>4 DEF Feed, FeedIndex, OutOfAudio
  <2>5. ExitTest => DonesBelongToJobs'  BY DEF ExitTest
  <2>6. IdlePlayer => DonesBelongToJobs'  BY DEF IdlePlayer
  <2>7. NotifyDone => DonesBelongToJobs'  BY DEF NotifyDone
  <2>8. ClearSpeaking => DonesBelongToJobs'  BY DEF ClearSpeaking
  <2> QED BY <1>4, <2>2, <2>3, <2>4, <2>5, <2>6, <2>7, <2>8 DEF AudioStep
<1>5. CASE PlayChunk
  BY <1>5 DEF PlayChunk
<1> QED BY <1>1, <1>2, <1>3, <1>4, <1>5 DEF Next

\* Both threads together never send more synthDoneSpeaking notifications than NVDA called
\* speak: each belongs to a job that was taken.
THEOREM DonesAreCounted == Spec => []DonePerUtterance
<1> DEFINE Inv == DriverTypeOK /\ JobsInOrder /\ DonesBelongToJobs
<1>1. Init => Inv
  <2>1. Init => DonesBelongToJobs
    BY DEF Init, DonesBelongToJobs, Count, MayNotify, WillNotify, NoJob, NoUtterance
  <2> QED BY <2>1, InitTypes
<1>2. Inv /\ [Next]_vars => Inv'
  BY NextTypes, NextJobs, NextDones
<1>3. Inv => DonePerUtterance
  <2> SUFFICES ASSUME Inv PROVE DonePerUtterance
    OBVIOUS
  <2>1. dones <= job.utt
    BY DEF DonesBelongToJobs, Count, DriverTypeOK, Jobs
  <2> QED BY <2>1 DEF DonePerUtterance, JobsInOrder, DriverTypeOK, Jobs
<1> QED BY <1>1, <1>2, <1>3, PTL DEF Spec

-----------------------------------------------------------------------------
(* A cancel cuts the speech short.                                         *)

LEMMA NextCancelledAreStale ==
    ASSUME DriverTypeOK, JobsInOrder, CancelledAreStale, [Next]_vars
    PROVE  CancelledAreStale'
<1>0. /\ bgQueue \in Seq(Jobs) /\ job \in Jobs /\ speakGen \in Nat /\ speaks \in Nat /\ cut \in Nat
      /\ \A k \in DOMAIN bgQueue : bgQueue[k].gen \in Nat /\ bgQueue[k].utt \in Nat
      /\ job.gen \in Nat /\ job.utt \in Nat
  <2>1. \A j \in Jobs : j.gen \in Nat /\ j.utt \in Nat
    BY DriverAssumption DEF Jobs
  <2> QED BY <2>1, DriverAssumption DEF DriverTypeOK
<1> USE <1>0
<1>1. ASSUME UNCHANGED <<job, bgQueue, speakGen, speaks, cut>>,
             main' = main \/ main' \notin {"drain", "purge", "kick", "idle"}
             \/ (main \in {"purge", "kick"} /\ main' \in {"purge", "kick", "idle"})
      PROVE  CancelledAreStale'
  BY <1>1 DEF CancelledAreStale
<1> USE DEF mainVars, bgVars, shared, history
<1>2. CASE UNCHANGED vars
  BY <1>1, <1>2 DEF vars
<1>3. CASE Speak
  <2>1. \A k \in DOMAIN bgQueue' :
           \/ k \in DOMAIN bgQueue /\ bgQueue'[k] = bgQueue[k]
           \/ bgQueue'[k].utt = speaks + 1 /\ bgQueue'[k].gen = speakGen
    BY <1>3 DEF Speak
  <2>2. speaks' = speaks + 1 /\ UNCHANGED <<job, cut, speakGen, main>>
    BY <1>3 DEF Speak
  <2> QED BY <2>1, <2>2 DEF CancelledAreStale
<1>4. CASE CancelPolling
  BY <1>4 DEF CancelPolling, CancelledAreStale
<1>5. CASE CancelSpeaking \/ CancelPlayback
  BY <1>1, <1>5 DEF CancelSpeaking, CancelPlayback
<1>6. CASE CancelGeneration
  BY <1>6 DEF CancelGeneration, CancelledAreStale
<1>7. CASE CancelJobs
  BY <1>7 DEF CancelJobs, CancelledAreStale
<1>8. CASE CancelFrames \/ CancelKick
  BY <1>1, <1>8 DEF CancelFrames, CancelKick
<1>9. CASE TakeJob
  <2>1. job' = Head(bgQueue) /\ bgQueue' = Tail(bgQueue) /\ UNCHANGED <<speakGen, speaks, cut, main>>
    BY <1>9 DEF TakeJob, OthersByBg
  <2>2. /\ Head(bgQueue) = bgQueue[1] /\ 1 \in DOMAIN bgQueue
        /\ \A k \in DOMAIN Tail(bgQueue) :
              k + 1 \in DOMAIN bgQueue /\ Tail(bgQueue)[k] = bgQueue[k + 1]
    BY <1>9, TakeJobFacts DEF TakeJob
  <2> QED BY <2>1, <2>2 DEF CancelledAreStale
<1> USE DEF OthersByBg, OthersByAudio, BgGoto
<1>10. CASE NotifyIndexesAndDone \/ NextChunk \/ OnFrame \/ QueueSound \/ CheckKick \/ SetPending
  BY <1>1, <1>10 DEF NotifyIndexesAndDone, NextChunk, OnFrame, QueueSound, CheckKick, SetPending
<1>11. CASE SetSpeaking \/ RecheckKick \/ UnsetSpeaking \/ Kick \/ ClauseDone
  BY <1>1, <1>11 DEF SetSpeaking, RecheckKick, UnsetSpeaking, Kick, ClauseDone
<1>12. CASE QueueMarker \/ QueueTail \/ SetAllQueued \/ FinalCheck \/ BgError
  BY <1>1, <1>12 DEF QueueMarker, QueueTail, SetAllQueued, FinalCheck, BgError
<1>13. CASE AudioStep
  BY <1>1, <1>13
     DEF AudioStep, Woken, ClearWake, LoopTest, Synthesize, RecheckSpeaking, Feed, FeedIndex,
         OutOfAudio, ExitTest, IdlePlayer, NotifyDone, ClearSpeaking
<1>14. CASE PlayChunk
  BY <1>1, <1>14 DEF PlayChunk
<1> QED BY <1>2, <1>3, <1>4, <1>5, <1>6, <1>7, <1>8, <1>9, <1>10, <1>11, <1>12, <1>13, <1>14
        DEF Next, Main, BgStep

\* The frames of cancelled utterances, and how queueing and synthesizing change their number.
LEMMA CutIsFinite ==
    ASSUME DriverTypeOK
    PROVE  IsFiniteSet(CutFrames) /\ Cardinality(CutFrames) \in Nat
<1>1. IsFiniteSet(DOMAIN frames)
  <2>1. frames \in Seq(Frames)
    BY DEF DriverTypeOK
  <2>2. DOMAIN frames = 1 .. Len(frames) /\ Len(frames) \in Nat
    BY <2>1
  <2> QED BY <2>2, FS_Interval
<1>2. CutFrames \subseteq DOMAIN frames
  BY DEF CutFrames
<1>3. IsFiniteSet(CutFrames)
  BY <1>1, <1>2, FS_Subset
<1> QED BY <1>3, FS_CardinalityType

LEMMA CutGrows ==
    ASSUME DriverTypeOK, NEW f, Queues(f), UNCHANGED cut
    PROVE  /\ Cardinality(CutFrames') <= Cardinality(CutFrames) + 1
           /\ f.utt \notin 1 .. cut => Cardinality(CutFrames') = Cardinality(CutFrames)
<1>1. frames \in Seq(Frames)
  BY DEF DriverTypeOK
<1>2. /\ DOMAIN frames' = DOMAIN frames \cup {Len(frames) + 1}
      /\ \A k \in DOMAIN frames : frames'[k] = frames[k] /\ k # Len(frames) + 1
      /\ frames'[Len(frames) + 1] = f
  BY <1>1 DEF Queues
<1>3. CutFrames' = IF f.utt \in 1 .. cut THEN CutFrames \cup {Len(frames) + 1} ELSE CutFrames
  BY <1>2 DEF CutFrames
<1>4. IsFiniteSet(CutFrames) /\ Cardinality(CutFrames) \in Nat
  BY CutIsFinite
<1>5. Len(frames) + 1 \notin CutFrames
  BY <1>2 DEF CutFrames
<1>6. Cardinality(CutFrames \cup {Len(frames) + 1}) = Cardinality(CutFrames) + 1
  BY <1>4, <1>5, FS_AddElement
<1> QED BY <1>3, <1>4, <1>6

LEMMA CutShrinks ==
    ASSUME DriverTypeOK, DriverTypeOK', SynthesizeStep, UNCHANGED cut
    PROVE  Cardinality(CutFrames') <= Cardinality(CutFrames)
<1>1. PICK n \in Nat : Takes(n) /\ Leaves(n)
  BY TakesFacts
<1> DEFINE shift == [k \in CutFrames' |-> n + k]
<1>2. \A k \in CutFrames' : k \in Nat /\ n + k \in CutFrames
  BY <1>1 DEF Leaves, CutFrames
<1>3. shift \in Injection(CutFrames', CutFrames)
  <2>1. shift \in [CutFrames' -> CutFrames]
    BY <1>2
  <2>2. \A j, k \in CutFrames' : shift[j] = shift[k] => j = k
    BY <1>2
  <2> QED BY <2>1, <2>2 DEF Injection, IsInjective
<1>4. IsFiniteSet(CutFrames)
  BY CutIsFinite
<1> HIDE DEF shift
<1> QED BY <1>3, <1>4, FS_Injection

LEMMA NextCancelledRunOut ==
    ASSUME DriverTypeOK, DriverTypeOK', JobsInOrder, CancelledAreStale, CancelledRunOut,
           [Next]_vars
    PROVE  CancelledRunOut'
<1>0. /\ Cardinality(CutFrames) \in Nat /\ Cardinality(CutFrames') \in Nat
      /\ cut \in Nat /\ job.utt \in Nat
  <2>1. Cardinality(CutFrames) \in Nat
    BY CutIsFinite
  <2>2. frames' \in Seq(Frames)
    BY DEF DriverTypeOK
  <2>3. IsFiniteSet(DOMAIN frames') /\ CutFrames' \subseteq DOMAIN frames'
    <3>1. DOMAIN frames' = 1 .. Len(frames') /\ Len(frames') \in Nat
      BY <2>2
    <3> QED BY <3>1, FS_Interval DEF CutFrames
  <2>4. IsFiniteSet(CutFrames')
    BY <2>3, FS_Subset
  <2>5. Cardinality(CutFrames') \in Nat
    BY <2>4, FS_CardinalityType
  <2> QED BY <2>1, <2>5, DriverAssumption DEF DriverTypeOK, Jobs
<1> DEFINE Owed == IF job.utt \in 1 .. cut THEN StillQueues ELSE 0
           Purged == main \in {"kick", "idle"}
<1>1. Purged => Cardinality(CutFrames) + Owed <= 4
  BY DEF CancelledRunOut
<1>2. SUFFICES ASSUME Purged' PROVE Cardinality(CutFrames') + Owed' <= 4
  BY DEF CancelledRunOut
<1> USE DEF mainVars, bgVars, audioVars, shared, history, OthersByBg, OthersByAudio, BgGoto
<1>3. ASSUME Purged, UNCHANGED <<job, cut>>, StillQueues' <= StillQueues,
             Cardinality(CutFrames') <= Cardinality(CutFrames)
      PROVE  Cardinality(CutFrames') + Owed' <= 4
  BY <1>0, <1>1, <1>3 DEF StillQueues
<1>4. ASSUME UNCHANGED <<frames, cut>> PROVE Cardinality(CutFrames') = Cardinality(CutFrames)
  BY <1>4 DEF CutFrames
<1>5. ASSUME Purged, UNCHANGED <<frames, job, bg, cut>>
      PROVE  Cardinality(CutFrames') + Owed' <= 4
  BY <1>0, <1>3, <1>4, <1>5 DEF StillQueues
<1>6. CASE UNCHANGED vars
  BY <1>2, <1>5, <1>6 DEF vars
<1>7. CASE Main
  <2>1. CASE Speak \/ CancelKick
    BY <1>5, <2>1 DEF Speak, CancelKick
  <2>2. CASE CancelPolling \/ CancelSpeaking \/ CancelPlayback \/ CancelGeneration \/ CancelJobs
    BY <1>2, <2>2 DEF CancelPolling, CancelSpeaking, CancelPlayback, CancelGeneration, CancelJobs
  <2>3. CASE CancelFrames
    <3>1. frames' = <<Silence>> /\ UNCHANGED <<job, bg, cut>>
      BY <2>3 DEF CancelFrames
    <3>2. CutFrames' = {}
      BY <3>1 DEF CutFrames, Silence, Sound, NoUtterance
    <3>3. Cardinality(CutFrames') = 0
      BY <3>2, FS_EmptySet
    <3> QED BY <3>1, <3>3 DEF StillQueues
  <2> QED BY <1>7, <2>1, <2>2, <2>3 DEF Main
<1>8. CASE BgStep \/ BgError
  <2>1. UNCHANGED <<main, cut, speakGen>> /\ Purged
    BY <1>2, <1>8
       DEF BgStep, TakeJob, NotifyIndexesAndDone, NextChunk, OnFrame, QueueSound, CheckKick,
           SetPending, SetSpeaking, RecheckKick, UnsetSpeaking, Kick, ClauseDone, QueueMarker,
           QueueTail, SetAllQueued, FinalCheck, BgError
  <2>2. CASE TakeJob
    <3>1. job' = Head(bgQueue) /\ UNCHANGED frames
      BY <2>2 DEF TakeJob
    <3>2. Head(bgQueue) = bgQueue[1] /\ 1 \in DOMAIN bgQueue /\ job'.utt \in Nat
      BY <2>2, <3>1, TakeJobFacts, DriverAssumption DEF TakeJob, Utterances
    <3>3. job'.utt > cut
      BY <2>1, <3>1, <3>2 DEF CancelledAreStale
    <3>4. Owed' = 0
      BY <1>0, <2>1, <3>2, <3>3
    <3> QED BY <1>0, <1>1, <1>4, <2>1, <3>1, <3>4 DEF StillQueues
  <2>3. job.utt \in 1 .. cut => Stale
    BY <2>1 DEF CancelledAreStale, Stale, DriverTypeOK, Jobs
  <2>4. ASSUME UNCHANGED <<frames, job>>, job.utt \in 1 .. cut => StillQueues' <= StillQueues
        PROVE  Cardinality(CutFrames') + Owed' <= 4
    BY <1>0, <1>1, <1>4, <2>1, <2>4 DEF StillQueues
  <2>5. ASSUME UNCHANGED job, StillQueues' <= StillQueues - 1,
               NEW f, Queues(f), f.utt = job.utt
        PROVE  Cardinality(CutFrames') + Owed' <= 4
    <3>1. /\ Cardinality(CutFrames') <= Cardinality(CutFrames) + 1
          /\ job.utt \notin 1 .. cut => Cardinality(CutFrames') = Cardinality(CutFrames)
      BY <2>1, <2>5, CutGrows
    <3>2. StillQueues \in Int /\ StillQueues' \in Int
      BY DEF StillQueues
    <3> QED BY <1>0, <1>1, <2>1, <2>5, <3>1, <3>2
  <2>6. Sound(job.utt).utt = job.utt /\ Marker(job.utt).utt = job.utt
    BY DEF Sound, Marker
  <2>7. CASE QueueSound
    BY <2>5, <2>6, <2>7 DEF QueueSound, Queues, StillQueues
  <2>8. CASE ClauseDone
    BY <2>4, <2>5, <2>6, <2>8 DEF ClauseDone, Queues, StillQueues
  <2>9. CASE QueueMarker
    BY <2>5, <2>6, <2>9 DEF QueueMarker, Queues, StillQueues
  <2>10. CASE QueueTail
    BY <2>4, <2>5, <2>6, <2>10 DEF QueueTail, Queues, StillQueues
  <2>11. CASE NotifyIndexesAndDone
    BY <2>4, <2>11 DEF NotifyIndexesAndDone, StillQueues
  <2>12. CASE NextChunk
    BY <2>4, <2>12 DEF NextChunk, StillQueues
  <2>13. CASE OnFrame
    BY <2>3, <2>4, <2>13 DEF OnFrame, StillQueues
  <2>14. CASE CheckKick \/ SetPending \/ SetSpeaking
    BY <2>4, <2>14 DEF CheckKick, SetPending, SetSpeaking, StillQueues
  <2>15. CASE RecheckKick
    BY <2>3, <2>4, <2>15 DEF RecheckKick, StillQueues
  <2>16. CASE UnsetSpeaking \/ Kick
    BY <2>4, <2>16 DEF UnsetSpeaking, Kick, StillQueues
  <2>17. CASE SetAllQueued \/ FinalCheck \/ BgError
    BY <2>4, <2>17 DEF SetAllQueued, FinalCheck, BgError, StillQueues
  <2> QED BY <1>8, <2>2, <2>7, <2>8, <2>9, <2>10, <2>11, <2>12, <2>13, <2>14, <2>15, <2>16, <2>17
          DEF BgStep
<1>9. CASE AudioStep
  <2>1. CASE Synthesize
    <3>1. UNCHANGED <<main, job, bg, cut, fed, reached>> /\ audio = "synthesize"
      BY <2>1 DEF Synthesize
    <3>2. SynthesizeStep
      BY <2>1, <3>1, SynthesizeFacts DEF SynthesizeStep, Pending
    <3>3. Cardinality(CutFrames') <= Cardinality(CutFrames)
      BY <3>1, <3>2, CutShrinks
    <3> QED BY <1>2, <1>3, <3>1, <3>3 DEF StillQueues
  <2>2. CASE ~Synthesize
    BY <1>2, <1>5, <1>9, <2>2
       DEF AudioStep, Woken, ClearWake, LoopTest, RecheckSpeaking, Feed, FeedIndex,
           OutOfAudio, ExitTest, IdlePlayer, NotifyDone, ClearSpeaking
  <2> QED BY <2>1, <2>2
<1>10. CASE PlayChunk
  BY <1>2, <1>5, <1>10 DEF PlayChunk
<1> QED BY <1>6, <1>7, <1>8, <1>9, <1>10 DEF Next

\* Once a cancel has purged the player, the job it interrupted queues at most four more
\* frames: its generation is old, and only what it had checked before goes on.
THEOREM CancelSafety == Spec => []CancelCutsSpeechShort
<1>1. Init => CancelInv
  <2> SUFFICES ASSUME Init PROVE CancelInv
    OBVIOUS
  <2>1. /\ frames = <<>> /\ bgQueue = <<>> /\ cut = 0 /\ speaks = 0 /\ speakGen = 0
        /\ job.gen = 0 /\ bg = "idle"
    BY DEF Init, NoJob
  <2>2. CancelledAreStale
    BY <2>1 DEF CancelledAreStale
  <2>3. CutFrames = {}
    BY <2>1 DEF CutFrames
  <2>4. CancelledRunOut
    BY <2>1, <2>3, FS_EmptySet DEF CancelledRunOut, StillQueues
  <2> QED BY <2>2, <2>4, InitTypes DEF CancelInv
<1>2. CancelInv /\ [Next]_vars => CancelInv'
  <2> SUFFICES ASSUME CancelInv, [Next]_vars PROVE CancelInv'
    OBVIOUS
  <2>1. DriverTypeOK' /\ JobsInOrder'
    BY NextTypes, NextJobs DEF CancelInv
  <2>2. CancelledAreStale'
    BY NextCancelledAreStale DEF CancelInv
  <2>3. CancelledRunOut'
    BY <2>1, NextCancelledRunOut DEF CancelInv
  <2> QED BY <2>1, <2>2, <2>3 DEF CancelInv
<1>3. CancelInv => CancelCutsSpeechShort
  <2> SUFFICES ASSUME CancelInv, main \in {"kick", "idle"} PROVE Cardinality(CutFrames) <= 4
    BY DEF CancelCutsSpeechShort, CutFrames
  <2>1. Cardinality(CutFrames) \in Nat
    BY CutIsFinite DEF CancelInv
  <2> QED BY <2>1 DEF CancelInv, CancelledRunOut, StillQueues
<1> QED BY <1>1, <1>2, <1>3, PTL DEF Spec

===============================================================================
