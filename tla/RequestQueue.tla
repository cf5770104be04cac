---------------------------- MODULE RequestQueue ----------------------------
(***************************************************************************)
(* What the frame manager promises to the code that queues frames on it    *)
(* (speechPlayer_queueFrame, speechPlayer_getLastIndex): requests start    *)
(* one at a time in the order they were queued, none is skipped unless a   *)
(* purging request drops it, and the reported user index is that of the    *)
(* last request to start that carried one.  Fades, durations, silence and  *)
(* the audio thread's private state are below this level.                  *)
(***************************************************************************)
EXTENDS Integers, Sequences

CONSTANT NoIndex        \* the value reported before any indexed request starts

VARIABLES
    submitted,  \* how many requests have been queued; the last one's number
    pending,    \* the requests that have not started, oldest first
    playing,    \* the number of the request that started last, 0 when a purge
                \* has cut it and nothing has started since
    reported    \* what getLastIndex returns

abstractVars == <<submitted, pending, playing, reported>>

AbstractInit ==
    /\ submitted = 0
    /\ pending = <<>>
    /\ playing = 0
    /\ reported = NoIndex

\* A request is numbered by its place in the calls; index is its own number or none.
Submit ==
    \E index \in {NoIndex, submitted + 1} :
        /\ submitted' = submitted + 1
        /\ pending' = Append(pending, [id |-> submitted + 1, index |-> index])
        /\ UNCHANGED <<playing, reported>>

\* A purging request drops everything before it, the playing request included.
PurgeAndSubmit ==
    \E index \in {NoIndex, submitted + 1} :
        /\ submitted' = submitted + 1
        /\ pending' = <<[id |-> submitted + 1, index |-> index]>>
        /\ playing' = 0
        /\ UNCHANGED reported

Start ==
    /\ pending # <<>>
    /\ pending' = Tail(pending)
    /\ playing' = Head(pending).id
    /\ reported' = IF Head(pending).index = NoIndex THEN reported ELSE Head(pending).index
    /\ UNCHANGED submitted

AbstractNext == Submit \/ PurgeAndSubmit \/ Start

AbstractSpec == AbstractInit /\ [][AbstractNext]_abstractVars
=============================================================================
