---------------------------- MODULE SpeechdEvents ----------------------------
(***************************************************************************)
(* What the Speech Dispatcher module (sd_tgsb.cpp) promises to the server: *)
(* the order of its replies and events for each SPEAK, one message at a    *)
(* time, and that it reports STOP only for a message the server stopped or *)
(* when the server is gone.                                                *)
(***************************************************************************)
EXTENDS Integers

CONSTANT Messages   \* bound on the SPEAK commands

VARIABLES
    status,     \* what was last reported of each message
    requested,  \* the messages the server has sent a STOP or CANCEL for
    gone        \* the server has closed the pipe

eventVars == <<status, requested, gone>>

Final == {"rejected", "ended", "stopped"}

EventsInit ==
    /\ status = [m \in 1 .. Messages |-> "none"]
    /\ requested = {}
    /\ gone = FALSE

Report(m, from, to) ==
    /\ status[m] = from
    /\ status' = [status EXCEPT ![m] = to]
    /\ UNCHANGED <<requested, gone>>

\* 202: only when every earlier message is done with.
Accept(m) == Report(m, "none", "received") /\ \A k \in 1 .. m - 1 : status[k] \in Final
\* 301, 200, 701, 702
Reject(m)   == Report(m, "received", "rejected")
Announce(m) == Report(m, "received", "speaking")
Begin(m)    == Report(m, "speaking", "begun")
End(m)      == Report(m, "begun", "ended")
\* 703, before or after 701
Stopped(m) ==
    /\ Report(m, "speaking", "stopped") \/ Report(m, "begun", "stopped")
    /\ m \in requested \/ gone

Request ==
    \/ \E m \in 1 .. Messages : requested' = requested \cup {m} /\ UNCHANGED <<status, gone>>
    \/ gone' = TRUE /\ UNCHANGED <<status, requested>>

EventsNext ==
    \/ \E m \in 1 .. Messages :
         Accept(m) \/ Reject(m) \/ Announce(m) \/ Begin(m) \/ End(m) \/ Stopped(m)
    \/ Request

EventsSpec == EventsInit /\ [][EventsNext]_eventVars
=============================================================================
