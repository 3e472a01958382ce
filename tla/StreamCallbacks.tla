-------------------------- MODULE StreamCallbacks ---------------------------
(***************************************************************************)
(* What an ap_mirroring_session_handler may rely on for each of its        *)
(* streams (video and audio): it is told that the stream started before it *)
(* gets data, it gets data from one call at a time, and once it is told    *)
(* that the stream stopped, no data call is in progress and none follows   *)
(* until it is told of the next start.  MirroringSession implements this   *)
(* specification.                                                          *)
(***************************************************************************)

CONSTANTS Handlers, Streams

VARIABLES
  phase,    \* per handler and stream, the last notification: "never",
            \* "started" or "stopped"
  receiving \* per handler and stream, is a data callback running?

vars == <<phase, receiving>>

Init ==
  /\ phase = [h \in Handlers |-> [s \in Streams |-> "never"]]
  /\ receiving = [h \in Handlers |-> [s \in Streams |-> FALSE]]

(* A sender may set the stream up again without tearing it down, so that a
   start may be notified twice, and while data arrives. *)
Started(h, s) ==
  /\ phase' = [phase EXCEPT ![h][s] = "started"]
  /\ UNCHANGED receiving

(* A sender may also tear down a stream that was never set up. *)
Stopped(h, s) ==
  /\ ~receiving[h][s]
  /\ phase' = [phase EXCEPT ![h][s] = "stopped"]
  /\ UNCHANGED receiving

DataBegins(h, s) ==
  /\ phase[h][s] = "started"
  /\ ~receiving[h][s]
  /\ receiving' = [receiving EXCEPT ![h][s] = TRUE]
  /\ UNCHANGED phase

DataEnds(h, s) ==
  /\ receiving[h][s]
  /\ receiving' = [receiving EXCEPT ![h][s] = FALSE]
  /\ UNCHANGED phase

Next == \E h \in Handlers, s \in Streams :
          Started(h, s) \/ Stopped(h, s) \/ DataBegins(h, s) \/ DataEnds(h, s)

Spec == Init /\ [][Next]_vars
=============================================================================
