-------------------------- MODULE MirroringSession --------------------------
(***************************************************************************)
(* The life of one mirroring session: an ap_airplay_connection, the video  *)
(* and audio stream services that its SETUP requests create, and the       *)
(* handlers that the application registers.                                *)
(*                                                                         *)
(* Four threads meet here.  The thread of ap_airplay_service runs the      *)
(* request handlers, one request at a time; each stream service has a      *)
(* thread of its own that calls the application with the data; and the     *)
(* application calls the session object from its threads.  A request       *)
(* handler is one step, except that it stops a stream in steps: stop() of  *)
(* the service waits for the stream's thread to end.                       *)
(*                                                                         *)
(* The connection object lives as long as a read is posted on its socket,  *)
(* one of its handlers runs, or the application holds an ap_session_ptr.   *)
(* Its destructor reports the end of the session; the stream services are  *)
(* members, destroyed after that, first the audio service then the video   *)
(* service.                                                                *)
(***************************************************************************)
EXTENDS Naturals

CONSTANTS
  MaxHandlers,       \* bound: handlers the application registers
  MaxSessionSetups,  \* bound: SETUP requests without streams
  MaxStreamSetups,   \* bound: SETUP requests for streams
  AppMayHold         \* may the application keep the ap_session_ptr?

ASSUME ConstantsAssumption ==
  /\ MaxHandlers \in Nat
  /\ MaxSessionSetups \in Nat
  /\ MaxStreamSetups \in Nat
  /\ AppMayHold \in BOOLEAN

VARIABLES
  conn,      \* "open"; "closed": the last read failed; "dying": in the
             \* destructor, after on_session_end; "gone"
  begins,    \* calls of on_session_begin
  held,      \* the application holds an ap_session_ptr
  ended,     \* calls of on_session_end
  abrupt,    \* the connection closed before the sender had torn its streams
             \* down (history variable)
  handlers,  \* handlers registered so far
  handler,   \* mirroring_session_handler_, NoHandler when null
  streamSetups,
  svc,       \* per stream, its service: "none", "running", or "stopping":
             \* its io_context is stopped and its thread is being joined
  captured,  \* per stream, handler_ of the service
  link,      \* per stream, the way from the sender: "none", "listening"
             \* (video: the acceptor waits), "up" or "down"
  thread,    \* per stream, "none", "idle" or "busy" (calling the handler)
  stopping,  \* the stream that is being stopped, NoStream if none
  told       \* per handler and stream, the last of on_*_stream_started and
             \* on_*_stream_stopped that was called (history variable)

connVars   == <<conn, begins, held, ended, abrupt>>
streamVars == <<svc, captured, link, thread, stopping, streamSetups>>
appVars    == <<handlers, handler, told>>
vars       == <<connVars, streamVars, appVars>>

Streams   == {"video", "audio"}
NoStream  == "none"
Handlers  == 1..MaxHandlers
NoHandler == 0

(* session_type_ is mirroring_session. *)
Began == begins > 0

Init ==
  /\ conn = "open"
  /\ begins = 0
  /\ held = FALSE
  /\ ended = 0
  /\ abrupt = FALSE
  /\ handlers = 0
  /\ handler = NoHandler
  /\ streamSetups = 0
  /\ svc = [s \in Streams |-> "none"]
  /\ captured = [s \in Streams |-> NoHandler]
  /\ link = [s \in Streams |-> "none"]
  /\ thread = [s \in Streams |-> "none"]
  /\ stopping = NoStream
  /\ told = [h \in Handlers |-> [s \in Streams |-> "never"]]

-----------------------------------------------------------------------------
(* The application. *)

Register ==
  /\ handlers < MaxHandlers
  /\ handlers' = handlers + 1
  /\ handler' = handlers + 1

(* set_mirroring_handler: of a mirroring session only.  The application calls
   it on the pointer that it holds or, as the Android wrapper does, on a weak
   pointer while the session exists. *)
SetHandler ==
  /\ conn \in {"open", "closed"}
  /\ Began
  /\ Register
  /\ UNCHANGED <<connVars, streamVars, told>>

Release ==
  /\ held
  /\ held' = FALSE
  /\ UNCHANGED <<conn, begins, ended, abrupt, streamVars, appVars>>

(* A call of a notification of stream s, if a handler is set. *)
Notify(s, event) ==
  told' = IF handler = NoHandler THEN told ELSE [told EXCEPT ![handler][s] = event]

-----------------------------------------------------------------------------
(* Requests. *)

Ready == conn = "open" /\ stopping = NoStream

(* SETUP without streams: the application registers a handler in its
   on_session_begin, and may keep the session. *)
SetupSession ==
  /\ Ready
  /\ begins < MaxSessionSetups
  /\ begins' = begins + 1
  /\ Register
  /\ held' \in {held, AppMayHold}
  /\ UNCHANGED <<conn, ended, abrupt, streamVars, told>>

(* SETUP of a stream.  The service is created only if there is none, and
   captures the handler of that moment.  The sender learns the port from the
   response, so that no data arrives before the handler is notified. *)
SetupStream(s) ==
  /\ Ready
  /\ streamSetups < MaxStreamSetups
  /\ streamSetups' = streamSetups + 1
  /\ Notify(s, "started")
  /\ IF svc[s] = "none"
     THEN /\ svc' = [svc EXCEPT ![s] = "running"]
          /\ captured' = [captured EXCEPT ![s] = handler]
          /\ link' = [link EXCEPT ![s] = IF s = "video" THEN "listening" ELSE "up"]
          /\ thread' = [thread EXCEPT ![s] = "idle"]
     ELSE UNCHANGED <<svc, captured, link, thread>>
  /\ UNCHANGED <<connVars, stopping, handlers, handler>>

(* TEARDOWN of a stream. *)
Teardown(s) ==
  /\ Ready
  /\ IF svc[s] = "none"
     THEN Notify(s, "stopped") /\ UNCHANGED stopping
     ELSE stopping' = s /\ UNCHANGED told
  /\ UNCHANGED <<connVars, svc, captured, link, thread, streamSetups, handlers, handler>>

(* The sender or the network closes the connection, or the application calls
   disconnect: no read is posted any more. *)
Close ==
  /\ Ready
  /\ conn' = "closed"
  /\ abrupt' = (\E s \in Streams : svc[s] # "none")
  /\ UNCHANGED <<begins, held, ended, streamVars, appVars>>

-----------------------------------------------------------------------------
(* Stopping a service, in TEARDOWN and in the destructor. *)

(* cleanup of a TCP service, close of a UDP service: io_context_.stop() ... *)
StopThread(s) ==
  /\ stopping = s
  /\ svc[s] = "running"
  /\ svc' = [svc EXCEPT ![s] = "stopping"]
  /\ UNCHANGED <<connVars, captured, link, thread, stopping, streamSetups, appVars>>

(* Wrong: the thread is detached instead of joined. *)
Detached(s) ==
  /\ stopping = s
  /\ svc[s] = "stopping"
  /\ svc' = [svc EXCEPT ![s] = "none"]
  /\ link' = [link EXCEPT ![s] = "none"]
  /\ stopping' = NoStream
  /\ IF conn = "open" THEN Notify(s, "stopped") ELSE UNCHANGED told
  /\ UNCHANGED <<connVars, captured, thread, streamSetups, handlers, handler>>

(* Wrong: the handler is not notified. *)
JoinedSilently(s) ==
  /\ stopping = s
  /\ svc[s] = "stopping"
  /\ thread[s] = "idle"
  /\ svc' = [svc EXCEPT ![s] = "none"]
  /\ captured' = [captured EXCEPT ![s] = NoHandler]
  /\ link' = [link EXCEPT ![s] = "none"]
  /\ thread' = [thread EXCEPT ![s] = "none"]
  /\ stopping' = NoStream
  /\ UNCHANGED <<connVars, streamSetups, appVars>>

(* ... and join, which returns when the thread has left its callback.  Only
   TEARDOWN notifies the handler. *)
Joined(s) ==
  /\ stopping = s
  /\ svc[s] = "stopping"
  /\ thread[s] = "idle"
  /\ svc' = [svc EXCEPT ![s] = "none"]
  /\ captured' = [captured EXCEPT ![s] = NoHandler]
  /\ link' = [link EXCEPT ![s] = "none"]
  /\ thread' = [thread EXCEPT ![s] = "none"]
  /\ stopping' = NoStream
  /\ IF conn = "open" THEN Notify(s, "stopped") ELSE UNCHANGED told
  /\ UNCHANGED <<connVars, streamSetups, handlers, handler>>

(* Wrong: the streams keep the connection alive. *)
DestroyWhenIdle ==
  /\ conn = "closed"
  /\ ~held
  /\ \A s \in Streams : svc[s] = "none"
  /\ conn' = "dying"
  /\ ended' = IF Began THEN ended + 1 ELSE ended
  /\ handler' = NoHandler
  /\ UNCHANGED <<begins, held, abrupt, streamVars, handlers, told>>

(* The last reference to the connection is dropped: its destructor calls
   on_session_end ... *)
Destroy ==
  /\ conn = "closed"
  /\ ~held
  /\ conn' = "dying"
  /\ ended' = IF Began THEN ended + 1 ELSE ended
  /\ handler' = NoHandler
  /\ UNCHANGED <<begins, held, abrupt, streamVars, handlers, told>>

(* Wrong: the video service is leaked. *)
DestroyAudioOnly ==
  /\ conn = "dying"
  /\ stopping = NoStream
  /\ IF svc["audio"] # "none"
     THEN stopping' = "audio" /\ UNCHANGED conn
     ELSE conn' = "gone" /\ UNCHANGED stopping
  /\ UNCHANGED <<begins, held, ended, abrupt, svc, captured, link, thread, streamSetups, appVars>>

(* ... then its members are destroyed in the reverse order of declaration. *)
DestroyMember ==
  /\ conn = "dying"
  /\ stopping = NoStream
  /\ \/ /\ svc["audio"] # "none"
        /\ stopping' = "audio"
        /\ UNCHANGED conn
     \/ /\ svc["audio"] = "none"
        /\ svc["video"] # "none"
        /\ stopping' = "video"
        /\ UNCHANGED conn
     \/ /\ \A s \in Streams : svc[s] = "none"
        /\ conn' = "gone"
        /\ UNCHANGED stopping
  /\ UNCHANGED <<begins, held, ended, abrupt, svc, captured, link, thread, streamSetups, appVars>>

-----------------------------------------------------------------------------
(* The thread of a stream service. *)

(* The acceptor takes one connection only. *)
Accept(s) ==
  /\ svc[s] = "running"
  /\ link[s] = "listening"
  /\ link' = [link EXCEPT ![s] = "up"]
  /\ UNCHANGED <<connVars, svc, captured, thread, stopping, streamSetups, appVars>>

(* The sender closes the video connection, or the network fails: the pending
   read completes with an error and no other is posted. *)
LinkDown(s) ==
  /\ svc[s] = "running"
  /\ link[s] = "up"
  /\ thread[s] = "idle"
  /\ link' = [link EXCEPT ![s] = "down"]
  /\ UNCHANGED <<connVars, svc, captured, thread, stopping, streamSetups, appVars>>

(* Wrong: the io_context is not stopped. *)
BeginDataAlways(s) ==
  /\ svc[s] # "none"
  /\ link[s] = "up"
  /\ captured[s] # NoHandler
  /\ thread[s] = "idle"
  /\ thread' = [thread EXCEPT ![s] = "busy"]
  /\ UNCHANGED <<connVars, svc, captured, link, stopping, streamSetups, appVars>>

BeginData(s) ==
  /\ svc[s] = "running"
  /\ link[s] = "up"
  /\ captured[s] # NoHandler
  /\ thread[s] = "idle"
  /\ thread' = [thread EXCEPT ![s] = "busy"]
  /\ UNCHANGED <<connVars, svc, captured, link, stopping, streamSetups, appVars>>

EndData(s) ==
  /\ thread[s] = "busy"
  /\ thread' = [thread EXCEPT ![s] = "idle"]
  /\ UNCHANGED <<connVars, svc, captured, link, stopping, streamSetups, appVars>>

-----------------------------------------------------------------------------
Stop(s) == StopThread(s) \/ Joined(s)

Requests == SetupSession \/ (\E s \in Streams : SetupStream(s) \/ Teardown(s)) \/ Close

Next ==
  \/ Requests
  \/ SetHandler \/ Release
  \/ Destroy \/ DestroyMember
  \/ \E s \in Streams : Stop(s) \/ Accept(s) \/ LinkDown(s) \/ BeginData(s) \/ EndData(s)

Spec == Init /\ [][Next]_vars

(* The threads of the program run, callbacks return, and the application does
   not keep a session for ever.  Nothing is assumed of the sender. *)
FairSpec ==
  /\ Spec
  /\ WF_vars(Release)
  /\ WF_vars(Destroy)
  /\ WF_vars(DestroyMember)
  /\ \A s \in Streams : WF_vars(Stop(s)) /\ WF_vars(EndData(s))

-----------------------------------------------------------------------------
(* The types of the variables. *)
TypeOK ==
  /\ conn \in {"open", "closed", "dying", "gone"}
  /\ begins \in 0..MaxSessionSetups
  /\ held \in BOOLEAN
  /\ ended \in 0..1
  /\ abrupt \in BOOLEAN
  /\ handlers \in 0..MaxHandlers
  /\ handler \in Handlers \cup {NoHandler}
  /\ streamSetups \in 0..MaxStreamSetups
  /\ svc \in [Streams -> {"none", "running", "stopping"}]
  /\ captured \in [Streams -> Handlers \cup {NoHandler}]
  /\ link \in [Streams -> {"none", "listening", "up", "down"}]
  /\ thread \in [Streams -> {"none", "idle", "busy"}]
  /\ stopping \in Streams \cup {NoStream}
  /\ told \in [Handlers -> [Streams -> {"never", "started", "stopped"}]]

(* When a sender tears its streams down before it leaves, no stream thread
   calls the application, and none works on a service whose members are being
   destroyed, once on_session_end has been called. *)
QuietAfterEnd ==
  conn \in {"dying", "gone"} /\ ~abrupt => \A s \in Streams : thread[s] # "busy"

(* The connection object is destroyed with its streams only after the threads
   that use them have ended, and the end of a session that began is reported
   exactly once. *)
GoneIsClean ==
  conn = "gone" =>
    /\ \A s \in Streams : thread[s] = "none" /\ captured[s] = NoHandler
    /\ ended = IF Began THEN 1 ELSE 0

(* "Gets called when the mirroring video stream stopped", "Gets called when
   the audio stream session stopped": a handler that was told that a stream
   started is told that it stopped before the session is gone. *)
StopIsAlwaysReported ==
  conn = "gone" => \A h \in Handlers, s \in Streams : told[h][s] # "started"

(* The code keeps to it when the sender tears its streams down before it leaves
   and the application does not replace its handler. *)
StopIsReported == ~abrupt /\ handlers <= 1 => StopIsAlwaysReported

(* The session implements the protocol of callbacks that every handler may
   rely on, for each of its streams. *)
Callbacks ==
  INSTANCE StreamCallbacks
  WITH phase <- told,
       receiving <- [h \in Handlers |-> [s \in Streams |-> captured[s] = h /\ thread[s] = "busy"]]
CallbacksInOrder == Callbacks!Spec

(* A request that stops a stream is answered, whatever data keeps coming. *)
TeardownIsAnswered == \A s \in Streams : stopping = s ~> stopping = NoStream

(* A session whose connection is closed ends. *)
SessionEnds == conn = "closed" ~> conn = "gone"
=============================================================================
