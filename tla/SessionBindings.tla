-------------------------- MODULE SessionBindings ---------------------------
(***************************************************************************)
(* The sessions of the receiver as an application in Java or Objective-C   *)
(* sees them, through the wrappers of platforms/android and                *)
(* platforms/apple.                                                        *)
(*                                                                         *)
(* on_session_begin makes a wrapper of the session and hands it to the     *)
(* application, which may keep it.  On Android the wrapper is a Java       *)
(* object with a native peer, which holds the session weakly and is        *)
(* deleted by the finalizer; every call of the wrapper locks the weak      *)
(* pointer.  On Apple's systems the wrapper holds the session itself.      *)
(* The application's handlers are called through native proxies: on        *)
(* Android a proxy is never deleted, and can reach Java only from a thread *)
(* that is attached to the virtual machine; on Apple's systems the session *)
(* and its streams share it.                                               *)
(*                                                                         *)
(* Three kinds of threads meet: that of ap_airplay_service, which runs the *)
(* requests of all sessions; the threads of the streams, which call the    *)
(* handler that they captured; and the application's, which call the       *)
(* wrappers.  The application is assumed to call no session from the       *)
(* callbacks of a stream.                                                  *)
(***************************************************************************)
EXTENDS Naturals, Sequences

CONSTANTS
  Platforms,   \* the platforms that are looked at
  Conns,       \* control connections
  Callers,     \* threads of the application that call sessions
  MaxBegins,   \* bound: calls of on_session_begin
  MaxProxies   \* bound: handlers that the application sets

ASSUME ConstantsAssumption ==
  /\ Platforms \subseteq {"android", "apple"}
  /\ MaxBegins \in Nat
  /\ MaxProxies \in Nat

VARIABLES
  platform,
  service,    \* "running"; "stopping": its io_context is stopped and its
              \* thread is being joined; "stopped": destroyed, with its io_context
  conn,       \* per connection, "none", "open" (a read is posted), "closed"
              \* (none is), "orphan" (its io_context is gone), "gone" (destroyed)
  shut,       \* connections whose socket disconnect() has closed
  kind,       \* session_type_
  handler,    \* the proxy in mirroring_session_handler_ or
              \* video_session_handler_, NoProxy if none
  captured,   \* the proxy that the thread of the session's stream calls,
              \* NoProxy when it has no stream
  ends,       \* per connection, calls of on_session_end that the application got
  wrappers,   \* the wrappers made: the session's connection, who refers to it
              \* ("callback", "app" or nobody: "garbage"), and whether its
              \* native peer exists
  proxies,    \* proxies attached so far
  freed,      \* proxies deleted while the session that they were set for exists
  callback,   \* what the service's thread is doing in the application
  streaming,  \* connections whose stream thread is in the application
  call,       \* per caller, the wrapper whose session it has locked, or NoWrapper
  lost        \* a casting event did not reach the application (history variable)

coreVars    == <<service, conn, shut, kind, handler, captured, ends>>
appVars     == <<wrappers, proxies, freed, callback, streaming, call, lost>>
bindingVars == <<platform, coreVars, appVars>>

NoProxy   == 0
Proxies   == 1..MaxProxies
NoWrapper == 0
Wrappers  == DOMAIN wrappers
Idle      == [event |-> "none"]

BindingsInit ==
  /\ platform \in Platforms
  /\ service = "running"
  /\ conn = [c \in Conns |-> "none"]
  /\ shut = {}
  /\ kind = [c \in Conns |-> "unknown"]
  /\ handler = [c \in Conns |-> NoProxy]
  /\ captured = [c \in Conns |-> NoProxy]
  /\ ends = [c \in Conns |-> 0]
  /\ wrappers = <<>>
  /\ proxies = 0
  /\ freed = {}
  /\ callback = Idle
  /\ streaming = {}
  /\ call = [t \in Callers |-> NoWrapper]
  /\ lost = FALSE

-----------------------------------------------------------------------------
(* The requests of a session that call the application, and what they call.  *)

None == "none"

CastingRequests ==
  [path : {"/play", "/scrub", "/rate", "/stop", "/playback-info"}, text : {"decimal", "other"}]

(* get_scrub_position, get_rate_value: a number is one with a decimal point. *)
HasValue(req) == req.text = "decimal"

(* The method of the casting handler that a request to control the playback
   calls. *)
ControlledBy(req) ==
  CASE req.path = "/scrub" /\ HasValue(req) -> "on_video_scrub"
    [] req.path = "/rate" /\ HasValue(req) -> "on_video_rate"
    [] req.path = "/stop" -> "on_video_stop"
    [] OTHER -> None

(* That of any request; the answer to /playback-info is made of what the
   application says. *)
CalledBy(req) ==
  CASE req.path = "/play" -> "on_video_play"
    [] req.path = "/playback-info" -> "on_acquire_playback_info"
    [] OTHER -> ControlledBy(req)

-----------------------------------------------------------------------------
(* Who is attached, what is forwarded, what is held. *)

(* Wrong: create_aps_thread does not attach the threads it creates. *)
AttachedCallersOnly == {"caller"}

(* create_aps_thread attaches its thread to the virtual machine as long as it
   runs; the application's threads are Java's. *)
Attached == {"caller", "service", "stream"}

(* getJNIEnv: a proxy calls nothing on a thread that is not attached. *)
Reaches(thread) == platform = "apple" \/ thread \in Attached

(* sid of APCastingHandler: the session's at construction, and again in
   on_video_play. *)
Sid(c) == c

(* APCastingHandler forwards a control event only if its sid differs. *)
Forwards(c, method) ==
  /\ Reaches("service")
  /\ platform = "android" \/ method = "on_video_play" \/ Sid(c) # c

(* APMirroringHandler, and the proxies of Android, forward every event of a
   mirroring session. *)
ForwardsMirroring(thread) == Reaches(thread)

(* A new wrapper.  The native peer of Android is attached to the Java object
   by a weak reference. *)
NewWrapper(c) == [conn |-> c, ref |-> "callback", peer |-> TRUE]

(* Wrong: the wrapper of Android keeps the session, as that of Apple does. *)
HoldsAlways(w, c) == wrappers[w].conn = c /\ wrappers[w].ref # "garbage"

(* The wrapper holds an ap_session_ptr or, on Android, a weak one. *)
Holds(w, c) ==
  platform = "apple" /\ wrappers[w].conn = c /\ wrappers[w].ref # "garbage"

(* The references to a session, besides that of a posted read. *)
Referenced(c) ==
  \/ callback.event # "none" /\ callback.conn = c
  \/ \E t \in Callers : call[t] # NoWrapper /\ wrappers[call[t]].conn = c
  \/ \E w \in Wrappers : Holds(w, c)

(* The end of the sessions that a step of the thread destroys. *)
ReportEnds(thread) ==
  ends' = [c \in Conns |->
            IF conn[c] # "gone" /\ conn'[c] = "gone" /\ kind[c] # "unknown" /\ Reaches(thread)
            THEN ends[c] + 1 ELSE ends[c]]

(* A step that drops references destroys the connections that have none left. *)
Released(thread) ==
  /\ conn' = [c \in Conns |-> IF conn[c] \in {"closed", "orphan"} /\ ~Referenced(c)'
                              THEN "gone" ELSE conn[c]]
  /\ ReportEnds(thread)

-----------------------------------------------------------------------------
(* The thread of the service. *)

Ready == service = "running" /\ callback = Idle

(* A request that is handled.  A connection is used for one kind of session. *)
Requested(c, k) ==
  /\ Ready
  /\ conn[c] = "open"
  /\ c \notin shut
  /\ kind[c] \in {"unknown", k}

Connect(c) ==
  /\ Ready
  /\ conn[c] = "none"
  /\ conn' = [conn EXCEPT ![c] = "open"]
  /\ UNCHANGED <<platform, service, shut, kind, handler, captured, ends, appVars>>

(* SETUP, or GET /server-info: on_session_begin makes a wrapper, with a local
   reference to it, and calls the application. *)
SessionBegin(c, k) ==
  /\ Requested(c, k)
  /\ Len(wrappers) < MaxBegins
  /\ kind' = [kind EXCEPT ![c] = k]
  /\ IF Reaches("service")
     THEN /\ wrappers' = Append(wrappers, NewWrapper(c))
          /\ callback' = [event |-> "begin", conn |-> c, wrapper |-> Len(wrappers')]
     ELSE UNCHANGED <<wrappers, callback>>
  /\ UNCHANGED <<platform, service, conn, shut, handler, captured, ends,
                 proxies, freed, streaming, call, lost>>

(* The proxy that is deleted when the handler of c is replaced.  On Apple's systems
   the session shares it with the stream that captured it, and the last of them
   deletes it.  On Android the proxy and the handler that the session gets own
   each other, so that neither is ever deleted. *)
Replaced(c) == IF platform = "apple" THEN {handler[c]} \ {NoProxy, captured[c]} ELSE {}

(* Wrong: the proxy that is replaced is deleted, whoever shares it. *)
SetSessionHandlerFreeing ==
  /\ callback.event = "begin"
  /\ proxies < MaxProxies
  /\ proxies' = proxies + 1
  /\ handler' = [handler EXCEPT ![callback.conn] = proxies']
  /\ freed' = freed \cup ({handler[callback.conn]} \ {NoProxy})
  /\ UNCHANGED <<platform, service, conn, shut, kind, captured, ends,
                 wrappers, callback, streaming, call, lost>>

(* The application sets the handler of the session that begins: a new proxy
   with a global reference to the handler. *)
SetSessionHandler ==
  /\ callback.event = "begin"
  /\ proxies < MaxProxies
  /\ proxies' = proxies + 1
  /\ handler' = [handler EXCEPT ![callback.conn] = proxies']
  /\ freed' = freed \cup Replaced(callback.conn)
  /\ UNCHANGED <<platform, service, conn, shut, kind, captured, ends,
                 wrappers, callback, streaming, call, lost>>

(* The proxy is in the application: which method it called makes no difference
   to what may happen meanwhile. *)
Handling(c) == [event |-> "method", conn |-> c, proxy |-> handler[c]]

CastingEvent(c, method) ==
  /\ Requested(c, "casting")
  /\ handler[c] # NoProxy
  /\ IF Forwards(c, method)
     THEN callback' = Handling(c) /\ UNCHANGED lost
     ELSE lost' = TRUE /\ UNCHANGED callback
  /\ UNCHANGED <<platform, coreVars, wrappers, proxies, freed, streaming, call>>

(* A request of a mirroring sender that calls the handler: volume, progress,
   cover, a stream that starts or stops. *)
MirroringEvent(c) ==
  /\ Requested(c, "mirroring")
  /\ handler[c] # NoProxy
  /\ ForwardsMirroring("service")
  /\ callback' = Handling(c)
  /\ UNCHANGED <<platform, coreVars, wrappers, proxies, freed, streaming, call, lost>>

(* The application's method returns.  The local reference to a new wrapper is
   deleted; the application may have kept the wrapper. *)
EndCallback ==
  /\ callback # Idle
  /\ callback' = Idle
  /\ IF callback.event = "begin"
     THEN \E ref \in {"app", "garbage"} :
            wrappers' = [wrappers EXCEPT ![callback.wrapper].ref = ref]
     ELSE UNCHANGED wrappers
  /\ UNCHANGED <<platform, service, shut, kind, handler, captured,
                 proxies, freed, streaming, call, lost>>
  /\ Released("service")

(* The sender leaves, or the socket is closed: the read fails and no other is
   posted. *)
Close(c) ==
  /\ Ready
  /\ conn[c] = "open"
  /\ conn' = [conn EXCEPT ![c] = IF Referenced(c) THEN "closed" ELSE "gone"]
  /\ ReportEnds("service")
  /\ UNCHANGED <<platform, service, shut, kind, handler, captured, appVars>>

-----------------------------------------------------------------------------
(* The threads of the streams. *)

(* SETUP of a stream: its service captures the handler. *)
StartStream(c) ==
  /\ Requested(c, "mirroring")
  /\ handler[c] # NoProxy
  /\ captured[c] = NoProxy
  /\ captured' = [captured EXCEPT ![c] = handler[c]]
  /\ UNCHANGED <<platform, service, conn, shut, kind, handler, ends, appVars>>

StreamEvent(c) ==
  /\ conn[c] \in {"open", "closed"}
  /\ captured[c] # NoProxy
  /\ ForwardsMirroring("stream")
  /\ c \notin streaming
  /\ streaming' = streaming \cup {c}
  /\ UNCHANGED <<platform, coreVars, wrappers, proxies, freed, callback, call, lost>>

EndStreamEvent(c) ==
  /\ c \in streaming
  /\ streaming' = streaming \ {c}
  /\ UNCHANGED <<platform, coreVars, wrappers, proxies, freed, callback, call, lost>>

-----------------------------------------------------------------------------
(* The application. *)

(* A call of a wrapper: the peer locks its weak pointer.  When the session is
   gone the call returns at once. *)
BeginCall(t, w) ==
  /\ call[t] = NoWrapper
  /\ wrappers[w].ref = "app"
  /\ conn[wrappers[w].conn] # "gone"
  /\ call' = [call EXCEPT ![t] = w]
  /\ UNCHANGED <<platform, coreVars, wrappers, proxies, freed, callback, streaming, lost>>

(* The call is carried out (disconnect closes the socket, the others read the
   session) and the session unlocked. *)
EndCall(t) ==
  /\ call[t] # NoWrapper
  /\ call' = [call EXCEPT ![t] = NoWrapper]
  /\ shut' \in {shut, shut \cup {wrappers[call[t]].conn}}
  /\ UNCHANGED <<platform, service, kind, handler, captured,
                 wrappers, proxies, freed, callback, streaming, lost>>
  /\ Released("caller")

Unused(w) == \A t \in Callers : call[t] # w

Forget(w) ==
  /\ wrappers[w].ref = "app"
  /\ Unused(w)
  /\ wrappers' = [wrappers EXCEPT ![w].ref = "garbage"]
  /\ UNCHANGED <<platform, service, shut, kind, handler, captured,
                 proxies, freed, callback, streaming, call, lost>>
  /\ Released("caller")

(* The finalizer of a wrapper nobody refers to deletes its peer. *)
Finalize(w) ==
  /\ wrappers[w].ref = "garbage"
  /\ wrappers[w].peer
  /\ wrappers' = [wrappers EXCEPT ![w].peer = FALSE]
  /\ UNCHANGED <<platform, coreVars, proxies, freed, callback, streaming, call, lost>>

(* stop() of the server: its io_context is stopped, ... *)
Stop ==
  /\ service = "running"
  /\ service' = "stopping"
  /\ UNCHANGED <<platform, conn, shut, kind, handler, captured, ends, appVars>>

(* ... its thread joined when the callback that it is in returns, and the
   io_context destroyed with all reads that are posted. *)
Stopped ==
  /\ service = "stopping"
  /\ callback = Idle
  /\ service' = "stopped"
  /\ conn' = [c \in Conns |-> IF conn[c] \notin {"open", "closed"} THEN conn[c]
                              ELSE IF Referenced(c) THEN "orphan" ELSE "gone"]
  /\ ReportEnds("caller")
  /\ UNCHANGED <<platform, shut, kind, handler, captured, appVars>>

Start ==
  /\ service = "stopped"
  /\ service' = "running"
  /\ UNCHANGED <<platform, conn, shut, kind, handler, captured, ends, appVars>>

-----------------------------------------------------------------------------
BindingsNext ==
  \/ \E c \in Conns :
       \/ Connect(c) \/ Close(c)
       \/ \E k \in {"mirroring", "casting"} : SessionBegin(c, k)
       \/ \E req \in CastingRequests : CalledBy(req) # None /\ CastingEvent(c, CalledBy(req))
       \/ MirroringEvent(c)
       \/ StartStream(c) \/ StreamEvent(c) \/ EndStreamEvent(c)
  \/ SetSessionHandler \/ EndCallback
  \/ \E t \in Callers : EndCall(t) \/ \E w \in Wrappers : BeginCall(t, w)
  \/ \E w \in Wrappers : Forget(w) \/ Finalize(w)
  \/ Stop \/ Stopped \/ Start

BindingsSpec == BindingsInit /\ [][BindingsNext]_bindingVars

(* The methods of the application return, and a service that is stopped comes
   to rest.  Nothing is assumed of senders, or of what the application keeps. *)
FairBindingsSpec ==
  /\ BindingsSpec
  /\ WF_bindingVars(EndCallback)
  /\ WF_bindingVars(Stopped)
  /\ \A t \in Callers : WF_bindingVars(EndCall(t))

-----------------------------------------------------------------------------
Kept(c) == \E w \in Wrappers : wrappers[w].conn = c /\ wrappers[w].ref = "app"

(* "The session is ending": the application is told of the end of every session
   that it was told of, once its connection is closed or the server is stopped.
   An application that keeps the wrapper until then is told on Android, not on
   Apple's systems, where the wrapper keeps the session. *)
EndIsReported ==
  \A c \in Conns :
    kind[c] # "unknown" /\ conn[c] \in {"closed", "orphan", "gone"}
      ~> ends[c] = 1 \/ (platform = "apple" /\ Kept(c))

(* No session outlives the io_context that its socket belongs to, but for one
   that a call holds at the moment when the server stops, and on Apple's systems
   one that the application keeps. *)
NoneOutlivesItsService ==
  \A c \in Conns : conn[c] = "orphan" =>
    \/ \E t \in Callers : call[t] # NoWrapper /\ wrappers[call[t]].conn = c
    \/ platform = "apple" /\ Kept(c)

(* No thread is in the application by way of a proxy, or in a session by way of
   a peer, that has been deleted: not even when the handler is replaced while a
   stream that captured the one before still runs. *)
NothingDeletedIsUsed ==
  /\ callback.event = "begin" => wrappers[callback.wrapper].peer
  /\ callback.event = "method" => callback.proxy \notin freed
  /\ \A c \in streaming : captured[c] \notin freed
  /\ \A t \in Callers : call[t] # NoWrapper => wrappers[call[t]].peer

(* on_video_play, on_video_scrub, on_video_rate, on_video_stop and
   on_acquire_playback_info of a session reach the handler that the application
   has set: "Gets called when the video stream session stopped", and the like of
   the others.  Those of Apple's systems but the first do not. *)
CastingEventsArrive == ~lost
=============================================================================
