-------------------------- MODULE ServerLifecycle ---------------------------
(***************************************************************************)
(* ap_server: start() and stop() of the receiver.  The application starts  *)
(* the AirPlay service (a thread, an acceptor and its sessions) and the    *)
(* media service, then has both advertised over multicast DNS; stop()      *)
(* suppresses the advertisements and takes the AirPlay service down while  *)
(* its thread may be accepting a sender or calling the application.        *)
(*                                                                         *)
(* The calls of the application are made by one thread, step by step, and  *)
(* interleave with the steps of the thread of the AirPlay service.  The    *)
(* n-th start takes the ephemeral port n.  The application stops the       *)
(* server before it deletes it, and changes publishService of the          *)
(* configuration only while the server is stopped.                         *)
(***************************************************************************)
EXTENDS Naturals

CONSTANTS
  Sessions,    \* connections that senders may open
  MaxStarts,   \* bound: starts of the AirPlay service
  MayThrow,    \* may the system refuse a thread or a socket (asio throws)?
  AppMayHold   \* may the application keep an ap_session_ptr?

ASSUME ConstantsAssumption ==
  /\ MaxStarts \in Nat
  /\ MayThrow \in BOOLEAN
  /\ AppMayHold \in BOOLEAN

VARIABLES
  at,         \* the next step of the application's call, "out" of any call
  told,       \* how the last start() ended, "stopped" after stop()
  threw,      \* start() has thrown since the last stop() (history variable)
  starts,     \* starts of the AirPlay service so far
  publishes,  \* publishService() of the configuration
  service,    \* port of airplay_tcp_service_, NoPort when null
  listening,  \* ports on which an AirPlay service listens
  accepting,  \* it has an accept posted
  thread,     \* thread of the AirPlay service: "none", "idle" or "busy"
              \* (calling the application)
  media,      \* port of the running media service
  root,       \* port in the store's URIs
  dnsRef,     \* dns_service_ of airplay_net_service_ and raop_net_service_
  advertised, \* what the daemon advertises: pairs of a type and a port
  session,    \* per connection: "none", "open", "left" (no read is posted any
              \* more), "orphan" (its io_context is gone) or "gone"
  held,       \* the connections whose ap_session_ptr the application holds
  reported    \* per connection, what the application was told of its session:
              \* "nothing", "begin" or "end" (history variable)

callVars    == <<at, told, threw, starts, publishes>>
serviceVars == <<service, listening, accepting, thread>>
mediaVars   == <<media, root>>
dnsVars     == <<dnsRef, advertised>>
sessionVars == <<session, held, reported>>
vars == <<callVars, serviceVars, mediaVars, dnsVars, sessionVars>>

NoPort == 0
Ports  == 1..MaxStarts
Types  == {"airplay", "raop"}
Calls  == {"media", "airplay", "raop", "unpublish", "suppress airplay",
           "suppress raop", "stop context", "join", "drop", "delete"}

Init ==
  /\ at = "out"
  /\ told = "stopped"
  /\ threw = FALSE
  /\ starts = 0
  /\ publishes \in BOOLEAN
  /\ service = NoPort
  /\ listening = {}
  /\ accepting = FALSE
  /\ thread = "none"
  /\ media = NoPort
  /\ root = NoPort
  /\ dnsRef = [t \in Types |-> NoPort]
  /\ advertised = {}
  /\ session = [s \in Sessions |-> "none"]
  /\ held = {}
  /\ reported = [s \in Sessions |-> "nothing"]

-----------------------------------------------------------------------------
(* start(). *)

StartAgain ==
  /\ at = "out"
  /\ service # NoPort
  /\ told' = "true"
  /\ UNCHANGED <<at, threw, starts, publishes, serviceVars, mediaVars, dnsVars, sessionVars>>

(* An exception leaves start() with whatever was set up until then. *)
Throw ==
  /\ MayThrow
  /\ at' = "out"
  /\ told' = "thrown"
  /\ threw' = TRUE

(* The service is created, with its thread and then its acceptor, and the first
   connection is prepared and an accept posted. *)
StartService ==
  /\ at = "out"
  /\ service = NoPort
  /\ starts < MaxStarts
  /\ starts' = starts + 1
  /\ \/ /\ service' = starts'
        /\ listening' = listening \cup {starts'}
        /\ accepting' = TRUE
        /\ thread' = "idle"
        /\ at' = "media"
        /\ UNCHANGED <<told, threw>>
     \/ /\ Throw
        /\ UNCHANGED accepting
        /\ \/ UNCHANGED <<service, listening, thread>>
           \/ service' = starts' /\ UNCHANGED <<listening, thread>>
           \/ service' = starts' /\ thread' = "idle" /\ listening' \in {listening, {starts'}}
  /\ UNCHANGED <<publishes, mediaVars, dnsVars, sessionVars>>

(* The new media service replaces the one of an earlier start. *)
StartMedia ==
  /\ at = "media"
  /\ \/ /\ media' = service
        /\ root' = service
        /\ at' = IF publishes THEN "airplay" ELSE "out"
        /\ told' = IF publishes THEN told ELSE "true"
        /\ UNCHANGED threw
     \/ /\ Throw
        /\ media' \in {media, NoPort}
        /\ UNCHANGED root
  /\ UNCHANGED <<starts, publishes, serviceVars, dnsVars, sessionVars>>

(* publish of a net_service. *)
Register(t) ==
  /\ dnsRef' = [dnsRef EXCEPT ![t] = service]
  /\ advertised' = advertised \cup {<<t, service>>}

PublishAirplay ==
  /\ at = "airplay"
  /\ \/ /\ Register("airplay")
        /\ at' = "raop"
        /\ UNCHANGED told
     \/ /\ at' = "stop context"
        /\ told' = "false"
        /\ UNCHANGED dnsVars
  /\ UNCHANGED <<threw, starts, publishes, serviceVars, mediaVars, sessionVars>>

(* Wrong: the first advertisement stays when the second fails. *)
PublishRaopOnly ==
  /\ at = "raop"
  /\ \/ /\ Register("raop")
        /\ at' = "out"
        /\ told' = "true"
     \/ /\ at' = "stop context"
        /\ told' = "false"
        /\ UNCHANGED dnsVars
  /\ UNCHANGED <<threw, starts, publishes, serviceVars, mediaVars, sessionVars>>

PublishRaop ==
  /\ at = "raop"
  /\ \/ /\ Register("raop")
        /\ at' = "out"
        /\ told' = "true"
     \/ /\ at' = "unpublish"
        /\ told' = "false"
        /\ UNCHANGED dnsVars
  /\ UNCHANGED <<threw, starts, publishes, serviceVars, mediaVars, sessionVars>>

-----------------------------------------------------------------------------
(* stop(), the end of a failed start(), and the destructor. *)

(* Wrong: the reference is kept, as suppress of mdns/Android does. *)
SuppressKeepingRef(t) ==
  /\ advertised' = advertised \ {<<t, dnsRef[t]>>}
  /\ UNCHANGED dnsRef

(* suppress of a net_service. *)
Suppress(t) ==
  /\ advertised' = advertised \ {<<t, dnsRef[t]>>}
  /\ dnsRef' = [dnsRef EXCEPT ![t] = NoPort]

TakeDown == IF service = NoPort THEN "out" ELSE "stop context"

Unpublish ==
  /\ at = "unpublish"
  /\ Suppress("airplay")
  /\ at' = "stop context"
  /\ UNCHANGED <<told, threw, starts, publishes, serviceVars, mediaVars, sessionVars>>

Stop ==
  /\ at = "out"
  /\ told' = "stopped"
  /\ threw' = FALSE
  /\ at' = IF publishes THEN "suppress airplay" ELSE TakeDown
  /\ UNCHANGED <<starts, publishes, serviceVars, mediaVars, dnsVars, sessionVars>>

(* release_net_service. *)
SuppressAirplay ==
  /\ at = "suppress airplay"
  /\ Suppress("airplay")
  /\ at' = "suppress raop"
  /\ UNCHANGED <<told, threw, starts, publishes, serviceVars, mediaVars, sessionVars>>

SuppressRaop ==
  /\ at = "suppress raop"
  /\ Suppress("raop")
  /\ at' = IF told = "deleting" THEN "delete" ELSE TakeDown
  /\ UNCHANGED <<told, threw, starts, publishes, serviceVars, mediaVars, sessionVars>>

(* cleanup of the AirPlay service: its io_context takes no new handler ... *)
StopContext ==
  /\ at = "stop context"
  /\ at' = "join"
  /\ UNCHANGED <<told, threw, starts, publishes, serviceVars, mediaVars, dnsVars, sessionVars>>

(* Wrong: the thread is not waited for. *)
JoinNothing ==
  /\ at = "join"
  /\ at' = "drop"
  /\ UNCHANGED <<told, threw, starts, publishes, serviceVars, mediaVars, dnsVars, sessionVars>>

(* Wrong: the io_context is not stopped, so that its thread does not end. *)
JoinForEver ==
  /\ at = "join"
  /\ thread = "none"
  /\ at' = "drop"
  /\ UNCHANGED <<told, threw, starts, publishes, serviceVars, mediaVars, dnsVars, sessionVars>>

(* ... and its thread is joined, which waits for a callback in progress. *)
Join ==
  /\ at = "join"
  /\ thread # "busy"
  /\ thread' = "none"
  /\ at' = "drop"
  /\ UNCHANGED <<told, threw, starts, publishes, service, listening, accepting, mediaVars,
                 dnsVars, sessionVars>>

EndOf(s) == IF reported[s] = "begin" THEN "end" ELSE reported[s]

(* Wrong: airplay_tcp_service_ is not reset. *)
DropKeepingService ==
  /\ at = "drop"
  /\ at' = "out"
  /\ listening' = listening \ {service}
  /\ accepting' = FALSE
  /\ session' = [s \in Sessions |-> IF session[s] \notin {"open", "left"} THEN session[s]
                                    ELSE IF s \in held THEN "orphan" ELSE "gone"]
  /\ reported' = [s \in Sessions |-> IF session'[s] = "gone" THEN EndOf(s) ELSE reported[s]]
  /\ UNCHANGED <<told, threw, starts, publishes, service, thread, mediaVars, dnsVars, held>>

(* airplay_tcp_service_.reset(): the io_context is destroyed with the reads
   that are posted in it, and with them the connections that nobody else
   holds. *)
DropService ==
  /\ at = "drop"
  /\ at' = "out"
  /\ service' = NoPort
  /\ listening' = listening \ {service}
  /\ accepting' = FALSE
  /\ session' = [s \in Sessions |-> IF session[s] \notin {"open", "left"} THEN session[s]
                                    ELSE IF s \in held THEN "orphan" ELSE "gone"]
  /\ reported' = [s \in Sessions |-> IF session'[s] = "gone" THEN EndOf(s) ELSE reported[s]]
  /\ UNCHANGED <<told, threw, starts, publishes, thread, mediaVars, dnsVars, held>>

(* The destructor: release_net_service, then the media service. *)
Delete ==
  /\ at = "out"
  /\ service = NoPort
  /\ told' = "deleting"
  /\ at' = IF publishes THEN "suppress airplay" ELSE "delete"
  /\ UNCHANGED <<threw, starts, publishes, serviceVars, mediaVars, dnsVars, sessionVars>>

Deleted ==
  /\ at = "delete"
  /\ at' = "deleted"
  /\ media' = NoPort
  /\ UNCHANGED <<told, threw, starts, publishes, serviceVars, root, dnsVars, sessionVars>>

(* publishService of the configuration. *)
SetPublishService ==
  /\ at = "out"
  /\ service = NoPort
  /\ publishes' = ~publishes
  /\ UNCHANGED <<at, told, threw, starts, serviceVars, mediaVars, dnsVars, sessionVars>>

-----------------------------------------------------------------------------
(* The thread of the AirPlay service, and the application's hold on sessions. *)

Serving == thread = "idle" /\ service \in listening /\ at \notin {"join", "drop"}

(* on_accept.  A sender need not find the receiver by its advertisement. *)
Accept(s) ==
  /\ Serving
  /\ accepting
  /\ session[s] = "none"
  /\ session' = [session EXCEPT ![s] = "open"]
  /\ UNCHANGED <<callVars, serviceVars, mediaVars, dnsVars, held, reported>>

(* One failed accept ends the accept loop. *)
AcceptFails ==
  /\ MayThrow
  /\ Serving
  /\ accepting
  /\ accepting' = FALSE
  /\ UNCHANGED <<callVars, service, listening, thread, mediaVars, dnsVars, sessionVars>>

(* The first request of a session calls on_session_begin. *)
BeginSession(s) ==
  /\ Serving
  /\ session[s] = "open"
  /\ reported[s] = "nothing"
  /\ thread' = "busy"
  /\ reported' = [reported EXCEPT ![s] = "begin"]
  /\ held' \in {held, held \cup (IF AppMayHold THEN {s} ELSE {})}
  /\ UNCHANGED <<callVars, service, listening, accepting, mediaVars, dnsVars, session>>

CallbackReturns ==
  /\ thread = "busy"
  /\ thread' = "idle"
  /\ UNCHANGED <<callVars, service, listening, accepting, mediaVars, dnsVars, sessionVars>>

(* The last reference to connection s is dropped. *)
Destroy(s) ==
  /\ session' = [session EXCEPT ![s] = "gone"]
  /\ reported' = [reported EXCEPT ![s] = EndOf(s)]

(* A read of the connection fails: no other is posted. *)
Leave(s) ==
  /\ Serving
  /\ session[s] = "open"
  /\ IF s \in held
     THEN session' = [session EXCEPT ![s] = "left"] /\ UNCHANGED reported
     ELSE Destroy(s)
  /\ UNCHANGED <<callVars, serviceVars, mediaVars, dnsVars, held>>

(* The application lets go of a session.  The end of an orphan is reported
   before its socket is destroyed, whose io_context is gone. *)
Release(s) ==
  /\ s \in held
  /\ held' = held \ {s}
  /\ IF session[s] = "open" THEN UNCHANGED <<session, reported>> ELSE Destroy(s)
  /\ UNCHANGED <<callVars, serviceVars, mediaVars, dnsVars>>

-----------------------------------------------------------------------------
Call ==
  \/ StartMedia \/ PublishAirplay \/ PublishRaop \/ Unpublish
  \/ SuppressAirplay \/ SuppressRaop \/ StopContext \/ Join \/ DropService \/ Deleted

Next ==
  \/ StartAgain \/ StartService \/ Stop \/ Delete \/ SetPublishService
  \/ Call
  \/ \E s \in Sessions : Accept(s) \/ BeginSession(s) \/ Leave(s) \/ Release(s)
  \/ AcceptFails \/ CallbackReturns

Spec == Init /\ [][Next]_vars

(* Threads run and callbacks return. *)
FairSpec == Spec /\ WF_vars(Call) /\ WF_vars(CallbackReturns)

-----------------------------------------------------------------------------
(* The types of the variables. *)
TypeOK ==
  /\ at \in Calls \cup {"out", "deleted"}
  /\ told \in {"stopped", "true", "false", "thrown", "deleting"}
  /\ threw \in BOOLEAN
  /\ starts \in 0..MaxStarts
  /\ publishes \in BOOLEAN
  /\ service \in Ports \cup {NoPort}
  /\ listening \subseteq Ports
  /\ accepting \in BOOLEAN
  /\ thread \in {"none", "idle", "busy"}
  /\ media \in Ports \cup {NoPort}
  /\ root \in Ports \cup {NoPort}
  /\ dnsRef \in [Types -> Ports \cup {NoPort}]
  /\ advertised \subseteq Types \X Ports
  /\ session \in [Sessions -> {"none", "open", "left", "orphan", "gone"}]
  /\ held \subseteq Sessions
  /\ reported \in [Sessions -> {"nothing", "begin", "end"}]

(* What is advertised is there: a sender that finds the receiver can connect
   to it, whichever step of start() or stop() it meets.  (After a failed accept
   nobody takes the connection.) *)
AdvertisedIsListening == \A r \in advertised : r[2] \in listening

(* "Don't Double-Deallocate": a reference that suppress would deallocate is
   that of a registration in force, and every registration has one, without
   which it would stay for ever. *)
RefsAreRegistrations ==
  advertised = {<<t, dnsRef[t]>> : t \in {u \in Types : dnsRef[u] # NoPort}}

(* Outside of start() and stop(), a server without AirPlay service, be it that
   stop() was called or that start() failed, leaves nothing behind: no port, no
   thread, nothing advertised, and every session that began has been reported
   as ended unless the application keeps it. *)
IdleIsClean ==
  at \in {"out", "deleted"} /\ service = NoPort =>
    /\ listening = {}
    /\ thread = "none"
    /\ advertised = {}
    /\ \A s \in Sessions \ held :
         session[s] \in {"none", "gone"} /\ reported[s] # "begin"

(* "True if successful": when start() returned true the service listens, is
   advertised if it should be, and the URIs of the store lead to the media
   service; unless an earlier start() threw half way. *)
StartIsTruthful ==
  at = "out" /\ told = "true" /\ ~threw =>
    /\ service \in listening
    /\ publishes => \A t \in Types : <<t, service>> \in advertised
    /\ root = media /\ media # NoPort

(* start() and stop() return, whatever the senders do and although stop() waits
   for the thread of the service. *)
CallsReturn == at \notin {"out", "deleted"} ~> at \in {"out", "deleted"}
=============================================================================
