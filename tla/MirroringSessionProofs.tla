----------------------- MODULE MirroringSessionProofs -----------------------
(***************************************************************************)
(* Theorems about MirroringSession for every value of its constants.       *)
(*                                                                         *)
(* All follow from one inductive invariant, Inv: a stream's thread and     *)
(* captured handler exist only while its service does, the captured        *)
(* handler was told of the start, and a service outlives the connection's  *)
(* last read only if the sender did not tear its streams down first.       *)
(***************************************************************************)
EXTENDS MirroringSession, TLAPS

(* A captured handler was told that the stream started, and not yet that it
   stopped. *)
CapturedIsStarted ==
  \A s \in Streams : captured[s] # NoHandler => told[captured[s]][s] = "started"

(* The thread and the captured handler belong to a service. *)
ThreadHasService ==
  \A s \in Streams :
    /\ svc[s] = "none" => thread[s] = "none" /\ captured[s] = NoHandler
    /\ thread[s] = "busy" => captured[s] # NoHandler

StoppingOne ==
  \A s \in Streams :
    /\ svc[s] = "stopping" => stopping = s
    /\ stopping = s => svc[s] # "none"

EndIsCounted ==
  ended = IF conn \in {"dying", "gone"} /\ Began THEN 1 ELSE 0

ClosedStreams ==
  /\ conn = "open" => ~abrupt
  /\ conn = "gone" => \A s \in Streams : svc[s] = "none"
  /\ ~abrupt /\ conn # "open" => \A s \in Streams : svc[s] = "none"

(* The handler is the one registered last, and one that is not registered yet
   was told nothing. *)
HandlersKnown ==
  /\ conn \in {"open", "closed"} => handler = handlers
  /\ \A h \in Handlers : h > handlers => \A s \in Streams : told[h][s] = "never"

(* A lone handler that was told of a start is owed a stop: the service is still
   there whose TEARDOWN will say so. *)
StartedHasService ==
  ~abrupt /\ handlers <= 1 =>
    \A h \in Handlers, s \in Streams : told[h][s] = "started" => svc[s] # "none"

Inv ==
  /\ TypeOK
  /\ CapturedIsStarted
  /\ ThreadHasService
  /\ StoppingOne
  /\ EndIsCounted
  /\ ClosedStreams
  /\ HandlersKnown
  /\ StartedHasService

-----------------------------------------------------------------------------
(* The invariant holds initially. *)
LEMMA InvInit == Init => Inv
<1> SUFFICES ASSUME Init PROVE Inv
  OBVIOUS
<1>1. TypeOK
  <2>1. begins \in 0..MaxSessionSetups /\ handlers \in 0..MaxHandlers /\ streamSetups \in 0..MaxStreamSetups
    BY ConstantsAssumption DEF Init
  <2>2. /\ svc \in [Streams -> {"none", "running", "stopping"}]
        /\ captured \in [Streams -> Handlers \cup {NoHandler}]
        /\ link \in [Streams -> {"none", "listening", "up", "down"}]
        /\ thread \in [Streams -> {"none", "idle", "busy"}]
        /\ told \in [Handlers -> [Streams -> {"never", "started", "stopped"}]]
    BY DEF Init
  <2>3. conn = "open" /\ held = FALSE /\ ended \in 0..1 /\ abrupt = FALSE /\ handler = NoHandler /\ stopping = NoStream
    BY DEF Init
  <2> QED BY <2>1, <2>2, <2>3 DEF TypeOK
<1>2. CapturedIsStarted /\ ThreadHasService
  BY DEF Init, CapturedIsStarted, ThreadHasService
<1>3. StoppingOne
  BY DEF Init, StoppingOne, Streams, NoStream
<1>4. EndIsCounted /\ ClosedStreams
  BY DEF Init, EndIsCounted, ClosedStreams
<1>5. HandlersKnown /\ StartedHasService
  BY DEF Init, HandlersKnown, StartedHasService, NoHandler
<1> QED BY <1>1, <1>2, <1>3, <1>4, <1>5 DEF Inv

(* Handlers are numbered from 1. *)
LEMMA NoHandlerIsNone == NoHandler \notin Handlers
BY ConstantsAssumption DEF NoHandler, Handlers

(* A notification preserves the type of told. *)
LEMMA NotifyType ==
  ASSUME TypeOK, NEW s \in Streams, NEW e \in {"started", "stopped"}, Notify(s, e)
  PROVE  told' \in [Handlers -> [Streams -> {"never", "started", "stopped"}]]
BY DEF Notify, TypeOK

(* Every step preserves the types of the variables. *)
LEMMA TypeInductive ==
  ASSUME Inv, [Next]_vars
  PROVE  TypeOK'
<1> USE ConstantsAssumption DEF connVars, streamVars, appVars, Inv
<1>0. ASSUME Register PROVE handler' \in Handlers \cup {NoHandler} /\ handlers' \in 0..MaxHandlers
  BY <1>0 DEF Register, TypeOK, Handlers
<1>1. CASE SetupSession
  BY <1>0, <1>1 DEF SetupSession, TypeOK
<1>2. ASSUME NEW s \in Streams, SetupStream(s) PROVE TypeOK'
  <2>1. told' \in [Handlers -> [Streams -> {"never", "started", "stopped"}]]
    BY <1>2, NotifyType DEF SetupStream
  <2>2. streamSetups' \in 0..MaxStreamSetups
    BY <1>2 DEF SetupStream, TypeOK
  <2>3. /\ svc' \in [Streams -> {"none", "running", "stopping"}]
        /\ captured' \in [Streams -> Handlers \cup {NoHandler}]
        /\ thread' \in [Streams -> {"none", "idle", "busy"}]
    BY <1>2 DEF SetupStream, TypeOK
  <2>4. link' \in [Streams -> {"none", "listening", "up", "down"}]
    BY <1>2 DEF SetupStream, TypeOK
  <2>5. UNCHANGED <<conn, begins, held, ended, abrupt, stopping, handlers, handler>>
    BY <1>2 DEF SetupStream
  <2> QED BY <2>1, <2>2, <2>3, <2>4, <2>5 DEF TypeOK
<1>3. ASSUME NEW s \in Streams, Teardown(s) PROVE TypeOK'
  <2>1. told' \in [Handlers -> [Streams -> {"never", "started", "stopped"}]]
    BY <1>3, NotifyType DEF Teardown, TypeOK
  <2>2. stopping' \in Streams \cup {NoStream}
    BY <1>3 DEF Teardown, TypeOK
  <2>3. /\ UNCHANGED <<conn, begins, held, ended, abrupt, streamSetups, handlers, handler>>
        /\ UNCHANGED <<svc, captured, link, thread>>
    BY <1>3 DEF Teardown
  <2> QED BY <2>1, <2>2, <2>3 DEF TypeOK
<1>4. CASE Close \/ Release \/ DestroyMember \/ UNCHANGED vars
  BY <1>4 DEF Close, Release, DestroyMember, vars, TypeOK, Streams
<1>5. CASE SetHandler
  BY <1>0, <1>5 DEF SetHandler, TypeOK
<1>6. CASE Destroy
  BY <1>6 DEF Destroy, TypeOK, EndIsCounted, Began, NoHandler
<1>7. ASSUME NEW s \in Streams, StopThread(s) PROVE TypeOK'
  BY <1>7 DEF StopThread, TypeOK
<1>8. ASSUME NEW s \in Streams, Joined(s) PROVE TypeOK'
  <2>1. told' \in [Handlers -> [Streams -> {"never", "started", "stopped"}]]
    BY <1>8, NotifyType DEF Joined, TypeOK
  <2> QED BY <1>8, <2>1 DEF Joined, TypeOK
<1>9. ASSUME NEW s \in Streams, Accept(s) \/ LinkDown(s) \/ BeginData(s) \/ EndData(s) PROVE TypeOK'
  BY <1>9 DEF Accept, LinkDown, BeginData, EndData, TypeOK
<1> QED
  BY <1>1, <1>2, <1>3, <1>4, <1>5, <1>6, <1>7, <1>8, <1>9 DEF Next, Requests, Stop

-----------------------------------------------------------------------------
(* Every step preserves what relates the streams to the handlers. *)
LEMMA StreamsInductive ==
  ASSUME Inv, [Next]_vars
  PROVE  CapturedIsStarted' /\ ThreadHasService' /\ StoppingOne'
<1> USE DEF connVars, streamVars, appVars, Inv, CapturedIsStarted, ThreadHasService, StoppingOne
<1>1. CASE SetupSession \/ SetHandler \/ Close \/ Release \/ Destroy \/ UNCHANGED vars
  BY <1>1 DEF SetupSession, SetHandler, Close, Release, Destroy, vars
<1>2. ASSUME NEW s \in Streams, SetupStream(s)
      PROVE  CapturedIsStarted' /\ ThreadHasService' /\ StoppingOne'
  <2>1. \A h \in Handlers, r \in Streams :
          told'[h][r] = IF h = handler /\ r = s THEN "started" ELSE told[h][r]
    BY <1>2, NoHandlerIsNone DEF SetupStream, Notify, TypeOK
  <2>2. stopping' = stopping
    BY <1>2 DEF SetupStream
  <2>3. CASE svc[s] = "none"
    BY <1>2, <2>1, <2>2, <2>3 DEF SetupStream, TypeOK
  <2>4. CASE svc[s] # "none"
    BY <1>2, <2>1, <2>2, <2>4 DEF SetupStream, TypeOK
  <2> QED BY <2>3, <2>4
<1>3. ASSUME NEW s \in Streams, Teardown(s)
      PROVE  CapturedIsStarted' /\ ThreadHasService' /\ StoppingOne'
  <2>1. \A h \in Handlers, r \in Streams \ {s} : told'[h][r] = told[h][r]
    BY <1>3, NoHandlerIsNone DEF Teardown, Notify, TypeOK
  <2>2. svc[s] = "none" \/ told' = told
    BY <1>3 DEF Teardown
  <2>3. svc' = svc /\ captured' = captured /\ thread' = thread
    BY <1>3 DEF Teardown
  <2>4. CapturedIsStarted' /\ ThreadHasService'
    BY <2>1, <2>2, <2>3 DEF TypeOK
  <2>5. StoppingOne'
    BY <1>3 DEF Teardown, Ready, NoStream, Streams
  <2> QED BY <2>4, <2>5
<1>4. ASSUME NEW s \in Streams, StopThread(s)
      PROVE  CapturedIsStarted' /\ ThreadHasService' /\ StoppingOne'
  BY <1>4 DEF StopThread, TypeOK
<1>5. ASSUME NEW s \in Streams, Joined(s)
      PROVE  CapturedIsStarted' /\ ThreadHasService' /\ StoppingOne'
  <2>0. told' = told \/ Notify(s, "stopped")
    BY <1>5 DEF Joined
  <2>1. \A h \in Handlers, r \in Streams \ {s} : told'[h][r] = told[h][r]
    BY <2>0, NoHandlerIsNone DEF Notify, TypeOK
  <2>2. \A r \in Streams :
          /\ svc'[r] = IF r = s THEN "none" ELSE svc[r]
          /\ captured'[r] = IF r = s THEN NoHandler ELSE captured[r]
          /\ thread'[r] = IF r = s THEN "none" ELSE thread[r]
    BY <1>5 DEF Joined, TypeOK
  <2>3. CapturedIsStarted' /\ ThreadHasService'
    BY <2>1, <2>2 DEF TypeOK
  <2>4. StoppingOne'
    BY <1>5, <2>2 DEF Joined, NoStream, Streams
  <2> QED BY <2>3, <2>4
<1>6. CASE DestroyMember
  BY <1>6 DEF DestroyMember, NoStream, Streams, TypeOK
<1>7. ASSUME NEW s \in Streams, Accept(s) \/ LinkDown(s) \/ BeginData(s) \/ EndData(s)
      PROVE  CapturedIsStarted' /\ ThreadHasService' /\ StoppingOne'
  BY <1>7 DEF Accept, LinkDown, BeginData, EndData, TypeOK
<1> QED
  BY <1>1, <1>2, <1>3, <1>4, <1>5, <1>6, <1>7 DEF Next, Requests, Stop

(* Every step preserves what relates the streams to the connection. *)
LEMMA ConnectionInductive ==
  ASSUME Inv, [Next]_vars
  PROVE  EndIsCounted' /\ ClosedStreams'
<1> USE DEF connVars, streamVars, appVars, Inv, EndIsCounted, ClosedStreams, Began
<1>1. CASE SetupSession
  BY <1>1 DEF SetupSession, Ready, TypeOK
<1>2. ASSUME NEW s \in Streams, SetupStream(s) \/ Teardown(s)
      PROVE  EndIsCounted' /\ ClosedStreams'
  BY <1>2 DEF SetupStream, Teardown, Ready
<1>3. CASE Close
  BY <1>3 DEF Close, Ready
<1>4. CASE SetHandler \/ Release \/ UNCHANGED vars
  BY <1>4 DEF SetHandler, Release, vars
<1>5. CASE Destroy
  BY <1>5 DEF Destroy, TypeOK
<1>6. CASE DestroyMember
  BY <1>6 DEF DestroyMember, Streams
<1>7. ASSUME NEW s \in Streams, StopThread(s)
      PROVE  EndIsCounted' /\ ClosedStreams'
  BY <1>7 DEF StopThread, TypeOK
<1>8. ASSUME NEW s \in Streams, Joined(s)
      PROVE  EndIsCounted' /\ ClosedStreams'
  BY <1>8 DEF Joined, TypeOK
<1>9. ASSUME NEW s \in Streams, Accept(s) \/ LinkDown(s) \/ BeginData(s) \/ EndData(s)
      PROVE  EndIsCounted' /\ ClosedStreams'
  BY <1>9 DEF Accept, LinkDown, BeginData, EndData
<1> QED
  BY <1>1, <1>2, <1>3, <1>4, <1>5, <1>6, <1>7, <1>8, <1>9 DEF Next, Requests, Stop

(* Every step preserves what handlers were told of streams. *)
LEMMA HandlersInductive ==
  ASSUME Inv, [Next]_vars
  PROVE  HandlersKnown' /\ StartedHasService'
<1> USE ConstantsAssumption
    DEF connVars, streamVars, appVars, Inv, HandlersKnown, StartedHasService, Handlers
<1>0. handlers \in Nat /\ handler \in Nat
  BY DEF TypeOK, NoHandler
<1>1. CASE SetupSession \/ SetHandler
  <2>1. handlers' = handlers + 1 /\ handler' = handlers + 1 /\ told' = told /\ svc' = svc
        /\ abrupt' = abrupt
    BY <1>1 DEF SetupSession, SetHandler, Register
  <2>2. \A h \in Handlers : handlers' <= 1 => h > handlers
    BY <1>0, <2>1
  <2> QED BY <1>0, <2>1, <2>2
<1>2. ASSUME NEW s \in Streams, SetupStream(s)
      PROVE  HandlersKnown' /\ StartedHasService'
  <2>1. \A h \in Handlers, r \in Streams :
          told'[h][r] = IF h = handler /\ r = s THEN "started" ELSE told[h][r]
    BY <1>2, NoHandlerIsNone DEF SetupStream, Notify, TypeOK
  <2>2. \A r \in Streams : svc'[r] # "none" <=> r = s \/ svc[r] # "none"
    BY <1>2 DEF SetupStream, TypeOK
  <2>3. conn = "open" /\ conn' = conn /\ handlers' = handlers /\ handler' = handler
        /\ abrupt' = abrupt
    BY <1>2 DEF SetupStream, Ready
  <2> QED BY <1>0, <2>1, <2>2, <2>3
<1>3. ASSUME NEW s \in Streams, Teardown(s)
      PROVE  HandlersKnown' /\ StartedHasService'
  <2>1. \A h \in Handlers, r \in Streams :
          told'[h][r] = IF h = handler /\ r = s /\ svc[s] = "none" THEN "stopped" ELSE told[h][r]
    BY <1>3, NoHandlerIsNone DEF Teardown, Notify, TypeOK
  <2>2. conn = "open" /\ conn' = conn /\ handlers' = handlers /\ handler' = handler
        /\ abrupt' = abrupt /\ svc' = svc
    BY <1>3 DEF Teardown, Ready
  <2> QED BY <1>0, <2>1, <2>2
<1>4. CASE Close \/ Release \/ Destroy \/ DestroyMember \/ UNCHANGED vars
  BY <1>4 DEF Close, Ready, ClosedStreams, Release, Destroy, DestroyMember, vars
<1>5. ASSUME NEW s \in Streams, StopThread(s)
      PROVE  HandlersKnown' /\ StartedHasService'
  BY <1>5 DEF StopThread, TypeOK
<1>6. ASSUME NEW s \in Streams, Joined(s)
      PROVE  HandlersKnown' /\ StartedHasService'
  <2>1. conn' = conn /\ handlers' = handlers /\ handler' = handler /\ abrupt' = abrupt
        /\ \A r \in Streams \ {s} : svc'[r] = svc[r]
    BY <1>6 DEF Joined, TypeOK
  <2>2. CASE conn = "open"
    <3>1. \A h \in Handlers, r \in Streams :
            told'[h][r] = IF h = handler /\ r = s THEN "stopped" ELSE told[h][r]
      BY <1>6, <2>2, NoHandlerIsNone DEF Joined, Notify, TypeOK
    <3>2. handlers <= 1 => \A h \in Handlers : told[h][s] = "started" => h = handler
      BY <1>0, <2>2
    <3> QED BY <1>0, <2>1, <2>2, <3>1, <3>2
  <2>3. CASE conn # "open"
    <3>1. told' = told /\ abrupt
      BY <1>6, <2>3 DEF Joined, ClosedStreams
    <3> QED BY <2>1, <2>3, <3>1
  <2> QED BY <2>2, <2>3
<1>7. ASSUME NEW s \in Streams, Accept(s) \/ LinkDown(s) \/ BeginData(s) \/ EndData(s)
      PROVE  HandlersKnown' /\ StartedHasService'
  BY <1>7 DEF Accept, LinkDown, BeginData, EndData
<1> QED
  BY <1>1, <1>2, <1>3, <1>4, <1>5, <1>6, <1>7 DEF Next, Requests, Stop

(* The invariant holds always. *)
THEOREM Invariant == Spec => []Inv
<1>1. Inv /\ [Next]_vars => Inv'
  BY TypeInductive, StreamsInductive, ConnectionInductive, HandlersInductive DEF Inv
<1> QED BY <1>1, InvInit, PTL DEF Spec

-----------------------------------------------------------------------------
(* The types of all variables; on_session_end is called at most once. *)
THEOREM TypeCorrect == Spec => []TypeOK
<1>1. Inv => TypeOK
  BY DEF Inv
<1> QED BY <1>1, Invariant, PTL

(* When senders tear their streams down before they leave, the application is
   not called by a stream once the end of the session was reported. *)
THEOREM NoDataAfterEnd == Spec => []QuietAfterEnd
<1>1. Inv => QuietAfterEnd
  BY DEF Inv, ClosedStreams, ThreadHasService, QuietAfterEnd
<1> QED BY <1>1, Invariant, PTL

(* A handler that is not replaced, of a sender that tears its streams down, is
   told of the stop of each stream of whose start it was told. *)
THEOREM StopReported == Spec => []StopIsReported
<1>1. Inv => StopIsReported
  BY DEF Inv, ClosedStreams, StartedHasService, StopIsReported, StopIsAlwaysReported
<1> QED BY <1>1, Invariant, PTL

(* However the session ends, its threads have ended and its end was reported
   exactly once when the connection object is gone. *)
THEOREM CleanEnd == Spec => []GoneIsClean
<1>1. Inv => GoneIsClean
  BY DEF Inv, ClosedStreams, ThreadHasService, EndIsCounted, GoneIsClean
<1> QED BY <1>1, Invariant, PTL

-----------------------------------------------------------------------------
(* The session implements the protocol of callbacks: a handler gets data only
   between its last start and its next stop, however requests, the threads of
   the streams, changes of the handler and the end of the session interleave. *)

(* The data callbacks that are running, as Callbacks maps them. *)
InCallback ==
  [h \in Handlers |-> [s \in Streams |-> captured[s] = h /\ thread[s] = "busy"]]

(* A notification of a stream that is not calling its handler is a step of the
   protocol, or nothing when no handler is set. *)
LEMMA NotifyStep ==
  ASSUME TypeOK, NEW s \in Streams, NEW e \in {"started", "stopped"}, Notify(s, e),
         InCallback' = InCallback, e = "stopped" => thread[s] # "busy"
  PROVE  [Callbacks!Next]_(Callbacks!vars)
<1>1. CASE handler = NoHandler
  BY <1>1 DEF Notify, InCallback, Callbacks!vars
<1>2. CASE handler # NoHandler
  <2>1. handler \in Handlers /\ told' = [told EXCEPT ![handler][s] = e]
    BY <1>2 DEF Notify, TypeOK
  <2>2. ~InCallback[handler][s] \/ e = "started"
    BY <2>1 DEF InCallback
  <2>3. Callbacks!Started(handler, s) \/ Callbacks!Stopped(handler, s)
    BY <2>1, <2>2 DEF Callbacks!Started, Callbacks!Stopped, InCallback
  <2> QED BY <2>1, <2>3 DEF Callbacks!Next
<1> QED BY <1>1, <1>2

(* A data callback that begins or ends is a step of the protocol. *)
LEMMA DataStep ==
  ASSUME NEW h \in Handlers, NEW s \in Streams,
         Callbacks!DataBegins(h, s) \/ Callbacks!DataEnds(h, s)
  PROVE  Callbacks!Next
BY Zenon DEF Callbacks!Next

(* Of each handler and each stream it is said whether a data callback runs. *)
LEMMA InCallbackType ==
  /\ InCallback \in [Handlers -> [Streams -> BOOLEAN]]
  /\ InCallback' \in [Handlers -> [Streams -> BOOLEAN]]
BY DEF InCallback

(* One data callback begins or ends. *)
LEMMA OneCallback ==
  ASSUME NEW h \in Handlers, NEW s \in Streams, NEW v \in BOOLEAN,
         \A a \in Handlers, r \in Streams :
           InCallback'[a][r] = IF a = h /\ r = s THEN v ELSE InCallback[a][r]
  PROVE  InCallback' = [InCallback EXCEPT ![h][s] = v]
<1>1. PICK f \in [Handlers -> [Streams -> BOOLEAN]] : f = InCallback
  BY InCallbackType
<1>2. PICK g \in [Handlers -> [Streams -> BOOLEAN]] : g = InCallback'
  BY InCallbackType
<1>3. ASSUME NEW a \in Handlers, NEW r \in Streams
      PROVE  g[a][r] = IF a = h /\ r = s THEN v ELSE f[a][r]
  BY <1>1, <1>2
<1>4. ASSUME NEW a \in Handlers PROVE g[a] = [f EXCEPT ![h][s] = v][a]
  <2>1. g[a] \in [Streams -> BOOLEAN] /\ f[a] \in [Streams -> BOOLEAN]
    OBVIOUS
  <2>2. CASE a = h
    <3>1. \A r \in Streams : g[a][r] = [f[h] EXCEPT ![s] = v][r]
      BY <1>3, <2>1, <2>2
    <3>2. g[a] = [f[h] EXCEPT ![s] = v]
      BY <2>1, <2>2, <3>1
    <3> QED BY <2>2, <3>2
  <2>3. CASE a # h
    <3>1. \A r \in Streams : g[a][r] = f[a][r]
      BY <1>3, <2>3
    <3>2. g[a] = f[a]
      BY <2>1, <3>1
    <3> QED BY <2>3, <3>2
  <2> QED BY <2>2, <2>3
<1>5. g = [f EXCEPT ![h][s] = v]
  BY <1>4
<1> QED BY <1>1, <1>2, <1>5

(* Every step is a step of the protocol, or changes nothing that a handler
   sees. *)
LEMMA StepRefines ==
  ASSUME Inv, Inv', [Next]_vars
  PROVE  [Callbacks!Next]_(Callbacks!vars)
<1> USE DEF connVars, streamVars, appVars
<1>1. ASSUME told' = told, thread' = thread, captured' = captured
      PROVE  [Callbacks!Next]_(Callbacks!vars)
  BY <1>1 DEF Callbacks!vars
<1>2. CASE SetupSession \/ SetHandler \/ Close \/ Release \/ Destroy \/ DestroyMember \/ UNCHANGED vars
  BY <1>1, <1>2 DEF SetupSession, SetHandler, Close, Release, Destroy, DestroyMember, vars
<1>3. ASSUME NEW s \in Streams, StopThread(s) \/ Accept(s) \/ LinkDown(s)
      PROVE  [Callbacks!Next]_(Callbacks!vars)
  BY <1>1, <1>3 DEF StopThread, Accept, LinkDown
<1>4. ASSUME NEW s \in Streams, SetupStream(s)
      PROVE  [Callbacks!Next]_(Callbacks!vars)
  <2>1. \A r \in Streams :
          /\ thread'[r] = "busy" <=> thread[r] = "busy"
          /\ thread[r] = "busy" => captured'[r] = captured[r]
    BY <1>4 DEF SetupStream, Inv, TypeOK, ThreadHasService
  <2>2. InCallback' = InCallback
    BY <2>1 DEF InCallback
  <2> QED BY <1>4, <2>2, NotifyStep DEF SetupStream, Inv
<1>5. ASSUME NEW s \in Streams, Teardown(s)
      PROVE  [Callbacks!Next]_(Callbacks!vars)
  <2>1. CASE svc[s] # "none"
    BY <1>1, <1>5, <2>1 DEF Teardown
  <2>2. CASE svc[s] = "none"
    <3>1. Notify(s, "stopped") /\ InCallback' = InCallback /\ thread[s] # "busy"
      BY <1>5, <2>2 DEF Teardown, InCallback, Inv, ThreadHasService
    <3> QED BY <3>1, NotifyStep DEF Inv
  <2> QED BY <2>1, <2>2
<1>6. ASSUME NEW s \in Streams, Joined(s)
      PROVE  [Callbacks!Next]_(Callbacks!vars)
  <2>1. \A r \in Streams :
          /\ thread'[r] = "busy" <=> thread[r] = "busy"
          /\ thread[r] = "busy" => captured'[r] = captured[r]
    BY <1>6 DEF Joined, Inv, TypeOK
  <2>2. InCallback' = InCallback
    BY <2>1 DEF InCallback
  <2>3. thread[s] # "busy"
    BY <1>6 DEF Joined
  <2>4. CASE conn = "open"
    BY <1>6, <2>2, <2>3, <2>4, NotifyStep DEF Joined, Inv
  <2>5. CASE conn # "open"
    BY <1>6, <2>2, <2>5 DEF Joined, InCallback, Callbacks!vars
  <2> QED BY <2>4, <2>5
<1>7. ASSUME NEW s \in Streams, BeginData(s)
      PROVE  [Callbacks!Next]_(Callbacks!vars)
  <2> PICK h \in Handlers : h = captured[s]
    BY <1>7 DEF BeginData, Inv, TypeOK
  <2>1. told[h][s] = "started" /\ thread[s] = "idle" /\ told' = told
    BY <1>7 DEF BeginData, Inv, CapturedIsStarted
  <2>2. \A g \in Handlers, r \in Streams :
          InCallback'[g][r] = IF g = h /\ r = s THEN TRUE ELSE InCallback[g][r]
    <3>1. captured' = captured /\ \A r \in Streams : thread'[r] = IF r = s THEN "busy" ELSE thread[r]
      BY <1>7 DEF BeginData, Inv, TypeOK
    <3> QED BY <2>1, <3>1 DEF InCallback
  <2>3. InCallback' = [InCallback EXCEPT ![h][s] = TRUE] /\ ~InCallback[h][s]
    <3>1. InCallback' = [InCallback EXCEPT ![h][s] = TRUE]
      BY <2>2, OneCallback
    <3>2. ~InCallback[h][s]
      BY <2>1 DEF InCallback
    <3> QED BY <3>1, <3>2
  <2>4. Callbacks!DataBegins(h, s)
    BY <2>1, <2>3 DEF Callbacks!DataBegins, InCallback
  <2> QED BY <2>1, <2>4, DataStep
<1>8. ASSUME NEW s \in Streams, EndData(s)
      PROVE  [Callbacks!Next]_(Callbacks!vars)
  <2> PICK h \in Handlers : h = captured[s]
    BY <1>8 DEF EndData, Inv, TypeOK, ThreadHasService
  <2>1. told' = told
    BY <1>8 DEF EndData
  <2>2. \A g \in Handlers, r \in Streams :
          InCallback'[g][r] = IF g = h /\ r = s THEN FALSE ELSE InCallback[g][r]
    <3>1. captured' = captured /\ \A r \in Streams : thread'[r] = IF r = s THEN "idle" ELSE thread[r]
      BY <1>8 DEF EndData, Inv, TypeOK
    <3> QED BY <3>1 DEF InCallback
  <2>3. InCallback[h][s]
    BY <1>8, <2>1 DEF InCallback, EndData
  <2>4. InCallback' = [InCallback EXCEPT ![h][s] = FALSE]
    BY <2>2, OneCallback
  <2>5. Callbacks!DataEnds(h, s)
    BY <2>1, <2>3, <2>4 DEF Callbacks!DataEnds, InCallback
  <2> QED BY <2>1, <2>5, DataStep
<1> QED
  BY <1>2, <1>3, <1>4, <1>5, <1>6, <1>7, <1>8 DEF Next, Requests, Stop

(* Every handler that is ever registered sees the protocol of callbacks. *)
THEOREM ImplementsCallbacks == Spec => CallbacksInOrder
<1>1. Init => Callbacks!Init
  BY DEF Init, Callbacks!Init
<1>2. Inv /\ Inv' /\ [Next]_vars => [Callbacks!Next]_(Callbacks!vars)
  BY StepRefines
<1> QED BY <1>1, <1>2, Invariant, PTL DEF Spec, CallbacksInOrder, Callbacks!Spec
=============================================================================
