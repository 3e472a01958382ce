---------------------------- MODULE SessionProofs ----------------------------
(***************************************************************************)
(* Theorems about what a session is bound to and about the keys that it    *)
(* uses: SessionBindings, for any number of connections, threads of the    *)
(* application, sessions begun and handlers set, and MirroringKeys, with   *)
(* the timing service, for every set of instances.                         *)
(*                                                                         *)
(* The invariant of SessionBindings says who refers to a wrapper at which  *)
(* moment: the callback that it was made for until that returns, then the  *)
(* application, which does not forget it while it calls it; and that a     *)
(* request is in the application only while its connection is open, so     *)
(* that the service cannot be stopped under it.                            *)
(*                                                                         *)
(* That of MirroringKeys has a part for each agreement between the two     *)
(* ends: on the endpoint of the clock, on the position of the cipher of    *)
(* pair-verify, on the session's key, and, per stream, on what is being    *)
(* decrypted, what is on its way and what will be encrypted next.          *)
(***************************************************************************)
EXTENDS SessionBindings, MirroringKeys, SequenceTheorems, TLAPS

-----------------------------------------------------------------------------
(* SessionBindings: types. *)

Refs    == {"callback", "app", "garbage"}
Records == [conn : Conns, ref : Refs, peer : BOOLEAN]

Callbacks ==
  {Idle} \cup [event : {"begin"}, conn : Conns, wrapper : Nat]
         \cup [event : {"method"}, conn : Conns, proxy : Nat]

Types ==
  /\ platform \in {"android", "apple"}
  /\ conn \in [Conns -> {"none", "open", "closed", "orphan", "gone"}]
  /\ handler \in [Conns -> Nat]
  /\ captured \in [Conns -> Nat]
  /\ wrappers \in Seq(Records)
  /\ proxies \in Nat
  /\ callback \in Callbacks
  /\ callback.event = "begin" => callback.wrapper \in Wrappers
  /\ streaming \subseteq Conns
  /\ call \in [Callers -> Nat]

(* Who refers to the wrappers. *)
CallbackInv ==
  /\ callback # Idle => conn[callback.conn] = "open"
  /\ \A w \in Wrappers : wrappers[w].ref = "callback" =>
       callback.event = "begin" /\ callback.wrapper = w

CallInv ==
  \A t \in Callers : call[t] # NoWrapper =>
    call[t] \in Wrappers /\ wrappers[call[t]].ref = "app"

PeerInv == \A w \in Wrappers : wrappers[w].ref # "garbage" => wrappers[w].peer

BeginRef ==
  callback.event = "begin" =>
    /\ wrappers[callback.wrapper].ref = "callback"
    /\ wrappers[callback.wrapper].conn = callback.conn

BindInv ==
  /\ CallbackInv /\ BeginRef /\ CallInv /\ PeerInv
  /\ NoneOutlivesItsService

(* The proxies that a session uses: the handler that it has, and the one that its
   stream captured.  No session uses another's, and none that it uses is deleted. *)
Uses(c) == {handler[c], captured[c]}

ProxyInv ==
  /\ freed \subseteq 1..proxies
  /\ \A c \in Conns : Uses(c) \subseteq (0..proxies) \ freed
  /\ \A c, d \in Conns : c # d => Uses(c) \cap Uses(d) \subseteq {NoProxy}
  /\ callback.event = "method" => callback.proxy = handler[callback.conn]

(* What the service's thread is doing is one of three things. *)
LEMMA CallbackCases ==
  ASSUME callback \in Callbacks
  PROVE  /\ callback = Idle <=> callback.event = "none"
         /\ callback.event \in {"none", "begin", "method"}
         /\ callback # Idle => callback.conn \in Conns
         /\ callback.event = "begin" => callback.wrapper \in Nat
BY DEF Callbacks, Idle

(* The wrappers made so far. *)
LEMMA WrapperTypes ==
  ASSUME Types
  PROVE  /\ Wrappers = 1..Len(wrappers) /\ Len(wrappers) \in Nat
         /\ \A w \in Wrappers : wrappers[w] \in Records
BY LenProperties DEF Types, Wrappers

(* A new wrapper. *)
LEMMA Appended ==
  ASSUME Types, NEW c \in Conns
  PROVE  LET longer == Append(wrappers, NewWrapper(c)) IN
         /\ longer \in Seq(Records)
         /\ DOMAIN longer = Wrappers \cup {Len(wrappers) + 1}
         /\ Len(longer) = Len(wrappers) + 1
         /\ Len(wrappers) + 1 \notin Wrappers
         /\ \A w \in Wrappers : longer[w] = wrappers[w]
         /\ longer[Len(wrappers) + 1] = NewWrapper(c)
<1>1. NewWrapper(c) \in Records
  BY DEF NewWrapper, Records, Refs
<1>2. wrappers \in Seq(Records) /\ Len(wrappers) \in Nat /\ Wrappers = 1..Len(wrappers)
  BY WrapperTypes DEF Types
<1> HIDE DEF Wrappers
<1> QED BY <1>1, <1>2, AppendProperties, LenProperties

(* That changed are the wrappers, but for the reference to w. *)
RefChanged(w, ref, changed) ==
  /\ changed \in Seq(Records)
  /\ DOMAIN changed = Wrappers
  /\ \A v \in Wrappers : /\ changed[v].conn = wrappers[v].conn
                        /\ changed[v].peer = wrappers[v].peer
                        /\ changed[v].ref = IF v = w THEN ref ELSE wrappers[v].ref

(* A wrapper whose reference changes is another record, the others are not. *)
LEMMA Rereferred ==
  ASSUME Types, NEW w \in Wrappers, NEW ref \in Refs
  PROVE  RefChanged(w, ref, [wrappers EXCEPT ![w].ref = ref])
<1> DEFINE changed == [wrappers EXCEPT ![w].ref = ref]
<1>1. wrappers \in [Wrappers -> Records] /\ Wrappers = 1..Len(wrappers) /\ Len(wrappers) \in Nat
  BY WrapperTypes, LenProperties DEF Types, Wrappers
<1>2. changed \in [Wrappers -> Records]
  BY <1>1 DEF Records
<1>3. changed \in Seq(Records)
  <2> HIDE DEF changed
  <2> QED BY <1>1, <1>2, IsASeq
<1>4. \A v \in Wrappers : /\ changed[v].conn = wrappers[v].conn
                         /\ changed[v].peer = wrappers[v].peer
                         /\ changed[v].ref = IF v = w THEN ref ELSE wrappers[v].ref
  BY <1>1 DEF Records
<1>5. DOMAIN changed = Wrappers
  BY <1>2
<1> HIDE DEF changed
<1>6. RefChanged(w, ref, changed)
  BY <1>3, <1>4, <1>5 DEF RefChanged
<1> QED BY <1>6 DEF changed

(* Of a wrapper whose peer is deleted nothing else changes. *)
LEMMA Finalized ==
  ASSUME Types, NEW w \in Wrappers
  PROVE  LET changed == [wrappers EXCEPT ![w].peer = FALSE] IN
         /\ changed \in Seq(Records)
         /\ DOMAIN changed = Wrappers
         /\ \A v \in Wrappers : /\ changed[v].conn = wrappers[v].conn
                               /\ changed[v].ref = wrappers[v].ref
         /\ \A v \in Wrappers \ {w} : changed[v].peer = wrappers[v].peer
<1> DEFINE changed == [wrappers EXCEPT ![w].peer = FALSE]
<1>1. wrappers \in [Wrappers -> Records] /\ Wrappers = 1..Len(wrappers) /\ Len(wrappers) \in Nat
  BY WrapperTypes, LenProperties DEF Types, Wrappers
<1>2. changed \in [Wrappers -> Records]
  BY <1>1 DEF Records
<1>3. changed \in Seq(Records)
  <2> HIDE DEF changed
  <2> QED BY <1>1, <1>2, IsASeq
<1>4. \A v \in Wrappers : /\ changed[v].conn = wrappers[v].conn
                         /\ changed[v].ref = wrappers[v].ref
  BY <1>1 DEF Records
<1>5. \A v \in Wrappers \ {w} : changed[v].peer = wrappers[v].peer
  BY <1>1 DEF Records
<1> QED BY <1>2, <1>3, <1>4, <1>5

(* The types hold initially. *)
LEMMA TypesInit == BindingsInit => Types
<1>1. <<>> \in Seq(Records)
  BY EmptySeq
<1>2. Idle \in Callbacks /\ Idle.event # "begin"
  BY DEF Callbacks, Idle
<1> QED BY <1>1, <1>2, ConstantsAssumption DEF BindingsInit, Types, NoProxy, NoWrapper

(* Every step preserves the types. *)
LEMMA TypesInductive == Types /\ [BindingsNext]_bindingVars => Types'
<1> SUFFICES ASSUME Types, [BindingsNext]_bindingVars PROVE Types'
  OBVIOUS
<1>1. CASE UNCHANGED bindingVars
  BY <1>1 DEF Types, bindingVars, coreVars, appVars, Wrappers
<1>2. ASSUME NEW c \in Conns, Connect(c) \/ Close(c) PROVE Types'
  BY <1>2 DEF Types, Connect, Close, appVars, Wrappers
<1>3. ASSUME NEW c \in Conns, NEW k, SessionBegin(c, k) PROVE Types'
  <2>1. CASE UNCHANGED <<wrappers, callback>>
    BY <1>3, <2>1 DEF Types, SessionBegin, Wrappers
  <2>2. CASE /\ wrappers' = Append(wrappers, NewWrapper(c))
             /\ callback' = [event |-> "begin", conn |-> c, wrapper |-> Len(wrappers')]
    <3>1. /\ wrappers' \in Seq(Records)
          /\ Len(wrappers') \in Nat
          /\ Len(wrappers') \in DOMAIN wrappers'
      BY <2>2, Appended, WrapperTypes
    <3>2. /\ callback' \in Callbacks
          /\ callback'.event = "begin" => callback'.wrapper \in DOMAIN wrappers'
      BY <2>2, <3>1 DEF Callbacks
    <3> QED BY <1>3, <3>1, <3>2 DEF Types, SessionBegin, Wrappers
  <2> QED BY <1>3, <2>1, <2>2 DEF SessionBegin
<1>4. CASE SetSessionHandler
  <2>1. /\ proxies' \in Nat /\ handler' = [handler EXCEPT ![callback.conn] = proxies']
        /\ UNCHANGED <<platform, conn, captured, wrappers, callback, streaming, call>>
    BY <1>4 DEF Types, SetSessionHandler
  <2>2. handler' \in [Conns -> Nat]
    <3>1. handler \in [Conns -> Nat]
      BY DEF Types
    <3> QED BY <2>1, <3>1
  <2> QED BY <2>1, <2>2 DEF Types, Wrappers
<1>5. ASSUME NEW c \in Conns, NEW m, CastingEvent(c, m) PROVE Types'
  BY <1>5 DEF Types, CastingEvent, Handling, Callbacks, coreVars, Wrappers
<1>6. ASSUME NEW c \in Conns, MirroringEvent(c) PROVE Types'
  BY <1>6 DEF Types, MirroringEvent, Handling, Callbacks, coreVars, Wrappers
<1>8. ASSUME NEW c \in Conns, StartStream(c) \/ StreamEvent(c) \/ EndStreamEvent(c) PROVE Types'
  BY <1>8 DEF Types, StartStream, StreamEvent, EndStreamEvent, coreVars, appVars, Wrappers
<1>9. CASE EndCallback
  <2>1. callback' = Idle /\ callback' \in Callbacks /\ callback'.event = "none"
    BY <1>9 DEF EndCallback, Callbacks, Idle
  <2>2. wrappers' \in Seq(Records)
    <3>1. CASE callback.event = "begin"
      <4>1. PICK ref \in {"app", "garbage"} :
              wrappers' = [wrappers EXCEPT ![callback.wrapper].ref = ref]
        BY <1>9, <3>1 DEF EndCallback
      <4>2. callback.wrapper \in Wrappers
        BY <3>1 DEF Types
      <4>3. ref \in Refs
        BY DEF Refs
      <4>4. RefChanged(callback.wrapper, ref, wrappers')
        BY <4>1, <4>2, <4>3, Rereferred
      <4> QED BY <4>4 DEF RefChanged
    <3>2. CASE callback.event # "begin"
      BY <1>9, <3>2 DEF EndCallback, Types
    <3> QED BY <3>1, <3>2
  <2>3. conn' \in [Conns -> {"none", "open", "closed", "orphan", "gone"}]
    BY <1>9 DEF EndCallback, Released, Types
  <2> QED BY <1>9, <2>1, <2>2, <2>3 DEF EndCallback, Types, Wrappers
<1>10. ASSUME NEW t \in Callers, EndCall(t) \/ \E w \in Wrappers : BeginCall(t, w) PROVE Types'
  <2>1. CASE EndCall(t)
    BY <2>1 DEF EndCall, Released, Types, NoWrapper, Wrappers
  <2>2. ASSUME NEW w \in Wrappers, BeginCall(t, w) PROVE Types'
    BY <2>2, WrapperTypes DEF BeginCall, Types, coreVars, Wrappers
  <2> QED BY <1>10, <2>1, <2>2
<1>13. ASSUME NEW w \in Wrappers, Forget(w) PROVE Types'
  <2>1. wrappers' \in Seq(Records) /\ DOMAIN wrappers' = Wrappers
    <3>1. "garbage" \in Refs
      BY DEF Refs
    <3>2. RefChanged(w, "garbage", wrappers')
      BY <1>13, <3>1, Rereferred DEF Forget
    <3> QED BY <3>2 DEF RefChanged
  <2>2. conn' \in [Conns -> {"none", "open", "closed", "orphan", "gone"}]
    BY <1>13 DEF Forget, Released, Types
  <2> QED BY <1>13, <2>1, <2>2 DEF Forget, Types, Wrappers
<1>11. ASSUME NEW w \in Wrappers, Finalize(w) PROVE Types'
  BY <1>11, Finalized DEF Types, Finalize, coreVars, Wrappers
<1>12. CASE Stop \/ Stopped \/ Start
  BY <1>12 DEF Types, Stop, Stopped, Start, appVars, Wrappers
<1> QED BY <1>1, <1>2, <1>3, <1>4, <1>5, <1>6, <1>8, <1>9, <1>10, <1>11, <1>12, <1>13 DEF BindingsNext

LEMMA TypesHold == BindingsSpec => []Types
BY TypesInit, TypesInductive, PTL DEF BindingsSpec

-----------------------------------------------------------------------------
(* Who refers to what: initially, ... *)
LEMMA BindInit == BindingsInit => BindInv
BY DEF BindingsInit, BindInv, CallbackInv, BeginRef, CallInv, PeerInv, NoneOutlivesItsService, Idle, Wrappers

(* A step that leaves these variables alone preserves the references. *)
LEMMA SameReferences ==
  ASSUME BindInv, UNCHANGED <<platform, wrappers, callback, call>>,
         \A c \in Conns : conn'[c] = "orphan" => conn[c] = "orphan",
         callback # Idle => conn'[callback.conn] = "open"
  PROVE  BindInv'
BY DEF BindInv, CallbackInv, BeginRef, CallInv, PeerInv, NoneOutlivesItsService, Wrappers, Kept

(* What a step that releases references does to the connections. *)
LEMMA ReleasedConns ==
  ASSUME NEW thread, Types, Released(thread)
  PROVE  /\ \A c \in Conns : conn[c] = "open" => conn'[c] = "open"
         /\ \A c \in Conns : conn'[c] = "orphan" => conn[c] = "orphan" /\ Referenced(c)'
BY DEF Released, Types

(* An orphan is referred to by a call or, on Apple's systems, the application:
   a callback has an open connection. *)
LEMMA OrphanHeld ==
  ASSUME Types', CallbackInv', BeginRef', NEW c \in Conns, conn'[c] = "orphan", Referenced(c)'
  PROVE  (\/ \E t \in Callers : call[t] # NoWrapper /\ wrappers[call[t]].conn = c
          \/ platform = "apple" /\ Kept(c))'
<1>1. callback' = Idle \/ conn'[callback'.conn] = "open"
  BY DEF CallbackInv
<1>2. callback'.event # "none" => callback'.conn # c
  BY <1>1 DEF Idle
<1>3. ASSUME NEW w \in DOMAIN wrappers', Holds(w, c)'
      PROVE  platform' = "apple" /\ wrappers'[w].conn = c /\ wrappers'[w].ref = "app"
  <2>1. wrappers'[w] \in Records
    BY LenProperties DEF Types
  <2>2. wrappers'[w].ref # "callback"
    BY <1>2, <1>3 DEF Holds, CallbackInv, BeginRef, Wrappers
  <2> QED BY <1>3, <2>1, <2>2 DEF Holds, Records, Refs
<1> QED BY <1>2, <1>3 DEF Referenced, Kept, Wrappers

(* The steps that change who refers to a wrapper. *)
LEMMA BeginBinds ==
  ASSUME Types, Types', BindInv, NEW c \in Conns, NEW k, SessionBegin(c, k)
  PROVE  BindInv'
<1>1. /\ callback = Idle /\ conn[c] = "open"
      /\ UNCHANGED <<platform, conn, call>>
  BY DEF SessionBegin, Requested, Ready
<1>2. CASE UNCHANGED <<wrappers, callback>>
  BY <1>1, <1>2, SameReferences
<1>3. CASE /\ wrappers' = Append(wrappers, NewWrapper(c))
           /\ callback' = [event |-> "begin", conn |-> c, wrapper |-> Len(wrappers')]
  <2> DEFINE new == Len(wrappers) + 1
  <2>1. /\ DOMAIN wrappers' = Wrappers \cup {new}
        /\ Len(wrappers') = new /\ new \notin Wrappers
        /\ \A w \in Wrappers : wrappers'[w] = wrappers[w]
        /\ wrappers'[new].conn = c /\ wrappers'[new].ref = "callback" /\ wrappers'[new].peer
    BY <1>3, Appended DEF NewWrapper
  <2>2. /\ callback' # Idle
        /\ callback'.event = "begin" /\ callback'.conn = c /\ callback'.wrapper = new
    BY <1>3, <2>1 DEF Idle
  <2>3. \A w \in Wrappers : wrappers[w].ref # "callback"
    BY <1>1 DEF BindInv, CallbackInv, Idle
  <2> HIDE DEF new
  <2>4. CallbackInv' /\ BeginRef'
    BY <1>1, <2>1, <2>2, <2>3 DEF CallbackInv, BeginRef, Wrappers
  <2>5. CallInv' /\ PeerInv'
    BY <1>1, <2>1 DEF BindInv, CallInv, PeerInv, Wrappers
  <2>6. NoneOutlivesItsService'
    BY <1>1, <2>1 DEF BindInv, NoneOutlivesItsService, CallInv, Kept, Wrappers
  <2> QED BY <1>1, <2>4, <2>5, <2>6 DEF BindInv
<1> QED BY <1>2, <1>3 DEF SessionBegin

LEMMA EndCallbackBinds ==
  ASSUME Types, Types', BindInv, EndCallback
  PROVE  BindInv'
<1>1. /\ callback' = Idle /\ callback'.event = "none"
      /\ UNCHANGED <<platform, call>>
      /\ Released("service")
  BY DEF EndCallback, Idle
<1>2. /\ DOMAIN wrappers' = Wrappers
      /\ \A w \in Wrappers : /\ wrappers'[w].ref # "callback"
                            /\ wrappers'[w].peer = wrappers[w].peer
                            /\ wrappers'[w].conn = wrappers[w].conn
      /\ \A w \in Wrappers : wrappers[w].ref # "callback" => wrappers'[w].ref = wrappers[w].ref
  <2>1. CASE callback.event = "begin"
    <3>1. PICK ref \in {"app", "garbage"} :
            wrappers' = [wrappers EXCEPT ![callback.wrapper].ref = ref]
      BY <2>1 DEF EndCallback
    <3>2. PICK w \in Wrappers : w = callback.wrapper
      BY <2>1 DEF Types
    <3>3. wrappers[w].ref = "callback" /\ wrappers' = [wrappers EXCEPT ![w].ref = ref]
      BY <2>1, <3>1, <3>2 DEF BindInv, BeginRef
    <3>4. /\ DOMAIN wrappers' = Wrappers
          /\ \A v \in Wrappers : /\ wrappers'[v].conn = wrappers[v].conn
                                /\ wrappers'[v].peer = wrappers[v].peer
                                /\ wrappers'[v].ref = IF v = w THEN ref ELSE wrappers[v].ref
      <4>1. w \in Wrappers /\ ref \in Refs
        BY <3>1, <3>2 DEF Refs
      <4>2. RefChanged(w, ref, wrappers')
        BY <3>3, <4>1, Rereferred
      <4> QED BY <4>2 DEF RefChanged
    <3>5. \A v \in Wrappers : wrappers[v].ref = "callback" => v = w
      BY <3>2 DEF BindInv, CallbackInv
    <3> QED BY <3>3, <3>4, <3>5
  <2>2. CASE callback.event # "begin"
    BY <2>2 DEF EndCallback, BindInv, CallbackInv, Wrappers
  <2> QED BY <2>1, <2>2
<1>3. CallbackInv' /\ BeginRef'
  <2>1. \A w \in Wrappers' : wrappers'[w].ref # "callback"
    BY <1>2 DEF Wrappers
  <2>2. callback'.event # "begin"
    BY <1>1
  <2> QED BY <1>1, <2>1, <2>2 DEF CallbackInv, BeginRef
<1>4. CallInv'
  <2>1. \A t \in Callers : call[t] # NoWrapper =>
          call[t] \in Wrappers /\ wrappers'[call[t]].ref = "app"
    BY <1>2 DEF BindInv, CallInv
  <2>2. Wrappers' = Wrappers
    BY <1>2 DEF Wrappers
  <2> QED BY <1>1, <2>1, <2>2 DEF CallInv
<1>5. PeerInv'
  <2>1. \A w \in Wrappers : wrappers[w] \in Records
    BY WrapperTypes
  <2>2. ASSUME NEW w \in Wrappers, wrappers'[w].ref # "garbage" PROVE wrappers'[w].peer
    <3>1. wrappers[w].ref # "garbage"
      BY <1>2, <2>1, <2>2 DEF Records
    <3> QED BY <1>2, <3>1 DEF BindInv, PeerInv
  <2>3. Wrappers' = Wrappers
    BY <1>2 DEF Wrappers
  <2> QED BY <2>2, <2>3 DEF PeerInv
<1>6. NoneOutlivesItsService'
  BY <1>1, <1>3, ReleasedConns, OrphanHeld DEF NoneOutlivesItsService
<1> QED BY <1>1, <1>3, <1>4, <1>5, <1>6
        DEF BindInv

LEMMA CallsBind ==
  ASSUME Types, Types', BindInv, NEW t \in Callers,
         EndCall(t) \/ \E w \in Wrappers : BeginCall(t, w)
  PROVE  BindInv'
<1>1. /\ UNCHANGED <<platform, wrappers, callback>>
      /\ \A u \in Callers \ {t} : call'[u] = call[u]
  BY DEF EndCall, BeginCall, coreVars, Types
<1>2. CallInv'
  BY <1>1 DEF BindInv, CallInv, EndCall, BeginCall, NoWrapper, Wrappers, Types
<1>3. /\ \A c \in Conns : conn[c] = "open" => conn'[c] = "open"
      /\ \A c \in Conns : conn'[c] = "orphan" =>
           conn[c] = "orphan" /\ (Referenced(c)' \/ conn' = conn)
  BY ReleasedConns DEF EndCall, BeginCall, coreVars
<1>4. CallbackInv' /\ BeginRef'
  <2>1. callback # Idle => callback.conn \in Conns
    BY CallbackCases DEF Types
  <2> QED BY <1>1, <1>3, <2>1 DEF BindInv, CallbackInv, BeginRef, Wrappers
<1>5. NoneOutlivesItsService'
  <2>1. CASE EndCall(t)
    BY <1>4, <2>1, ReleasedConns, OrphanHeld DEF NoneOutlivesItsService, EndCall
  <2>2. ASSUME NEW w \in Wrappers, BeginCall(t, w) PROVE NoneOutlivesItsService'
    BY <1>1, <2>2 DEF BindInv, NoneOutlivesItsService, BeginCall, Kept, Wrappers, coreVars
  <2> QED BY <2>1, <2>2
<1> QED BY <1>1, <1>2, <1>4, <1>5
        DEF BindInv, PeerInv, Wrappers

LEMMA ForgetBinds ==
  ASSUME Types, Types', BindInv, NEW w \in Wrappers, Forget(w)
  PROVE  BindInv'
<1>1. /\ UNCHANGED <<platform, callback, call>>
      /\ Released("caller")
      /\ wrappers[w].ref = "app" /\ Unused(w)
  BY DEF Forget
<1>2. /\ DOMAIN wrappers' = Wrappers
      /\ \A v \in Wrappers : /\ wrappers'[v].peer = wrappers[v].peer
                            /\ wrappers'[v].conn = wrappers[v].conn
                            /\ wrappers'[v].ref = IF v = w THEN "garbage" ELSE wrappers[v].ref
  <2>1. "garbage" \in Refs
    BY DEF Refs
  <2>2. RefChanged(w, "garbage", wrappers')
    BY <2>1, Rereferred DEF Forget
  <2> QED BY <2>2 DEF RefChanged
<1>3. CallbackInv' /\ BeginRef'
  <2>1. callback # Idle => callback.conn \in Conns
    BY CallbackCases DEF Types
  <2>2. callback # Idle => conn'[callback.conn] = "open"
    <3>1. \A c \in Conns : conn[c] = "open" => conn'[c] = "open"
      BY <1>1, ReleasedConns
    <3> QED BY <2>1, <3>1 DEF BindInv, CallbackInv
  <2>3. CallbackInv'
    <3>1. ASSUME NEW v \in Wrappers, wrappers'[v].ref = "callback"
          PROVE  callback.event = "begin" /\ callback.wrapper = v
      <4>1. wrappers[v].ref = "callback"
        BY <1>2, <3>1
      <4> QED BY <4>1 DEF BindInv, CallbackInv
    <3>2. Wrappers' = Wrappers
      BY <1>2 DEF Wrappers
    <3> QED BY <1>1, <2>2, <3>1, <3>2 DEF CallbackInv
  <2>4. BeginRef'
    <3>1. ASSUME callback.event = "begin"
          PROVE  /\ wrappers'[callback.wrapper].ref = "callback"
                 /\ wrappers'[callback.wrapper].conn = callback.conn
      <4>1. callback.wrapper \in Wrappers
        BY <3>1 DEF Types
      <4>2. /\ wrappers[callback.wrapper].ref = "callback"
            /\ wrappers[callback.wrapper].conn = callback.conn
        BY <3>1 DEF BindInv, BeginRef
      <4>3. callback.wrapper # w
        BY <1>1, <4>2
      <4> QED BY <1>2, <4>1, <4>2, <4>3
    <3> QED BY <1>1, <3>1 DEF BeginRef
  <2> QED BY <2>3, <2>4
<1>4. CallInv' /\ PeerInv'
  BY <1>1, <1>2 DEF BindInv, CallInv, PeerInv, Unused, Wrappers
<1>5. NoneOutlivesItsService'
  BY <1>3, <1>1, ReleasedConns, OrphanHeld DEF NoneOutlivesItsService
<1> QED BY <1>1, <1>3, <1>4, <1>5
        DEF BindInv

LEMMA FinalizeBinds ==
  ASSUME Types, BindInv, NEW w \in Wrappers, Finalize(w)
  PROVE  BindInv'
<1>1. /\ UNCHANGED <<platform, conn, callback, call>>
      /\ wrappers[w].ref = "garbage"
  BY DEF Finalize, coreVars
<1>2. /\ DOMAIN wrappers' = Wrappers
      /\ \A v \in Wrappers : /\ wrappers'[v].ref = wrappers[v].ref
                            /\ wrappers'[v].conn = wrappers[v].conn
      /\ \A v \in Wrappers \ {w} : wrappers'[v].peer = wrappers[v].peer
  BY Finalized DEF Finalize
<1>3. CallbackInv' /\ BeginRef' /\ CallInv' /\ PeerInv'
  <2>1. Wrappers' = Wrappers
    BY <1>2 DEF Wrappers
  <2>2. CallbackInv' /\ BeginRef'
    BY <1>1, <1>2, <2>1 DEF BindInv, CallbackInv, BeginRef, Types
  <2>3. CallInv'
    BY <1>1, <1>2, <2>1 DEF BindInv, CallInv
  <2>4. PeerInv'
    BY <1>1, <1>2, <2>1 DEF BindInv, PeerInv
  <2> QED BY <2>2, <2>3, <2>4
<1>4. NoneOutlivesItsService'
  <2>1. Wrappers' = Wrappers
    BY <1>2 DEF Wrappers
  <2> QED BY <1>1, <1>2, <2>1 DEF BindInv, NoneOutlivesItsService, CallInv, Kept
<1> QED BY <1>1, <1>3, <1>4 DEF BindInv

(* Every step preserves the references. *)
LEMMA BindInductive == Types /\ Types' /\ BindInv /\ [BindingsNext]_bindingVars => BindInv'
<1> SUFFICES ASSUME Types, Types', BindInv, [BindingsNext]_bindingVars PROVE BindInv'
  OBVIOUS
<1> DEFINE same == UNCHANGED <<platform, wrappers, callback, call>>
<1>1. ASSUME same, UNCHANGED conn PROVE BindInv'
  BY <1>1, SameReferences DEF BindInv, CallbackInv
<1>2. CASE UNCHANGED bindingVars
  BY <1>1, <1>2 DEF bindingVars, coreVars, appVars
<1>3. ASSUME NEW c \in Conns, Connect(c) \/ Close(c) PROVE BindInv'
  <2>1. /\ same /\ callback = Idle
        /\ \A d \in Conns : conn'[d] = "orphan" => conn[d] = "orphan"
    BY <1>3 DEF Connect, Close, Ready, appVars, Types
  <2> QED BY <2>1, SameReferences
<1>4. ASSUME NEW c \in Conns, NEW m, CastingEvent(c, m) \/ MirroringEvent(c) PROVE BindInv'
  <2>1. /\ callback = Idle /\ conn[c] = "open"
        /\ UNCHANGED <<platform, conn, wrappers, call>>
    BY <1>4 DEF CastingEvent, MirroringEvent, Requested, Ready, coreVars
  <2>2. callback' = callback \/ callback' = Handling(c)
    BY <1>4 DEF CastingEvent, MirroringEvent
  <2>3. Handling(c).event = "method" /\ Handling(c).conn = c
    BY DEF Handling
  <2>4. CallbackInv' /\ BeginRef'
    BY <2>1, <2>2, <2>3 DEF BindInv, CallbackInv, BeginRef, Idle, Wrappers
  <2> QED BY <2>1, <2>4
          DEF BindInv, CallInv, PeerInv, NoneOutlivesItsService, Kept, Wrappers
<1>5. ASSUME NEW c \in Conns, StartStream(c) \/ StreamEvent(c) \/ EndStreamEvent(c) PROVE BindInv'
  BY <1>1, <1>5 DEF StartStream, StreamEvent, EndStreamEvent, coreVars, appVars
<1>6. CASE SetSessionHandler \/ Stop \/ Start
  BY <1>1, <1>6 DEF SetSessionHandler, Stop, Start, appVars
<1>7. CASE Stopped
  <2>1. /\ same /\ callback = Idle
        /\ \A c \in Conns : conn'[c] = "orphan" => conn[c] = "orphan" \/ Referenced(c)
    BY <1>7 DEF Stopped, appVars, Types
  <2>2. CallbackInv' /\ BeginRef' /\ CallInv' /\ PeerInv'
    BY <2>1 DEF BindInv, CallbackInv, BeginRef, CallInv, PeerInv, Wrappers
  <2>3. \A c \in Conns : Referenced(c) => Referenced(c)'
    BY <2>1 DEF Referenced, Holds, Wrappers
  <2>4. NoneOutlivesItsService'
    BY <2>1, <2>2, <2>3, OrphanHeld DEF BindInv, NoneOutlivesItsService, Kept, Wrappers
  <2> QED BY <2>1, <2>2, <2>4 DEF BindInv
<1> QED BY <1>2, <1>3, <1>4, <1>5, <1>6, <1>7, BeginBinds, EndCallbackBinds, CallsBind,
           ForgetBinds, FinalizeBinds DEF BindingsNext

LEMMA BindHolds == BindingsSpec => []BindInv
BY BindInit, BindInductive, TypesHold, PTL DEF BindingsSpec

-----------------------------------------------------------------------------
(* Which proxies are deleted. *)

(* A step that sets no handler and starts no stream. *)
LEMMA SameProxies ==
  ASSUME ProxyInv, UNCHANGED <<handler, captured, proxies, freed>>,
         \/ UNCHANGED callback
         \/ callback'.event # "method"
         \/ \E c \in Conns : callback' = Handling(c)
  PROVE  ProxyInv'
<1>1. \A c \in Conns : Uses(c)' = Uses(c)
  BY DEF Uses
<1>2. callback'.event = "method" => callback'.proxy = handler[callback'.conn]
  <2>1. ASSUME NEW c \in Conns, callback' = Handling(c)
        PROVE  callback'.proxy = handler[callback'.conn]
    BY <2>1 DEF Handling
  <2> QED BY <2>1 DEF ProxyInv
<1> QED BY <1>1, <1>2 DEF ProxyInv

(* The handler of a session is replaced: by a new proxy, and the one before is
   deleted unless the session's stream uses it. *)
LEMMA SetHandlerProxies ==
  ASSUME Types, ProxyInv, SetSessionHandler
  PROVE  ProxyInv'
<1>1. PICK c \in Conns : c = callback.conn
  BY CallbackCases DEF Types, SetSessionHandler
<1>2. /\ callback.event = "begin" /\ UNCHANGED <<captured, callback>>
      /\ proxies' = proxies + 1 /\ proxies \in Nat
      /\ handler' = [handler EXCEPT ![c] = proxies + 1]
      /\ freed' \subseteq freed \cup ({handler[c]} \ {NoProxy, captured[c]})
  BY <1>1 DEF Types, SetSessionHandler, Replaced
<1>3. /\ Uses(c)' = {proxies + 1, captured[c]}
      /\ \A d \in Conns : d # c => Uses(d)' = Uses(d)
  BY <1>2 DEF Uses, Types
<1>4. \A d \in Conns : Uses(d) \subseteq (0..proxies) \ freed
  BY DEF ProxyInv
<1>5. /\ handler[c] \in Uses(c) /\ captured[c] \in Uses(c)
      /\ handler[c] \in 0..proxies /\ captured[c] \in 0..proxies
  BY <1>4 DEF Uses
<1>6. freed' \subseteq 1..(proxies + 1)
  BY <1>2, <1>5 DEF ProxyInv, NoProxy
<1>7. proxies + 1 \in 0..(proxies + 1) /\ proxies + 1 \notin freed'
  BY <1>2, <1>5 DEF ProxyInv
<1>8. ASSUME NEW d \in Conns PROVE Uses(d)' \subseteq (0..(proxies + 1)) \ freed'
  <2>1. CASE d = c
    BY <1>2, <1>3, <1>4, <1>5, <1>7, <2>1
  <2>2. CASE d # c
    <3>1. Uses(c) \cap Uses(d) \subseteq {NoProxy}
      BY <2>2 DEF ProxyInv
    <3>2. \A p \in Uses(d) : p \in 0..(proxies + 1) /\ p \notin freed'
      BY <1>2, <1>4, <1>5, <3>1
    <3> QED BY <1>3, <2>2, <3>2
  <2> QED BY <2>1, <2>2
<1>9. ASSUME NEW d \in Conns, NEW e \in Conns, d # e
      PROVE  Uses(d)' \cap Uses(e)' \subseteq {NoProxy}
  <2>1. proxies + 1 \notin 0..proxies
    BY <1>2
  <2>2. Uses(d) \cap Uses(e) \subseteq {NoProxy}
    BY <1>9 DEF ProxyInv
  <2>3. proxies + 1 \notin Uses(d) /\ proxies + 1 \notin Uses(e)
    BY <1>4, <2>1
  <2> QED BY <1>3, <1>5, <1>9, <2>2, <2>3
<1> QED BY <1>2, <1>6, <1>8, <1>9 DEF ProxyInv

(* A stream captures the handler that its session has. *)
LEMMA StartStreamProxies ==
  ASSUME Types, ProxyInv, NEW c \in Conns, StartStream(c)
  PROVE  ProxyInv'
<1>1. /\ captured' = [captured EXCEPT ![c] = handler[c]]
      /\ UNCHANGED <<handler, proxies, freed, callback>>
  BY DEF StartStream, appVars
<1>2. \A d \in Conns : Uses(d)' \subseteq Uses(d)
  BY <1>1 DEF Uses, Types
<1> QED BY <1>1, <1>2 DEF ProxyInv

(* Which proxies are deleted, at any time. *)
LEMMA ProxyHolds == BindingsSpec => []ProxyInv
<1>1. BindingsInit => ProxyInv
  BY DEF BindingsInit, ProxyInv, Uses, NoProxy, Idle
<1>2. Types /\ ProxyInv /\ [BindingsNext]_bindingVars => ProxyInv'
  <2> SUFFICES ASSUME Types, ProxyInv, [BindingsNext]_bindingVars PROVE ProxyInv'
    OBVIOUS
  <2> DEFINE same == UNCHANGED <<handler, captured, proxies, freed>>
  <2>1. CASE UNCHANGED bindingVars
    BY <2>1, SameProxies DEF bindingVars, coreVars, appVars
  <2>2. ASSUME NEW c \in Conns, Connect(c) \/ Close(c) \/ StreamEvent(c) \/ EndStreamEvent(c)
        PROVE  ProxyInv'
    BY <2>2, SameProxies DEF Connect, Close, StreamEvent, EndStreamEvent, coreVars, appVars
  <2>3. ASSUME NEW c \in Conns, NEW k, SessionBegin(c, k) PROVE ProxyInv'
    <3>1. same /\ (callback' = callback \/ callback'.event = "begin")
      BY <2>3 DEF SessionBegin
    <3> QED BY <3>1, SameProxies
  <2>4. ASSUME NEW c \in Conns, NEW m, CastingEvent(c, m) \/ MirroringEvent(c) PROVE ProxyInv'
    <3>1. same /\ (callback' = callback \/ callback' = Handling(c))
      BY <2>4 DEF CastingEvent, MirroringEvent, coreVars
    <3> QED BY <3>1, SameProxies
  <2>5. CASE EndCallback
    <3>1. same /\ callback'.event = "none"
      BY <2>5 DEF EndCallback, Idle
    <3> QED BY <3>1, SameProxies
  <2>6. ASSUME NEW t \in Callers, EndCall(t) \/ \E w \in Wrappers : BeginCall(t, w) PROVE ProxyInv'
    BY <2>6, SameProxies DEF EndCall, BeginCall, coreVars
  <2>7. ASSUME NEW w \in Wrappers, Forget(w) \/ Finalize(w) PROVE ProxyInv'
    BY <2>7, SameProxies DEF Forget, Finalize, coreVars
  <2>8. CASE Stop \/ Stopped \/ Start
    BY <2>8, SameProxies DEF Stop, Stopped, Start, appVars
  <2> QED BY <2>1, <2>2, <2>3, <2>4, <2>5, <2>6, <2>7, <2>8, SetHandlerProxies,
             StartStreamProxies DEF BindingsNext
<1> QED BY <1>1, <1>2, TypesHold, PTL DEF BindingsSpec

-----------------------------------------------------------------------------
(* No session outlives the io_context of its socket, but one that a call holds
   or, on Apple's systems, the application. *)
THEOREM NoneOutlives == BindingsSpec => []NoneOutlivesItsService
BY BindHolds, PTL DEF BindInv

(* Nothing deleted is used: neither a proxy nor the native peer of a wrapper. *)
THEOREM DeletedIsUnused == BindingsSpec => []NothingDeletedIsUsed
<1>1. Types /\ BindInv /\ ProxyInv => NothingDeletedIsUsed
  <2> SUFFICES ASSUME Types, BindInv, ProxyInv PROVE NothingDeletedIsUsed
    OBVIOUS
  <2>1. ASSUME callback.event = "begin" PROVE wrappers[callback.wrapper].peer
    BY <2>1 DEF Types, BindInv, BeginRef, PeerInv
  <2>2. ASSUME NEW t \in Callers, call[t] # NoWrapper PROVE wrappers[call[t]].peer
    BY <2>2 DEF BindInv, CallInv, PeerInv
  <2>3. \A c \in Conns : handler[c] \notin freed /\ captured[c] \notin freed
    BY DEF ProxyInv, Uses
  <2>4. ASSUME callback.event = "method" PROVE callback.proxy \notin freed
    <3>1. callback.conn \in Conns /\ callback.proxy = handler[callback.conn]
      BY <2>4, CallbackCases DEF Types, ProxyInv
    <3> QED BY <2>3, <3>1
  <2>5. \A c \in streaming : captured[c] \notin freed
    BY <2>3 DEF Types
  <2> QED BY <2>1, <2>2, <2>4, <2>5 DEF NothingDeletedIsUsed
<1> QED BY <1>1, TypesHold, BindHolds, ProxyHolds, PTL

-----------------------------------------------------------------------------
(* MirroringKeys: the invariant. *)

(* Unless a SETUP crossed with a query or its reply, all of them, and the
   endpoint, are of the port announced last. *)
EndpointAgrees ==
  /\ unanswered \subseteq Queries
  /\ replies \subseteq Queries
  /\ ~crossed =>
       /\ endpoint = announced
       /\ \A q \in unanswered \cup replies : sentTo[q] = announced
       /\ ~missent

(* Without overlap one receive at most is posted or waits for on_recv_from, and
   in the latter case only the packet is in the order of the network. *)
ReplyAwaitsItsHandler ==
  ~overlap =>
    /\ receives + ready <= 1
    /\ packet = "network" <=> ready = 1

(* Both ends of a pair-verify round. *)
PairingAgrees ==
  /\ secret = pairing
  /\ curve = pairing
  /\ pairing # NoPairing => identity /\ verifyCtr = [key |-> pairing, pos |-> frames + 1]
  /\ ~refused

(* A stream's thread has something to decrypt only while there is a service. *)
ThreadHasService ==
  \A s \in Streams : ~hasService[s] => ~Busy(s) /\ wire[s] = <<>>

(* Both ends of the session. *)
SessionAgrees ==
  /\ fpMessage = handshakes
  /\ ~rekeyed => clientKey = agreed /\ clientIv = setups

(* Where in the video stream the frame stands that is read next. *)
NextPosition == videoCtr.pos + IF Busy("video") THEN 1 ELSE 0

VideoAgrees ==
  ~rekeyed /\ hasService["video"] =>
    /\ videoCtr.stream # 0 /\ videoCtr.iv = NoSetup
    /\ Busy("video") => decrypting["video"] = videoCtr
    /\ \A i \in 1..Len(wire["video"]) :
         wire["video"][i] = Cipher(videoCtr.stream, videoCtr.key, NextPosition + i - 1)
    /\ senderCtr = Cipher(videoCtr.stream, videoCtr.key, NextPosition + Len(wire["video"]))

AudioAgrees ==
  ~rekeyed /\ hasService["audio"] =>
    /\ Busy("audio") => decrypting["audio"] = PacketCipher(clientKey, clientIv)
    /\ \A i \in 1..Len(wire["audio"]) : wire["audio"][i] = PacketCipher(clientKey, clientIv)

Inv ==
  /\ TypeOK
  /\ EndpointAgrees
  /\ ReplyAwaitsItsHandler
  /\ PairingAgrees
  /\ ThreadHasService
  /\ SessionAgrees
  /\ VideoAgrees
  /\ AudioAgrees
  /\ StreamsAreClear
  /\ CiphersAreNotShared

-----------------------------------------------------------------------------
(* Types. *)

(* Ciphers are ciphers. *)
LEMMA CipherType ==
  ASSUME NEW n \in Nat, NEW key \in Seq(Blocks), NEW p \in Nat
  PROVE  Cipher(n, key, p) \in Ciphers
BY DEF Cipher, Ciphers, NoSetup

(* So they are one frame further on. *)
LEMMA NextInStream ==
  ASSUME NEW c \in Ciphers
  PROVE  [c EXCEPT !.pos = @ + 1] \in Ciphers
BY DEF Ciphers

(* So are those of audio packets. *)
LEMMA PacketCipherType ==
  ASSUME NEW key \in Seq(Blocks), key # <<>>, NEW iv \in Nat
  PROVE  PacketCipher(key, iv) \in Ciphers
<1>1. key[1] \in Blocks
  OBVIOUS
<1>2. <<key[1]>> \in Seq(Blocks)
  BY <1>1
<1> QED BY <1>2 DEF PacketCipher, Ciphers

(* The key that one end derives on SETUP from what it has. *)
LEMMA DerivedType ==
  ASSUME NEW n \in Nat, NEW h \in Nat, NEW pair \in Nat, NEW rest \in Seq(Blocks)
  PROVE  /\ <<Raw(n, h)>> \o rest \o Derived(Raw(n, h), pair) \in Seq(Blocks)
         /\ <<Raw(n, h)>> \o rest \o Derived(Raw(n, h), pair) # <<>>
         /\ <<Raw(n, h)>> \o Derived(Raw(n, h), pair) \in Seq(Blocks)
         /\ <<Raw(n, h)>> \o Derived(Raw(n, h), pair) # <<>>
<1> DEFINE raw == Raw(n, h)
<1>1. raw \in Blocks /\ Hashed(raw, pair) \in Blocks
  BY DEF Raw, Hashed, Blocks
<1>2. Derived(raw, pair) \in Seq(Blocks)
  BY <1>1 DEF Derived
<1> HIDE DEF raw
<1>3. <<raw>> \in Seq(Blocks) /\ Len(<<raw>>) = 1
  BY <1>1
<1>4. <<raw>> \o rest \in Seq(Blocks) /\ Len(<<raw>> \o rest) = 1 + Len(rest)
  BY <1>3
<1>5. /\ <<raw>> \o rest \o Derived(raw, pair) \in Seq(Blocks)
      /\ Len(<<raw>> \o rest \o Derived(raw, pair)) = 1 + Len(rest) + Len(Derived(raw, pair))
  BY <1>2, <1>4
<1>6. /\ <<raw>> \o Derived(raw, pair) \in Seq(Blocks)
      /\ Len(<<raw>> \o Derived(raw, pair)) = 1 + Len(Derived(raw, pair))
  BY <1>2, <1>3
<1> QED BY <1>2, <1>5, <1>6 DEF raw

(* The types hold initially. *)
LEMMA TypeInit == Init => TypeOK
<1> SUFFICES ASSUME Init PROVE TypeOK
  OBVIOUS
<1>0. <<>> \in Seq(Blocks) /\ <<>> \in Seq(Nat) /\ <<>> \in Seq(Ciphers)
  OBVIOUS
<1>1. Nothing \in Ciphers /\ Cipher(0, <<>>, 0) \in Ciphers
  BY <1>0, CipherType DEF Nothing, Ciphers, NoSetup
<1>2. <<Zeros>> \in Seq(Blocks) /\ <<Zeros>> # <<>>
  BY DEF Zeros, Blocks, NoSetup, NoHandshake
<1>3. TimingTypeOK
  <2>1. sentTo = <<>> /\ sending = {} /\ unanswered = {} /\ replies = {}
    BY DEF Init, TimingInit
  <2> QED BY <1>0, <2>1 DEF Init, TimingInit, TimingTypeOK, NoPort
<1>4. /\ decrypting \in [Streams -> Ciphers]
      /\ wire \in [Streams -> Seq(Ciphers)]
      /\ hasService \in [Streams -> BOOLEAN]
  BY <1>0, <1>1 DEF Init
<1>5. max \in Bounds
  BY InstancesAssumption DEF Init
<1>6. /\ pairing \in 0..max.pairings /\ handshakes \in 0..max.handshakes
      /\ setups \in 0..max.setups /\ streams \in 0..max.streams
  BY <1>5 DEF Init, Bounds, NoPairing, NoHandshake, NoSetup
<1>7. /\ identity \in BOOLEAN /\ rekeyed \in BOOLEAN /\ garbled \in BOOLEAN
      /\ refused \in BOOLEAN /\ raced \in BOOLEAN
  BY DEF Init
<1>8. /\ verifyCtr \in [key : Nat, pos : Nat] /\ curve \in Nat /\ secret \in Nat
      /\ fpMessage \in Nat /\ clientIv \in Nat /\ frames \in 0..2
  BY DEF Init, NoPairing, NoHandshake, NoSetup
<1>9. /\ clientKey \in Seq(Blocks) /\ clientKey # <<>>
      /\ agreed \in Seq(Blocks) /\ agreed # <<>>
      /\ videoCtr \in Ciphers /\ senderCtr \in Ciphers
  BY <1>1, <1>2 DEF Init
<1> QED BY <1>3, <1>4, <1>5, <1>6, <1>7, <1>8, <1>9 DEF TypeOK

-----------------------------------------------------------------------------
(* The timing service. *)

(* Its steps, and those that leave it alone. *)
LEMMA TimingSteps ==
  ASSUME [Next]_vars
  PROVE  \/ \E p \in 1..max.ports : SetServerEndpoint(p)
         \/ PostSendQuery
         \/ TimingThread
         \/ TimingNetwork
         \/ UNCHANGED timingVars
<1>1. CASE ControlThread
  <2>1. CASE SetupSession
    BY <2>1 DEF SetupSession
  <2>2. CASE Record
    BY <2>2 DEF Record
  <2> QED BY <1>1, <2>1, <2>2 DEF ControlThread, PairSetup, FirstFrame, SecondFrame,
    PostFpSetup, FpHandshake, SetupVideo, SetupAudio, Teardown
<1>2. CASE StreamThreads
  BY <1>2 DEF StreamThreads, BeginDecrypt, DecryptVideoFrame, DecryptAudioData
<1>3. CASE Timing
  BY <1>3 DEF Timing
<1>4. CASE EmitFrame \/ EmitPacket \/ LosePacket
  BY <1>4 DEF EmitFrame, EmitPacket, LosePacket
<1> QED BY <1>1, <1>2, <1>3, <1>4 DEF Next, vars

(* A query that has been sent stays where it was sent to. *)
LEMMA AppendQuery ==
  ASSUME NEW s \in Seq(Nat), NEW e \in Nat
  PROVE  /\ Append(s, e) \in Seq(Nat)
         /\ DOMAIN Append(s, e) = DOMAIN s \cup {Len(s) + 1}
         /\ \A q \in DOMAIN s : Append(s, e)[q] = s[q]
         /\ Append(s, e)[Len(s) + 1] = e
         /\ Len(Append(s, e)) = Len(s) + 1
BY AppendProperties

(* The types of the timing service are preserved. *)
LEMMA TimingTypeInductive ==
  ASSUME TimingTypeOK, max \in Bounds, [Next]_vars
  PROVE  TimingTypeOK'
<1>1. ASSUME NEW p \in 1..max.ports, SetServerEndpoint(p) PROVE TimingTypeOK'
  <2>1. p \in Nat
    BY DEF Bounds
  <2>2. crossed' \in BOOLEAN
    BY <1>1 DEF SetServerEndpoint
  <2> QED BY <1>1, <2>1, <2>2 DEF SetServerEndpoint, TimingTypeOK, Queries
<1>2. CASE PostSendQuery
  <2>1. /\ sentTo' \in Seq(Nat) /\ Queries' = Queries \cup {Len(sentTo')}
    BY <1>2, AppendQuery DEF PostSendQuery, TimingTypeOK, Queries
  <2>2. missent' \in BOOLEAN
    BY <1>2 DEF PostSendQuery
  <2>3. sending' \subseteq Queries' /\ unanswered' \subseteq Queries' /\ replies' \subseteq Queries'
    BY <1>2, <2>1 DEF PostSendQuery, TimingTypeOK
  <2> QED BY <1>2, <2>1, <2>2, <2>3 DEF PostSendQuery, TimingTypeOK
<1>3. ASSUME NEW q \in Queries, OnSendTo(q) PROVE TimingTypeOK'
  <2>1. overlap' \in BOOLEAN
    BY <1>3 DEF OnSendTo
  <2> QED BY <1>3, <2>1 DEF OnSendTo, TimingTypeOK, Queries
<1>4. ASSUME NEW q \in Queries, Receive(q) PROVE TimingTypeOK'
  <2>1. sentTo[q] \in Nat
    BY DEF TimingTypeOK, Queries
  <2> QED BY <1>4, <2>1 DEF Receive, TimingTypeOK, Queries
<1>5. CASE OnRecvFrom
  BY <1>5 DEF OnRecvFrom, TimingTypeOK, Queries
<1>6. CASE TimingNetwork
  BY <1>6 DEF TimingNetwork, Reply, Lose, TimingTypeOK, Queries
<1>7. CASE UNCHANGED timingVars
  BY <1>7 DEF timingVars, TimingTypeOK, Queries
<1> QED BY <1>1, <1>2, <1>3, <1>4, <1>5, <1>6, <1>7, TimingSteps DEF TimingThread

(* The endpoint goes on agreeing with the sender's. *)
LEMMA EndpointInductive ==
  ASSUME TimingTypeOK, EndpointAgrees, [Next]_vars
  PROVE  EndpointAgrees'
<1>1. ASSUME NEW p \in 1..max.ports, SetServerEndpoint(p) PROVE EndpointAgrees'
  BY <1>1 DEF SetServerEndpoint, EndpointAgrees, Queries
<1>2. CASE PostSendQuery
  <2>1. /\ Queries' = Queries \cup {Len(sentTo')}
        /\ \A q \in Queries : sentTo'[q] = sentTo[q]
        /\ sentTo'[Len(sentTo')] = endpoint
    BY <1>2, AppendQuery DEF PostSendQuery, TimingTypeOK, Queries
  <2> QED BY <1>2, <2>1 DEF PostSendQuery, EndpointAgrees
<1>3. CASE TimingThread
  BY <1>3 DEF TimingThread, OnSendTo, Receive, OnRecvFrom, EndpointAgrees, Queries
<1>4. CASE TimingNetwork
  BY <1>4 DEF TimingNetwork, Reply, Lose, EndpointAgrees, Queries
<1>5. CASE UNCHANGED timingVars
  BY <1>5 DEF timingVars, EndpointAgrees, Queries
<1> QED BY <1>1, <1>2, <1>3, <1>4, <1>5, TimingSteps

(* A reply goes on being converted once. *)
LEMMA ReplyInductive ==
  ASSUME TimingTypeOK, ReplyAwaitsItsHandler, [Next]_vars
  PROVE  ReplyAwaitsItsHandler'
<1> USE DEF TimingTypeOK, ReplyAwaitsItsHandler
<1>1. ASSUME NEW p \in 1..max.ports, SetServerEndpoint(p) PROVE ReplyAwaitsItsHandler'
  BY <1>1 DEF SetServerEndpoint
<1>2. CASE PostSendQuery
  BY <1>2 DEF PostSendQuery
<1>3. ASSUME NEW q \in Queries, OnSendTo(q) PROVE ReplyAwaitsItsHandler'
  <2>1. CASE sentTo[q] = NoPort
    BY <1>3, <2>1 DEF OnSendTo
  <2>2. CASE sentTo[q] # NoPort
    <3>1. overlap' <=> overlap \/ receives + ready > 0
      BY <1>3, <2>2 DEF OnSendTo
    <3>2. receives' = receives + 1 /\ ready' = ready /\ packet' = packet
      BY <1>3, <2>2 DEF OnSendTo
    <3> QED BY <3>1, <3>2
  <2> QED BY <2>1, <2>2
<1>4. ASSUME NEW q \in Queries, Receive(q) PROVE ReplyAwaitsItsHandler'
  BY <1>4 DEF Receive
<1>5. CASE OnRecvFrom
  BY <1>5 DEF OnRecvFrom
<1>6. CASE TimingNetwork
  BY <1>6 DEF TimingNetwork, Reply, Lose
<1>7. CASE UNCHANGED timingVars
  BY <1>7 DEF timingVars
<1> QED BY <1>1, <1>2, <1>3, <1>4, <1>5, <1>6, <1>7, TimingSteps DEF TimingThread

-----------------------------------------------------------------------------
(* Pairing. *)

(* Both ends of pair-verify go on agreeing. *)
LEMMA PairingInductive ==
  ASSUME TypeOK, PairingAgrees, [Next]_vars
  PROVE  PairingAgrees'
<1>1. CASE PairSetup
  BY <1>1 DEF PairSetup, InitClientPublicKeys, PairingAgrees, history
<1>2. CASE FirstFrame
  BY <1>2 DEF FirstFrame, InitPairVerifyAes, InitClientPublicKeys, XcryptBuffer, history, TypeOK, PairingAgrees
<1>3. ASSUME NEW p \in {1, frames + 1}, SecondFrame(p) PROVE PairingAgrees'
  <2>1. verifyCtr = [key |-> pairing, pos |-> frames + 1] /\ identity /\ curve = pairing
    BY <1>3 DEF SecondFrame, XcryptBuffer, PairingAgrees
  <2>2. frames' = frames + 1 /\ frames \in Nat
    BY <1>3 DEF SecondFrame, XcryptBuffer, TypeOK
  <2>3. ~refused'
    BY <1>3, <2>1, <2>2 DEF SecondFrame, XcryptBuffer, Verified, PairingAgrees
  <2>4. verifyCtr' = [key |-> pairing, pos |-> frames' + 1]
    BY <1>3, <2>1, <2>2 DEF SecondFrame, XcryptBuffer
  <2> QED BY <1>3, <2>3, <2>4 DEF SecondFrame, XcryptBuffer, PairingAgrees
<1>4. CASE UNCHANGED <<pairVars, refused>>
  BY <1>4 DEF pairVars, PairingAgrees
<1>5. CASE PostFpSetup \/ SetupSession \/ SetupVideo \/ SetupAudio \/ Record
  BY <1>4, <1>5 DEF PostFpSetup, FpHandshake, SetupSession, SetupVideo, SetupAudio, Record, history
<1>6. ASSUME NEW s \in Streams, Teardown(s) PROVE PairingAgrees'
  BY <1>4, <1>6 DEF Teardown, history
<1>7. CASE StreamThreads
  BY <1>4, <1>7 DEF StreamThreads, BeginDecrypt, DecryptVideoFrame, DecryptAudioData, history
<1>8. CASE Timing \/ EmitFrame \/ EmitPacket \/ LosePacket
  BY <1>4, <1>8 DEF Timing, EmitFrame, EmitPacket, LosePacket, history
<1>9. CASE UNCHANGED vars
  BY <1>4, <1>9 DEF vars, history
<1> QED BY <1>1, <1>2, <1>3, <1>5, <1>6, <1>7, <1>8, <1>9 DEF Next, ControlThread

-----------------------------------------------------------------------------
(* The session's key and the streams. *)

(* The steps that concern them. *)
LEMMA KeySteps ==
  ASSUME [Next]_vars
  PROVE  \/ PostFpSetup \/ SetupSession \/ SetupVideo \/ SetupAudio
         \/ \E s \in Streams : Teardown(s) \/ BeginDecrypt(s)
         \/ EmitFrame \/ EmitPacket \/ LosePacket
         \/ DecryptVideoFrame \/ DecryptAudioData
         \/ UNCHANGED <<fpVars, keyVars, streamVars, rekeyed, garbled, raced>>
<1>1. CASE PairSetup \/ FirstFrame \/ \E p \in {1, frames + 1} : SecondFrame(p)
  BY <1>1 DEF PairSetup, InitClientPublicKeys, FirstFrame, SecondFrame, history
<1>2. CASE Record \/ Timing
  BY <1>2 DEF Record, Timing, history
<1>3. CASE UNCHANGED vars
  BY <1>3 DEF vars, history
<1> QED BY <1>1, <1>2, <1>3 DEF Next, ControlThread, StreamThreads

(* What a thread decrypts goes on belonging to its service. *)
LEMMA ThreadInductive ==
  ASSUME TypeOK, ThreadHasService, [Next]_vars
  PROVE  ThreadHasService'
<1> USE DEF TypeOK, ThreadHasService, Busy
<1>1. CASE PostFpSetup \/ SetupSession
  BY <1>1 DEF PostFpSetup, FpHandshake, SetupSession, streamVars
<1>2. CASE SetupVideo
  BY <1>2 DEF SetupVideo
<1>3. CASE SetupAudio
  BY <1>3 DEF SetupAudio
<1>4. ASSUME NEW s \in Streams, Teardown(s) PROVE ThreadHasService'
  BY <1>4 DEF Teardown
<1>5. ASSUME NEW s \in Streams, BeginDecrypt(s) PROVE ThreadHasService'
  BY <1>5 DEF BeginDecrypt
<1>6. CASE EmitFrame
  BY <1>6 DEF EmitFrame
<1>7. CASE EmitPacket
  BY <1>7 DEF EmitPacket
<1>8. CASE LosePacket
  BY <1>8 DEF LosePacket
<1>9. CASE DecryptVideoFrame \/ DecryptAudioData
  BY <1>9 DEF DecryptVideoFrame, XcryptBuffer, DecryptAudioData
<1>10. CASE UNCHANGED streamVars
  BY <1>10 DEF streamVars
<1> QED BY <1>1, <1>2, <1>3, <1>4, <1>5, <1>6, <1>7, <1>8, <1>9, <1>10, KeySteps

(* A key of one block is replaced as a whole. *)
LEMMA TailOfOne ==
  ASSUME NEW key \in Seq(Blocks), key # <<>>, ~(Len(key) > 1)
  PROVE  Tail(key) = <<>>
<1>1. Tail(key) \in Seq(Blocks) /\ Len(Tail(key)) = Len(key) - 1 /\ Len(key) \in Nat
  BY HeadTailProperties
<1>2. Len(Tail(key)) = 0
  BY <1>1
<1> QED BY <1>1, <1>2, EmptySeq

(* Both ends go on having the same session key, until it is replaced. *)
LEMMA SessionInductive ==
  ASSUME TypeOK, SessionAgrees, PairingAgrees, [Next]_vars
  PROVE  SessionAgrees'
<1>1. CASE PostFpSetup
  BY <1>1 DEF PostFpSetup, FpHandshake, SessionAgrees, keyVars, history
<1>2. CASE SetupSession
  <2>1. ASSUME ~rekeyed' PROVE clientKey' = agreed' /\ clientIv' = setups'
    <3>1. ~rekeyed /\ ~(Len(agreed) > 1)
      BY <1>2, <2>1 DEF SetupSession
    <3>2. clientKey = agreed /\ secret = pairing /\ fpMessage = handshakes
      BY <3>1 DEF SessionAgrees, PairingAgrees
    <3>3. Tail(clientKey) = <<>>
      BY <3>1, <3>2, TailOfOne DEF TypeOK
    <3>4. clientKey' = <<Raw(setups', fpMessage)>> \o <<>> \o Derived(Raw(setups', fpMessage), secret)
      BY <1>2, <3>3 DEF SetupSession, InitClientAesInfo
    <3>5. <<Raw(setups', fpMessage)>> \o <<>> = <<Raw(setups', fpMessage)>>
      OBVIOUS
    <3> QED BY <1>2, <3>2, <3>4, <3>5 DEF SetupSession, InitClientAesInfo
  <2> QED BY <1>2, <2>1 DEF SetupSession, SessionAgrees, fpVars
<1>3. CASE UNCHANGED <<fpVars, keyVars, rekeyed>>
  BY <1>3 DEF fpVars, keyVars, SessionAgrees
<1>4. CASE SetupVideo
  BY <1>4 DEF SetupVideo, SessionAgrees, fpVars, keyVars
<1>5. CASE SetupAudio \/ EmitFrame \/ EmitPacket \/ LosePacket
  BY <1>3, <1>5 DEF SetupAudio, EmitFrame, EmitPacket, LosePacket, history
<1>6. ASSUME NEW s \in Streams, Teardown(s) \/ BeginDecrypt(s) PROVE SessionAgrees'
  BY <1>3, <1>6 DEF Teardown, BeginDecrypt, history
<1>7. CASE DecryptVideoFrame \/ DecryptAudioData
  BY <1>3, <1>7 DEF DecryptVideoFrame, XcryptBuffer, DecryptAudioData
<1> QED BY <1>1, <1>2, <1>3, <1>4, <1>5, <1>6, <1>7, KeySteps

(* A frame that is being decrypted shows in decrypting. *)
LEMMA FramesAreSomething ==
  ASSUME NEW c, c.stream # 0
  PROVE  c # Nothing
BY DEF Nothing

(* Both ends of the video stream go on agreeing. *)
LEMMA VideoInductive ==
  ASSUME TypeOK, ThreadHasService, SessionAgrees, VideoAgrees, [Next]_vars
  PROVE  VideoAgrees'
<1> USE DEF Busy, NextPosition
<1>0. /\ videoCtr \in Ciphers /\ wire["video"] \in Seq(Ciphers) /\ decrypting["video"] \in Ciphers
      /\ wire["audio"] \in Seq(Ciphers) /\ "video" \in Streams
  BY DEF TypeOK, Streams
<1>1. ASSUME videoCtr' = videoCtr, senderCtr' = senderCtr, rekeyed => rekeyed',
             hasService'["video"] => hasService["video"],
             decrypting'["video"] = decrypting["video"], wire'["video"] = wire["video"]
      PROVE  VideoAgrees'
  BY <1>1 DEF VideoAgrees
<1>2. CASE PostFpSetup \/ SetupSession
  BY <1>1, <1>2 DEF PostFpSetup, FpHandshake, SetupSession, streamVars, history
<1>3. CASE SetupVideo
  <2> SUFFICES ASSUME ~rekeyed' PROVE VideoAgrees'
    BY DEF VideoAgrees
  <2>1. ~rekeyed /\ ~hasService["video"]
    BY <1>3 DEF SetupVideo
  <2>2. clientKey = agreed /\ ~Busy("video") /\ wire["video"] = <<>>
    BY <1>0, <2>1 DEF SessionAgrees, ThreadHasService
  <2>3. /\ videoCtr' = Cipher(streams + 1, clientKey, 0) /\ senderCtr' = videoCtr'
        /\ decrypting' = decrypting /\ wire' = wire
    BY <1>3, <2>2 DEF SetupVideo
  <2>4. streams + 1 # 0
    BY DEF TypeOK, Bounds
  <2>5. Len(wire'["video"]) = 0 /\ ~Busy("video")'
    BY <2>2, <2>3
  <2> QED BY <2>3, <2>4, <2>5 DEF VideoAgrees, Cipher
<1>4. CASE SetupAudio
  BY <1>1, <1>4 DEF SetupAudio, history, TypeOK
<1>5. ASSUME NEW s \in Streams, Teardown(s) PROVE VideoAgrees'
  <2>1. CASE s = "video"
    BY <1>0, <1>5, <2>1 DEF Teardown, VideoAgrees, TypeOK
  <2>2. CASE s # "video"
    BY <1>1, <1>5, <2>2 DEF Teardown, history, TypeOK
  <2> QED BY <2>1, <2>2
<1>6. CASE BeginDecrypt("video")
  <2> SUFFICES ASSUME ~rekeyed', hasService'["video"] PROVE VideoAgrees'
    BY DEF VideoAgrees
  <2> DEFINE w == wire["video"]
  <2>1. /\ ~rekeyed /\ hasService["video"] /\ videoCtr' = videoCtr /\ senderCtr' = senderCtr
        /\ w # <<>> /\ ~Busy("video")
        /\ decrypting'["video"] = Head(w) /\ wire'["video"] = Tail(w)
    BY <1>0, <1>6 DEF BeginDecrypt, history, TypeOK
  <2>2. /\ Len(w) \in Nat \ {0} /\ Len(Tail(w)) = Len(w) - 1 /\ Head(w) = w[1]
        /\ \A i \in 1..Len(Tail(w)) : Tail(w)[i] = w[i + 1]
    BY <1>0, <2>1, HeadTailProperties, EmptySeq
  <2>3. videoCtr.pos \in Nat
    BY <1>0 DEF Ciphers
  <2>4. /\ videoCtr.stream # 0 /\ videoCtr.iv = NoSetup
        /\ \A i \in 1..Len(w) : w[i] = Cipher(videoCtr.stream, videoCtr.key, videoCtr.pos + i - 1)
        /\ senderCtr = Cipher(videoCtr.stream, videoCtr.key, videoCtr.pos + Len(w))
    BY <2>1, <2>3 DEF VideoAgrees
  <2>5. w[1] = Cipher(videoCtr.stream, videoCtr.key, videoCtr.pos)
    BY <2>2, <2>3, <2>4
  <2>6. w[1] = videoCtr
    BY <1>0, <2>4, <2>5 DEF Cipher, Ciphers
  <2>7. decrypting'["video"] = videoCtr' /\ Busy("video")'
    BY <2>1, <2>2, <2>4, <2>6, FramesAreSomething
  <2> HIDE DEF w
  <2>8. \A i \in 1..Len(Tail(w)) :
          Tail(w)[i] = Cipher(videoCtr.stream, videoCtr.key, videoCtr.pos + 1 + i - 1)
    <3> TAKE i \in 1..Len(Tail(w))
    <3>1. i + 1 \in 1..Len(w) /\ videoCtr.pos + (i + 1) - 1 = videoCtr.pos + 1 + i - 1
      BY <2>2, <2>3
    <3> QED BY <2>2, <2>4, <3>1
  <2>9. videoCtr.pos + Len(w) = videoCtr.pos + 1 + Len(Tail(w))
    BY <2>2, <2>3
  <2> QED BY <2>1, <2>4, <2>7, <2>8, <2>9 DEF VideoAgrees
<1>7. CASE BeginDecrypt("audio")
  BY <1>0, <1>1, <1>7 DEF BeginDecrypt, history, TypeOK
<1>8. CASE EmitFrame
  <2> SUFFICES ASSUME ~rekeyed', hasService'["video"] PROVE VideoAgrees'
    BY DEF VideoAgrees
  <2> DEFINE w == wire["video"]
             n == NextPosition
  <2>1. /\ ~rekeyed /\ hasService["video"] /\ videoCtr' = videoCtr
        /\ decrypting' = decrypting /\ wire'["video"] = Append(w, senderCtr)
        /\ senderCtr' = [senderCtr EXCEPT !.pos = @ + 1]
    BY <1>0, <1>8 DEF EmitFrame, history, TypeOK
  <2>2. /\ Len(w) \in Nat /\ Len(Append(w, senderCtr)) = Len(w) + 1
        /\ \A i \in 1..Len(w) : Append(w, senderCtr)[i] = w[i]
        /\ Append(w, senderCtr)[Len(w) + 1] = senderCtr
    BY <1>0, AppendProperties DEF TypeOK
  <2>3. n \in Nat /\ n' = n
    BY <1>0, <2>1 DEF Ciphers
  <2>4. /\ videoCtr.stream # 0 /\ videoCtr.iv = NoSetup
        /\ Busy("video") => decrypting["video"] = videoCtr
        /\ \A i \in 1..Len(w) : w[i] = Cipher(videoCtr.stream, videoCtr.key, n + i - 1)
        /\ senderCtr = Cipher(videoCtr.stream, videoCtr.key, n + Len(w))
    BY <2>1 DEF VideoAgrees
  <2> HIDE DEF w, n
  <2>5. senderCtr' = Cipher(videoCtr.stream, videoCtr.key, n + (Len(w) + 1))
    BY <2>1, <2>2, <2>3, <2>4 DEF Cipher
  <2>6. \A i \in 1..(Len(w) + 1) :
          Append(w, senderCtr)[i] = Cipher(videoCtr.stream, videoCtr.key, n + i - 1)
    <3> TAKE i \in 1..(Len(w) + 1)
    <3>1. CASE i \in 1..Len(w)
      BY <2>2, <2>4, <3>1
    <3>2. CASE i = Len(w) + 1
      <4>1. n + i - 1 = n + Len(w)
        BY <2>2, <2>3, <3>2
      <4> QED BY <2>2, <2>4, <3>2, <4>1
    <3> QED BY <2>2, <3>1, <3>2
  <2>7. NextPosition' = n
    BY <2>3 DEF n
  <2>8. Busy("video")' => decrypting'["video"] = videoCtr'
    BY <2>1, <2>4
  <2> HIDE DEF Busy, NextPosition
  <2>9. \A i \in 1..Len(wire'["video"]) :
          wire'["video"][i] = Cipher(videoCtr'.stream, videoCtr'.key, NextPosition' + i - 1)
    BY <2>1, <2>2, <2>6, <2>7
  <2>10. senderCtr' = Cipher(videoCtr'.stream, videoCtr'.key, NextPosition' + Len(wire'["video"]))
    BY <2>1, <2>2, <2>5, <2>7
  <2>11. videoCtr'.stream # 0 /\ videoCtr'.iv = NoSetup
    BY <2>1, <2>4
  <2> QED BY <2>8, <2>9, <2>10, <2>11 DEF VideoAgrees
<1>9. CASE EmitPacket \/ LosePacket
  BY <1>0, <1>1, <1>9 DEF EmitPacket, LosePacket, history, TypeOK
<1>10. CASE DecryptVideoFrame
  <2> SUFFICES ASSUME ~rekeyed', hasService'["video"] PROVE VideoAgrees'
    BY DEF VideoAgrees
  <2>1. /\ ~rekeyed /\ hasService["video"] /\ Busy("video") /\ ~Busy("video")'
        /\ videoCtr' = [videoCtr EXCEPT !.pos = @ + 1]
        /\ senderCtr' = senderCtr /\ wire' = wire
    BY <1>0, <1>10 DEF DecryptVideoFrame, XcryptBuffer, TypeOK
  <2>2. videoCtr.pos \in Nat
    BY <1>0 DEF Ciphers
  <2>3. /\ videoCtr'.stream = videoCtr.stream /\ videoCtr'.key = videoCtr.key
        /\ videoCtr'.iv = videoCtr.iv /\ videoCtr'.pos = videoCtr.pos + 1
    BY <1>0, <2>1 DEF Ciphers
  <2>4. NextPosition' = NextPosition
    BY <2>1, <2>2, <2>3
  <2> HIDE DEF Busy, NextPosition
  <2> QED BY <2>1, <2>3, <2>4 DEF VideoAgrees
<1>11. CASE DecryptAudioData
  BY <1>0, <1>1, <1>11 DEF DecryptAudioData, TypeOK
<1>12. CASE UNCHANGED <<fpVars, keyVars, streamVars, rekeyed, garbled, raced>>
  BY <1>1, <1>12 DEF streamVars
<1> QED BY <1>2, <1>3, <1>4, <1>5, <1>6, <1>7, <1>8, <1>9, <1>10, <1>11, <1>12, KeySteps DEF Streams

(* Audio packets go on being encrypted with the session's key. *)
LEMMA AudioInductive ==
  ASSUME TypeOK, ThreadHasService, SessionAgrees, AudioAgrees, [Next]_vars
  PROVE  AudioAgrees'
<1> USE DEF Busy
<1>0. /\ wire["audio"] \in Seq(Ciphers) /\ decrypting["audio"] \in Ciphers
      /\ "audio" \in Streams
  BY DEF TypeOK, Streams
<1>1. ASSUME clientKey' = clientKey, clientIv' = clientIv, rekeyed => rekeyed',
             hasService'["audio"] => hasService["audio"],
             decrypting'["audio"] = decrypting["audio"], wire'["audio"] = wire["audio"]
      PROVE  AudioAgrees'
  BY <1>1 DEF AudioAgrees
<1>2. CASE PostFpSetup
  BY <1>1, <1>2 DEF PostFpSetup, FpHandshake, keyVars, streamVars, history
<1>3. CASE SetupSession
  BY <1>3 DEF SetupSession, AudioAgrees, streamVars
<1>4. CASE SetupVideo
  BY <1>1, <1>4 DEF SetupVideo, keyVars, TypeOK
<1>5. CASE SetupAudio
  <2>1. CASE hasService["audio"]
    BY <1>1, <1>5, <2>1 DEF SetupAudio, keyVars, history
  <2>2. CASE ~hasService["audio"]
    BY <1>0, <1>5, <2>2 DEF SetupAudio, AudioAgrees, ThreadHasService
  <2> QED BY <2>1, <2>2
<1>6. ASSUME NEW s \in Streams, Teardown(s) PROVE AudioAgrees'
  <2>1. CASE s = "audio"
    BY <1>0, <1>6, <2>1 DEF Teardown, AudioAgrees, TypeOK
  <2>2. CASE s # "audio"
    BY <1>1, <1>6, <2>2 DEF Teardown, keyVars, history, TypeOK
  <2> QED BY <2>1, <2>2
<1>7. CASE BeginDecrypt("audio")
  <2> SUFFICES ASSUME ~rekeyed', hasService'["audio"] PROVE AudioAgrees'
    BY DEF AudioAgrees
  <2> DEFINE w == wire["audio"]
             c == PacketCipher(clientKey, clientIv)
  <2>1. /\ ~rekeyed /\ hasService["audio"] /\ w # <<>> /\ c' = c
        /\ decrypting'["audio"] = Head(w) /\ wire'["audio"] = Tail(w)
    BY <1>0, <1>7 DEF BeginDecrypt, keyVars, history, TypeOK
  <2>2. /\ Len(w) \in Nat \ {0} /\ Len(Tail(w)) = Len(w) - 1 /\ Head(w) = w[1]
        /\ \A i \in 1..Len(Tail(w)) : Tail(w)[i] = w[i + 1]
    BY <1>0, <2>1, HeadTailProperties, EmptySeq
  <2>3. \A i \in 1..Len(w) : w[i] = c
    BY <2>1 DEF AudioAgrees
  <2> HIDE DEF w, c
  <2>4. decrypting'["audio"] = c
    BY <2>1, <2>2, <2>3
  <2>5. \A i \in 1..Len(Tail(w)) : Tail(w)[i] = c
    BY <2>2, <2>3
  <2> QED BY <2>1, <2>4, <2>5 DEF AudioAgrees, c
<1>8. CASE BeginDecrypt("video")
  BY <1>0, <1>1, <1>8 DEF BeginDecrypt, keyVars, history, TypeOK
<1>9. CASE EmitPacket
  <2> SUFFICES ASSUME ~rekeyed', hasService'["audio"] PROVE AudioAgrees'
    BY DEF AudioAgrees
  <2> DEFINE w == wire["audio"]
             c == PacketCipher(clientKey, clientIv)
  <2>1. /\ ~rekeyed /\ hasService["audio"] /\ c' = c /\ decrypting' = decrypting
        /\ wire'["audio"] = Append(w, PacketCipher(agreed, setups))
    BY <1>0, <1>9 DEF EmitPacket, keyVars, history, TypeOK
  <2>2. PacketCipher(agreed, setups) = c /\ c \in Ciphers
    BY <2>1, PacketCipherType DEF SessionAgrees, TypeOK
  <2>3. \A i \in 1..Len(w) : w[i] = c
    BY <2>1 DEF AudioAgrees
  <2>4. Busy("audio") => decrypting["audio"] = c
    BY <2>1 DEF AudioAgrees
  <2> HIDE DEF w, c
  <2>5. /\ Len(Append(w, c)) = Len(w) + 1 /\ Len(w) \in Nat
        /\ \A i \in 1..Len(w) : Append(w, c)[i] = w[i]
        /\ Append(w, c)[Len(w) + 1] = c
    BY <1>0, <2>2, AppendProperties DEF w
  <2>6. \A i \in 1..Len(Append(w, c)) : Append(w, c)[i] = c
    BY <2>3, <2>5
  <2>7. Busy("audio")' => decrypting'["audio"] = c
    BY <2>1, <2>4
  <2> QED BY <2>1, <2>2, <2>6, <2>7 DEF AudioAgrees, c
<1>10. CASE LosePacket
  <2> SUFFICES ASSUME ~rekeyed', hasService'["audio"] PROVE AudioAgrees'
    BY DEF AudioAgrees
  <2> DEFINE w == wire["audio"]
             c == PacketCipher(clientKey, clientIv)
  <2>1. /\ ~rekeyed /\ hasService["audio"] /\ c' = c /\ decrypting' = decrypting
        /\ w # <<>> /\ wire'["audio"] = Tail(w)
    BY <1>0, <1>10 DEF LosePacket, keyVars, history, TypeOK
  <2>2. /\ Len(w) \in Nat \ {0} /\ Len(Tail(w)) = Len(w) - 1
        /\ \A i \in 1..Len(Tail(w)) : Tail(w)[i] = w[i + 1]
    BY <1>0, <2>1, HeadTailProperties, EmptySeq
  <2>3. \A i \in 1..Len(w) : w[i] = c
    BY <2>1 DEF AudioAgrees
  <2>4. Busy("audio") => decrypting["audio"] = c
    BY <2>1 DEF AudioAgrees
  <2> HIDE DEF w, c
  <2>5. \A i \in 1..Len(Tail(w)) : Tail(w)[i] = c
    BY <2>2, <2>3
  <2>6. Busy("audio")' => decrypting'["audio"] = c
    BY <2>1, <2>4
  <2> QED BY <2>1, <2>5, <2>6 DEF AudioAgrees, c
<1>11. CASE EmitFrame
  BY <1>0, <1>1, <1>11 DEF EmitFrame, keyVars, history, TypeOK
<1>12. CASE DecryptVideoFrame
  BY <1>0, <1>1, <1>12 DEF DecryptVideoFrame, XcryptBuffer, keyVars, TypeOK
<1>13. CASE DecryptAudioData
  BY <1>0, <1>13 DEF DecryptAudioData, AudioAgrees, keyVars, TypeOK
<1>14. CASE UNCHANGED <<fpVars, keyVars, streamVars, rekeyed, garbled, raced>>
  BY <1>1, <1>14 DEF keyVars, streamVars
<1> QED BY <1>2, <1>3, <1>4, <1>5, <1>6, <1>7, <1>8, <1>9, <1>10, <1>11, <1>12, <1>13, <1>14,
  KeySteps DEF Streams

(* Nothing is garbled by a step, nor raced, before a key was replaced. *)
LEMMA ClearInductive ==
  ASSUME Inv, [Next]_vars
  PROVE  StreamsAreClear' /\ CiphersAreNotShared'
<1> USE DEF Inv, StreamsAreClear, CiphersAreNotShared
<1>0. "audio" \in Streams /\ "video" \in Streams
  BY DEF Streams
<1>1. ASSUME rekeyed' = rekeyed, garbled' = garbled, raced' = raced
      PROVE  StreamsAreClear' /\ CiphersAreNotShared'
  BY <1>1
<1>2. CASE SetupSession
  <2>1. Busy("audio") => hasService["audio"]
    BY <1>0 DEF ThreadHasService
  <2> QED BY <1>2, <2>1 DEF SetupSession
<1>3. CASE SetupVideo
  <2>1. Busy("video") => hasService["video"]
    BY <1>0 DEF ThreadHasService
  <2> QED BY <1>3, <2>1 DEF SetupVideo
<1>4. CASE DecryptVideoFrame
  <2>1. Busy("video") /\ hasService["video"]
    BY <1>0, <1>4 DEF DecryptVideoFrame, XcryptBuffer, ThreadHasService
  <2>2. ~rekeyed => decrypting["video"] = videoCtr
    BY <2>1 DEF VideoAgrees
  <2> QED BY <1>4, <2>2 DEF DecryptVideoFrame, XcryptBuffer
<1>5. CASE DecryptAudioData
  <2>1. Busy("audio") /\ hasService["audio"]
    BY <1>0, <1>5 DEF DecryptAudioData, ThreadHasService
  <2>2. ~rekeyed => decrypting["audio"] = PacketCipher(clientKey, clientIv)
    BY <2>1 DEF AudioAgrees
  <2> QED BY <1>5, <2>2 DEF DecryptAudioData
<1>6. CASE PostFpSetup \/ SetupAudio \/ EmitFrame \/ EmitPacket \/ LosePacket
  BY <1>1, <1>6 DEF PostFpSetup, FpHandshake, SetupAudio, EmitFrame, EmitPacket, LosePacket, history
<1>7. ASSUME NEW s \in Streams, Teardown(s) \/ BeginDecrypt(s)
      PROVE  StreamsAreClear' /\ CiphersAreNotShared'
  BY <1>1, <1>7 DEF Teardown, BeginDecrypt, history
<1> QED BY <1>1, <1>2, <1>3, <1>4, <1>5, <1>6, <1>7, KeySteps

-----------------------------------------------------------------------------
(* The invariant and the theorems. *)

(* The types of the keys and the streams are preserved. *)
LEMMA TypeInductive ==
  ASSUME TypeOK, [Next]_vars
  PROVE  TypeOK'
<1>0. /\ max' = max /\ max \in Bounds /\ TimingTypeOK'
      /\ max.pairings \in Nat /\ max.handshakes \in Nat /\ max.setups \in Nat
      /\ max.streams \in Nat
  BY TimingTypeInductive DEF Next, vars, TypeOK, Bounds
<1>1. CASE PairSetup
  BY <1>0, <1>1 DEF PairSetup, InitClientPublicKeys, TypeOK, fpVars, keyVars, streamVars, history
<1>2. CASE FirstFrame
  <2>1. /\ pairing' \in 0..max.pairings /\ pairing' \in Nat
        /\ identity' = TRUE /\ curve' = pairing' /\ secret' = pairing' /\ frames' = 0
    BY <1>0, <1>2 DEF FirstFrame, InitPairVerifyAes, InitClientPublicKeys, TypeOK
  <2>2. verifyCtr' \in [key : Nat, pos : Nat]
    <3>1. verifyCtr' = [[key |-> pairing', pos |-> 0] EXCEPT !.pos = @ + 1]
      BY <1>2, <2>1 DEF FirstFrame, InitPairVerifyAes, XcryptBuffer
    <3> QED BY <2>1, <3>1
  <2>3. UNCHANGED <<fpMessage, handshakes, clientKey, clientIv, setups, agreed, videoCtr,
                    hasService, decrypting, streams, senderCtr, wire, rekeyed, garbled,
                    refused, raced>>
    BY <1>2 DEF FirstFrame, fpVars, keyVars, streamVars, history
  <2>4. identity' \in BOOLEAN /\ curve' \in Nat /\ secret' \in Nat /\ frames' \in 0..2
    BY <2>1
  <2> QED BY <1>0, <2>1, <2>2, <2>3, <2>4 DEF TypeOK
<1>3. ASSUME NEW p \in {1, frames + 1}, SecondFrame(p) PROVE TypeOK'
  <2>1. frames' \in 0..2 /\ verifyCtr' = [verifyCtr EXCEPT !.pos = @ + 1]
    BY <1>3 DEF SecondFrame, XcryptBuffer, TypeOK
  <2>2. verifyCtr' \in [key : Nat, pos : Nat]
    <3>1. verifyCtr \in [key : Nat, pos : Nat]
      BY DEF TypeOK
    <3> QED BY <2>1, <3>1
  <2>3. refused' \in BOOLEAN
    BY <1>3 DEF SecondFrame, XcryptBuffer
  <2> QED BY <1>0, <1>3, <2>1, <2>2, <2>3 DEF SecondFrame, XcryptBuffer, TypeOK, fpVars, keyVars, streamVars
<1>4. CASE PostFpSetup
  BY <1>0, <1>4 DEF PostFpSetup, FpHandshake, TypeOK, pairVars, keyVars, streamVars, history
<1>5. CASE SetupSession
  <2>1. setups' \in 0..max.setups /\ setups' \in Nat /\ handshakes \in Nat /\ pairing \in Nat
        /\ fpMessage \in Nat /\ secret \in Nat
    BY <1>0, <1>5 DEF SetupSession, TypeOK
  <2>2. Tail(clientKey) \in Seq(Blocks)
    BY HeadTailProperties DEF TypeOK
  <2>3. /\ clientKey' = <<Raw(setups', fpMessage)>> \o Tail(clientKey)
                          \o Derived(Raw(setups', fpMessage), secret)
        /\ agreed' = <<Raw(setups', handshakes)>> \o Derived(Raw(setups', handshakes), pairing)
        /\ clientIv' = setups'
    BY <1>5 DEF SetupSession, InitClientAesInfo
  <2>4. clientKey' \in Seq(Blocks) /\ clientKey' # <<>>
    BY <2>1, <2>2, <2>3, DerivedType
  <2>5. agreed' \in Seq(Blocks) /\ agreed' # <<>>
    BY <2>1, <2>2, <2>3, DerivedType
  <2>6. rekeyed' \in BOOLEAN /\ raced' \in BOOLEAN
    BY <1>5 DEF SetupSession
  <2>7. UNCHANGED <<pairVars, fpVars, streamVars, garbled, refused>>
    BY <1>5 DEF SetupSession
  <2> QED BY <1>0, <2>1, <2>3, <2>4, <2>5, <2>6, <2>7 DEF TypeOK, pairVars, fpVars, streamVars
<1>6. CASE SetupVideo
  <2>1. /\ streams' \in 0..max.streams /\ streams' \in Nat
        /\ videoCtr' \in Ciphers /\ senderCtr' \in Ciphers
    BY <1>0, <1>6, CipherType DEF SetupVideo, TypeOK
  <2>2. rekeyed' \in BOOLEAN /\ raced' \in BOOLEAN /\ hasService' \in [Streams -> BOOLEAN]
    BY <1>6 DEF SetupVideo, TypeOK
  <2> QED BY <1>0, <1>6, <2>1, <2>2 DEF SetupVideo, TypeOK, pairVars, fpVars, keyVars
<1>7. CASE SetupAudio
  BY <1>0, <1>7 DEF SetupAudio, TypeOK, pairVars, fpVars, keyVars, history
<1>8. CASE Record
  BY <1>0, <1>8 DEF Record, TypeOK, pairVars, fpVars, keyVars, streamVars, history
<1>9. ASSUME NEW s \in Streams, Teardown(s) PROVE TypeOK'
  <2>1. hasService' \in [Streams -> BOOLEAN] /\ wire' \in [Streams -> Seq(Ciphers)]
    BY <1>9 DEF Teardown, TypeOK
  <2> QED BY <1>0, <1>9, <2>1 DEF Teardown, TypeOK, pairVars, fpVars, keyVars, history
<1>10. ASSUME NEW s \in Streams, BeginDecrypt(s) PROVE TypeOK'
  <2>1. wire[s] \in Seq(Ciphers) /\ wire[s] # <<>>
    BY <1>10 DEF BeginDecrypt, TypeOK
  <2>2. Head(wire[s]) \in Ciphers /\ Tail(wire[s]) \in Seq(Ciphers)
    BY <2>1, HeadTailProperties
  <2>3. decrypting' \in [Streams -> Ciphers] /\ wire' \in [Streams -> Seq(Ciphers)]
    BY <1>10, <2>2 DEF BeginDecrypt, TypeOK
  <2> QED BY <1>0, <1>10, <2>3 DEF BeginDecrypt, TypeOK, pairVars, fpVars, keyVars, history
<1>11. CASE EmitFrame
  <2>1. Append(wire["video"], senderCtr) \in Seq(Ciphers)
    BY AppendProperties DEF TypeOK, Streams
  <2>2. senderCtr' \in Ciphers
    <3>1. senderCtr' = [senderCtr EXCEPT !.pos = @ + 1]
      BY <1>11 DEF EmitFrame
    <3> QED BY <3>1, NextInStream DEF TypeOK
  <2>3. wire' \in [Streams -> Seq(Ciphers)]
    BY <1>11, <2>1 DEF EmitFrame, TypeOK
  <2> QED BY <1>0, <1>11, <2>2, <2>3 DEF EmitFrame, TypeOK, pairVars, fpVars, keyVars, history
<1>12. CASE EmitPacket
  <2>1. PacketCipher(agreed, setups) \in Ciphers
    BY <1>0, PacketCipherType DEF TypeOK
  <2>2. Append(wire["audio"], PacketCipher(agreed, setups)) \in Seq(Ciphers)
    BY <2>1, AppendProperties DEF TypeOK, Streams
  <2>3. wire' \in [Streams -> Seq(Ciphers)]
    BY <1>12, <2>2 DEF EmitPacket, TypeOK
  <2> QED BY <1>0, <1>12, <2>3 DEF EmitPacket, TypeOK, pairVars, fpVars, keyVars, history
<1>13. CASE LosePacket
  <2>1. wire["audio"] \in Seq(Ciphers) /\ wire["audio"] # <<>>
    BY <1>13 DEF LosePacket, TypeOK, Streams
  <2>2. Tail(wire["audio"]) \in Seq(Ciphers)
    BY <2>1, HeadTailProperties
  <2>3. wire' \in [Streams -> Seq(Ciphers)]
    BY <1>13, <2>2 DEF LosePacket, TypeOK
  <2> QED BY <1>0, <1>13, <2>3 DEF LosePacket, TypeOK, pairVars, fpVars, keyVars, history
<1>14. CASE DecryptVideoFrame
  <2>1. Nothing \in Ciphers
    BY DEF Nothing, Ciphers, NoSetup
  <2>2. decrypting' \in [Streams -> Ciphers] /\ garbled' \in BOOLEAN
    BY <1>14, <2>1 DEF DecryptVideoFrame, XcryptBuffer, TypeOK
  <2>3. videoCtr' \in Ciphers
    <3>1. videoCtr' = [videoCtr EXCEPT !.pos = @ + 1]
      BY <1>14 DEF DecryptVideoFrame, XcryptBuffer
    <3> QED BY <3>1, NextInStream DEF TypeOK
  <2> QED BY <1>0, <1>14, <2>2, <2>3 DEF DecryptVideoFrame, XcryptBuffer, TypeOK, pairVars, fpVars, keyVars
<1>15. CASE DecryptAudioData
  <2>1. Nothing \in Ciphers
    BY DEF Nothing, Ciphers, NoSetup
  <2>2. decrypting' \in [Streams -> Ciphers] /\ garbled' \in BOOLEAN
    BY <1>15, <2>1 DEF DecryptAudioData, TypeOK
  <2> QED BY <1>0, <1>15, <2>2 DEF DecryptAudioData, TypeOK, pairVars, fpVars, keyVars
<1>16. CASE Timing
  BY <1>0, <1>16 DEF Timing, TypeOK, pairVars, fpVars, keyVars, streamVars, history
<1>17. CASE UNCHANGED vars
  BY <1>0, <1>17 DEF vars, TypeOK, pairVars, fpVars, keyVars, streamVars, history
<1> QED BY <1>1, <1>2, <1>3, <1>4, <1>5, <1>6, <1>7, <1>8, <1>9, <1>10, <1>11, <1>12, <1>13,
  <1>14, <1>15, <1>16, <1>17 DEF Next, ControlThread, StreamThreads

(* The invariant holds initially. *)
LEMMA InvInit == Init => Inv
<1> SUFFICES ASSUME Init PROVE Inv
  OBVIOUS
<1>1. TypeOK
  BY TypeInit
<1>2. EndpointAgrees /\ ReplyAwaitsItsHandler
  BY DEF Init, TimingInit, EndpointAgrees, ReplyAwaitsItsHandler, Queries
<1>3. PairingAgrees /\ SessionAgrees
  BY DEF Init, PairingAgrees, SessionAgrees
<1>4. ThreadHasService /\ VideoAgrees /\ AudioAgrees
  BY DEF Init, ThreadHasService, VideoAgrees, AudioAgrees, Busy, Streams
<1>5. StreamsAreClear /\ CiphersAreNotShared
  BY DEF Init, StreamsAreClear, CiphersAreNotShared
<1> QED BY <1>1, <1>2, <1>3, <1>4, <1>5 DEF Inv

(* Every step preserves it. *)
LEMMA InvInductive == Inv /\ [Next]_vars => Inv'
<1> SUFFICES ASSUME Inv, [Next]_vars PROVE Inv'
  OBVIOUS
<1>1. TimingTypeOK
  BY DEF Inv, TypeOK
<1> QED BY <1>1, TypeInductive, EndpointInductive, ReplyInductive, PairingInductive,
  ThreadInductive, SessionInductive, VideoInductive, AudioInductive, ClearInductive DEF Inv

(* The invariant holds throughout. *)
LEMMA InvHolds == Spec => []Inv
BY InvInit, InvInductive, PTL DEF Spec

(* No operation of the control thread, of a stream's thread or of the timing
   service leaves the types of the state. *)
THEOREM TypeCorrect == Spec => []TypeOK
<1>1. Inv => TypeOK
  BY DEF Inv
<1> QED BY <1>1, InvHolds, PTL

(* However many pairings, handshakes, streams and teardowns there are, whatever
   is lost and however the threads interleave: until a SETUP replaces a key in
   use, decrypt_video_frame and decrypt_audio_data give what was encrypted. *)
THEOREM StreamsStayClear == Spec => []StreamsAreClear
<1>1. Inv => StreamsAreClear
  BY DEF Inv
<1> QED BY <1>1, InvHolds, PTL

(* Nor does the control thread change a cipher that a stream's thread is in. *)
THEOREM CiphersStayUnshared == Spec => []CiphersAreNotShared
<1>1. Inv => CiphersAreNotShared
  BY DEF Inv
<1> QED BY <1>1, InvHolds, PTL

(* pair-verify never refuses a sender whose cipher stands where its own does. *)
THEOREM PairVerifyAlwaysSucceeds == Spec => []PairVerifySucceeds
<1>1. Inv => PairVerifySucceeds
  BY DEF Inv, PairingAgrees, PairVerifySucceeds
<1> QED BY <1>1, InvHolds, PTL

(* The queries of RECORD go to the port of the last SETUP for any number of
   ports, queries and replies, unless a SETUP crosses with them. *)
THEOREM QueriesAlwaysReachTheSender == Spec => []QueriesReachTheSender
<1>1. Inv => QueriesReachTheSender
  BY DEF Inv, EndpointAgrees, QueriesReachTheSender
<1> QED BY <1>1, InvHolds, PTL

(* A reply packet that on_recv_from is through with is in the host's order. *)
THEOREM RepliesStayReadable == Spec => []RepliesAreReadable
<1>1. Inv => RepliesAreReadable
  BY DEF Inv, TypeOK, TimingTypeOK, ReplyAwaitsItsHandler, RepliesAreReadable
<1> QED BY <1>1, InvHolds, PTL
=============================================================================
