----------------------- MODULE ServerLifecycleProofs ------------------------
(***************************************************************************)
(* Theorems about ServerLifecycle for every value of its constants.        *)
(*                                                                         *)
(* The invariant follows the call of the application: it says, for every   *)
(* step of start() and stop(), what is registered and what runs there.     *)
(* None of the properties is inductive without it: that nothing is         *)
(* registered when the service goes depends on the steps before.           *)
(***************************************************************************)
EXTENDS ServerLifecycle, TLAPS

NothingRegistered == \A t \in Types : dnsRef[t] = NoPort

(* Only the service that exists listens and has a thread. *)
ServiceInv ==
  /\ \A n \in listening : n = service
  /\ service = NoPort => thread = "none"

(* Registrations are of a service that listens, and only made when the
   configuration wants them. *)
RegistrationInv ==
  /\ RefsAreRegistrations
  /\ \A t \in Types : dnsRef[t] # NoPort => dnsRef[t] = service /\ service \in listening
  /\ ~publishes => NothingRegistered

(* What holds at each step of a call. *)
CallInv ==
  /\ at \in {"media", "airplay", "raop"} => service \in listening
  /\ at \in {"media", "airplay", "stop context", "join", "drop", "delete", "deleted"} =>
       NothingRegistered
  /\ at \in {"airplay", "raop", "unpublish"} => publishes
  /\ at \in {"raop", "unpublish"} => dnsRef["raop"] = NoPort
  /\ at = "suppress raop" => dnsRef["airplay"] = NoPort
  /\ at \in {"unpublish", "stop context", "join", "drop"} => service # NoPort
  /\ at = "drop" => thread = "none"
  /\ at \in {"delete", "deleted"} => service = NoPort
  /\ at \in {"suppress airplay", "suppress raop"} /\ told = "deleting" => service = NoPort

(* A connection belongs to the service or to the application. *)
SessionInv ==
  \A s \in Sessions :
    /\ session[s] = "none" => reported[s] = "nothing"
    /\ session[s] = "gone" => reported[s] # "begin"
    /\ session[s] \in {"open", "left"} => service # NoPort
    /\ session[s] \in {"left", "orphan"} => s \in held
    /\ s \in held => session[s] \in {"open", "left", "orphan"}

(* What start() has set up when it gets to its next step, and when it returns,
   unless it throws: no later step of the service or of a sender undoes it. *)
StartInv ==
  /\ ~threw =>
       /\ at \in {"airplay", "raop"} => root = service /\ media = service
       /\ at = "raop" => dnsRef["airplay"] = service
       /\ at = "out" /\ service # NoPort =>
            /\ service \in listening /\ root = service /\ media = service
            /\ publishes => \A t \in Types : dnsRef[t] = service
  /\ at = "out" /\ told = "true" => service # NoPort
  /\ at \in {"suppress airplay", "suppress raop", "unpublish", "stop context", "join", "drop"}
       => told # "true"

Inv ==
  /\ TypeOK
  /\ ServiceInv
  /\ RegistrationInv
  /\ CallInv
  /\ SessionInv
  /\ StartInv

-----------------------------------------------------------------------------
(* The types of the variables, by group. *)
CallTypes ==
  /\ at \in Calls \cup {"out", "deleted"}
  /\ told \in {"stopped", "true", "false", "thrown", "deleting"}
  /\ threw \in BOOLEAN
  /\ starts \in 0..MaxStarts
  /\ publishes \in BOOLEAN

ServiceTypes ==
  /\ service \in Ports \cup {NoPort}
  /\ listening \subseteq Ports
  /\ accepting \in BOOLEAN
  /\ thread \in {"none", "idle", "busy"}
  /\ media \in Ports \cup {NoPort}
  /\ root \in Ports \cup {NoPort}

DnsTypes ==
  /\ dnsRef \in [Types -> Ports \cup {NoPort}]
  /\ advertised \subseteq Types \X Ports

SessionTypes ==
  /\ session \in [Sessions -> {"none", "open", "left", "orphan", "gone"}]
  /\ held \subseteq Sessions
  /\ reported \in [Sessions -> {"nothing", "begin", "end"}]

(* TypeOK is the conjunction of the groups, in this state and in the next. *)
LEMMA TypeGroups ==
  /\ TypeOK <=> CallTypes /\ ServiceTypes /\ DnsTypes /\ SessionTypes
  /\ TypeOK' <=> CallTypes' /\ ServiceTypes' /\ DnsTypes' /\ SessionTypes'
BY DEF TypeOK, CallTypes, ServiceTypes, DnsTypes, SessionTypes

(* No port is NoPort. *)
LEMMA PortIsNotNone == NoPort \notin Ports
BY ConstantsAssumption DEF NoPort, Ports

(* The invariant holds initially. *)
LEMMA InvInit == Init => Inv
<1> SUFFICES ASSUME Init PROVE Inv
  OBVIOUS
<1>1. TypeOK
  <2>1. starts \in 0..MaxStarts
    BY ConstantsAssumption DEF Init
  <2>2. CallTypes
    BY <2>1 DEF Init, CallTypes
  <2>3. ServiceTypes
    BY DEF Init, ServiceTypes
  <2>4. DnsTypes /\ SessionTypes
    BY DEF Init, DnsTypes, SessionTypes
  <2> QED BY <2>2, <2>3, <2>4, TypeGroups
<1>2. ServiceInv /\ CallInv /\ SessionInv /\ StartInv
  BY DEF Init, ServiceInv, CallInv, SessionInv, StartInv
<1>3. RegistrationInv
  BY DEF Init, RegistrationInv, RefsAreRegistrations, NothingRegistered
<1> QED BY <1>1, <1>2, <1>3 DEF Inv

(* Every step keeps the types of the call's variables. *)
LEMMA CallTypesInductive == ASSUME CallTypes, [Next]_vars PROVE CallTypes'
<1> USE ConstantsAssumption DEF CallTypes, Calls
<1>1. CASE UNCHANGED callVars
  BY <1>1 DEF callVars
<1>2. CASE StartAgain \/ StartMedia \/ PublishAirplay \/ PublishRaop
  BY <1>2 DEF StartAgain, StartMedia, Throw, PublishAirplay, PublishRaop
<1>3. CASE StartService
  <2>1. starts' \in 0..MaxStarts
    BY <1>3 DEF StartService
  <2>2. /\ at' \in {at, "media", "out"}
        /\ told' \in {told, "thrown"}
        /\ threw' \in {threw, TRUE}
        /\ publishes' = publishes
    BY <1>3 DEF StartService, Throw
  <2> QED BY <2>1, <2>2
<1>4. CASE Stop \/ Unpublish \/ SuppressAirplay \/ SuppressRaop \/ StopContext
  BY <1>4 DEF Stop, TakeDown, Unpublish, SuppressAirplay, SuppressRaop, StopContext
<1>5. CASE Join \/ DropService \/ Delete \/ Deleted \/ SetPublishService
  BY <1>5 DEF Join, DropService, Delete, Deleted, SetPublishService
<1>6. CASE \E s \in Sessions : Accept(s) \/ BeginSession(s) \/ Leave(s) \/ Release(s)
  BY <1>1, <1>6 DEF Accept, BeginSession, Leave, Release
<1>7. CASE AcceptFails \/ CallbackReturns
  BY <1>1, <1>7 DEF AcceptFails, CallbackReturns
<1> QED
  BY <1>1, <1>2, <1>3, <1>4, <1>5, <1>6, <1>7 DEF Next, Call, vars

(* Every step keeps the types of the services. *)
LEMMA ServiceTypesInductive ==
  ASSUME CallTypes, ServiceTypes, [Next]_vars PROVE ServiceTypes'
<1> USE DEF ServiceTypes
<1>1. CASE UNCHANGED <<serviceVars, mediaVars>>
  BY <1>1 DEF serviceVars, mediaVars
<1>2. CASE StartService
  <2>1. starts' \in Ports
    BY <1>2, ConstantsAssumption DEF StartService, CallTypes, Ports
  <2> QED BY <1>2, <2>1 DEF StartService, Throw, mediaVars
<1>3. CASE StartMedia \/ Join \/ DropService \/ Deleted
  BY <1>3 DEF StartMedia, Throw, Join, DropService, Deleted, serviceVars, mediaVars
<1>4. CASE StartAgain \/ PublishAirplay \/ PublishRaop \/ Stop \/ Unpublish
  BY <1>1, <1>4 DEF StartAgain, PublishAirplay, PublishRaop, Stop, Unpublish
<1>5. CASE SuppressAirplay \/ SuppressRaop \/ StopContext \/ Delete \/ SetPublishService
  BY <1>1, <1>5 DEF SuppressAirplay, SuppressRaop, StopContext, Delete, SetPublishService
<1>6. CASE \E s \in Sessions : Accept(s) \/ BeginSession(s) \/ Leave(s) \/ Release(s)
  BY <1>6 DEF Accept, BeginSession, Leave, Release, serviceVars, mediaVars
<1>7. CASE AcceptFails \/ CallbackReturns
  BY <1>7 DEF AcceptFails, CallbackReturns, mediaVars
<1> QED
  BY <1>1, <1>2, <1>3, <1>4, <1>5, <1>6, <1>7 DEF Next, Call, vars

(* What a call of publish, which names a port, does to the daemon. *)
LEMMA DnsTypesInductive ==
  ASSUME ServiceTypes, DnsTypes, CallInv, ServiceInv, [Next]_vars PROVE DnsTypes'
<1> USE DEF DnsTypes
<1>1. CASE UNCHANGED dnsVars
  BY <1>1 DEF dnsVars
<1>2. ASSUME NEW t \in Types, Register(t), service \in listening
      PROVE  DnsTypes'
  <2>1. service \in Ports
    BY <1>2 DEF ServiceTypes
  <2>2. dnsRef' \in [Types -> Ports \cup {NoPort}]
    BY <1>2, <2>1 DEF Register
  <2>3. advertised' \subseteq Types \X Ports
    BY <1>2, <2>1 DEF Register
  <2> QED BY <2>2, <2>3
<1>3. ASSUME NEW t \in Types, Suppress(t) PROVE DnsTypes'
  BY <1>3 DEF Suppress
<1>4. CASE PublishAirplay \/ PublishRaop
  BY <1>1, <1>2, <1>4 DEF PublishAirplay, PublishRaop, CallInv, Types
<1>5. CASE Unpublish \/ SuppressAirplay \/ SuppressRaop
  BY <1>3, <1>5 DEF Unpublish, SuppressAirplay, SuppressRaop, Types
<1>6. CASE StartAgain \/ StartService \/ StartMedia \/ Stop \/ StopContext
  BY <1>1, <1>6 DEF StartAgain, StartService, StartMedia, Stop, StopContext
<1>7. CASE Join \/ DropService \/ Delete \/ Deleted \/ SetPublishService
  BY <1>1, <1>7 DEF Join, DropService, Delete, Deleted, SetPublishService
<1>8. CASE \E s \in Sessions : Accept(s) \/ BeginSession(s) \/ Leave(s) \/ Release(s)
  BY <1>1, <1>8 DEF Accept, BeginSession, Leave, Release
<1>9. CASE AcceptFails \/ CallbackReturns
  BY <1>1, <1>9 DEF AcceptFails, CallbackReturns
<1> QED
  BY <1>1, <1>4, <1>5, <1>6, <1>7, <1>8, <1>9 DEF Next, Call, vars

(* Every step keeps the types of the sessions. *)
LEMMA SessionTypesInductive == ASSUME SessionTypes, [Next]_vars PROVE SessionTypes'
<1> USE DEF SessionTypes
<1>1. CASE UNCHANGED sessionVars
  BY <1>1 DEF sessionVars
<1>2. CASE StartAgain \/ StartService \/ StartMedia \/ PublishAirplay \/ PublishRaop
  BY <1>1, <1>2 DEF StartAgain, StartService, StartMedia, PublishAirplay, PublishRaop
<1>3. CASE Stop \/ Unpublish \/ SuppressAirplay \/ SuppressRaop \/ StopContext
  BY <1>1, <1>3 DEF Stop, Unpublish, SuppressAirplay, SuppressRaop, StopContext
<1>4. CASE Join \/ Delete \/ Deleted \/ SetPublishService
  BY <1>1, <1>4 DEF Join, Delete, Deleted, SetPublishService
<1>5. CASE DropService
  BY <1>5 DEF DropService, EndOf
<1>6. ASSUME NEW s \in Sessions, Accept(s) \/ BeginSession(s)
      PROVE  SessionTypes'
  BY <1>6 DEF Accept, BeginSession
<1>7. ASSUME NEW s \in Sessions, Destroy(s), held' \subseteq held
      PROVE  SessionTypes'
  BY <1>7 DEF Destroy, EndOf
<1>8. ASSUME NEW s \in Sessions, Leave(s) \/ Release(s)
      PROVE  SessionTypes'
  BY <1>7, <1>8 DEF Leave, Release
<1>9. CASE AcceptFails \/ CallbackReturns
  BY <1>1, <1>9 DEF AcceptFails, CallbackReturns
<1> QED
  BY <1>1, <1>2, <1>3, <1>4, <1>5, <1>6, <1>8, <1>9 DEF Next, Call, vars

(* Every step keeps the types. *)
LEMMA TypeInductive ==
  ASSUME TypeOK, ServiceInv, CallInv, [Next]_vars PROVE TypeOK'
BY TypeGroups, CallTypesInductive, ServiceTypesInductive, DnsTypesInductive,
   SessionTypesInductive

-----------------------------------------------------------------------------
(* Every step keeps what holds of the AirPlay service: nobody listens on the
   port of another one, since only a server without service starts one. *)
LEMMA ServiceInductive ==
  ASSUME TypeOK, ServiceInv, CallInv, [Next]_vars PROVE ServiceInv'
<1> USE DEF ServiceInv
<1>1. CASE UNCHANGED serviceVars
  BY <1>1 DEF serviceVars
<1>2. CASE StartService
  <2>1. listening = {} /\ thread = "none"
    BY <1>2, PortIsNotNone DEF StartService, TypeOK
  <2>2. starts' # NoPort
    BY <1>2, ConstantsAssumption DEF StartService, TypeOK, NoPort
  <2> QED BY <1>2, <2>1, <2>2 DEF StartService, Throw
<1>3. CASE Join \/ DropService
  BY <1>3 DEF Join, DropService, CallInv
<1>4. CASE StartAgain \/ StartMedia \/ PublishAirplay \/ PublishRaop \/ Unpublish
  BY <1>1, <1>4 DEF StartAgain, StartMedia, PublishAirplay, PublishRaop, Unpublish
<1>5. CASE Stop \/ SuppressAirplay \/ SuppressRaop \/ StopContext
  BY <1>1, <1>5 DEF Stop, SuppressAirplay, SuppressRaop, StopContext
<1>6. CASE Delete \/ Deleted \/ SetPublishService
  BY <1>1, <1>6 DEF Delete, Deleted, SetPublishService
<1>7. CASE \E s \in Sessions : Accept(s) \/ BeginSession(s) \/ Leave(s) \/ Release(s)
  BY <1>1, <1>7 DEF Accept, BeginSession, Leave, Release, Serving
<1>8. CASE AcceptFails \/ CallbackReturns
  BY <1>8 DEF AcceptFails, CallbackReturns
<1> QED
  BY <1>1, <1>2, <1>3, <1>4, <1>5, <1>6, <1>7, <1>8 DEF Next, Call, vars

(* The step of StartService happens when nothing listens, nothing is
   registered and no thread runs. *)
LEMMA NothingListens ==
  ASSUME TypeOK, ServiceInv, RegistrationInv, service = NoPort
  PROVE  listening = {} /\ NothingRegistered /\ advertised = {}
<1>1. listening = {}
  BY PortIsNotNone DEF TypeOK, ServiceInv
<1>2. NothingRegistered
  BY <1>1 DEF RegistrationInv, NothingRegistered
<1>3. advertised = {}
  BY <1>2 DEF RegistrationInv, RefsAreRegistrations, NothingRegistered
<1> QED BY <1>1, <1>2, <1>3

(* publish adds one registration with its reference. *)
LEMMA RegisterKeeps ==
  ASSUME TypeOK, RegistrationInv, NEW t \in Types, dnsRef[t] = NoPort,
         service \in listening, Register(t)
  PROVE  RefsAreRegistrations'
<1>1. service # NoPort
  BY PortIsNotNone DEF TypeOK
<1>2. dnsRef'[t] = service /\ \A u \in Types \ {t} : dnsRef'[u] = dnsRef[u]
  BY DEF Register, TypeOK
<1>3. advertised' = advertised \cup {<<t, service>>}
  BY DEF Register
<1>4. advertised = {<<u, dnsRef[u]>> : u \in {x \in Types : dnsRef[x] # NoPort}}
  BY DEF RegistrationInv, RefsAreRegistrations
<1>5. {<<u, dnsRef'[u]>> : u \in {x \in Types : dnsRef'[x] # NoPort}} =
        {<<u, dnsRef[u]>> : u \in {x \in Types : dnsRef[x] # NoPort}} \cup {<<t, service>>}
  BY <1>1, <1>2
<1> QED BY <1>3, <1>4, <1>5 DEF RefsAreRegistrations

(* suppress removes one, if there is one. *)
LEMMA SuppressKeeps ==
  ASSUME TypeOK, RegistrationInv, NEW t \in Types, Suppress(t)
  PROVE  RefsAreRegistrations'
<1>1. dnsRef'[t] = NoPort /\ \A u \in Types \ {t} : dnsRef'[u] = dnsRef[u]
  BY DEF Suppress, TypeOK
<1>2. advertised' = advertised \ {<<t, dnsRef[t]>>}
  BY DEF Suppress
<1>3. advertised = {<<u, dnsRef[u]>> : u \in {x \in Types : dnsRef[x] # NoPort}}
  BY DEF RegistrationInv, RefsAreRegistrations
<1>4. {<<u, dnsRef'[u]>> : u \in {x \in Types : dnsRef'[x] # NoPort}} =
        {<<u, dnsRef[u]>> : u \in {x \in Types : dnsRef[x] # NoPort}} \ {<<t, dnsRef[t]>>}
  BY <1>1
<1> QED BY <1>2, <1>3, <1>4 DEF RefsAreRegistrations

(* Every step keeps the registrations and their references in agreement. *)
LEMMA RegistrationInductive ==
  ASSUME TypeOK, ServiceInv, RegistrationInv, CallInv, [Next]_vars
  PROVE  RegistrationInv'
<1>1. ASSUME UNCHANGED dnsVars, UNCHANGED <<service, listening, publishes>>
      PROVE  RegistrationInv'
  BY <1>1 DEF dnsVars, RegistrationInv, RefsAreRegistrations, NothingRegistered
<1>2. ASSUME UNCHANGED dnsVars, NothingRegistered
      PROVE  RegistrationInv'
  BY <1>2 DEF dnsVars, RegistrationInv, RefsAreRegistrations, NothingRegistered
<1>3. ASSUME NEW t \in Types, Register(t), dnsRef[t] = NoPort, service \in listening,
             publishes, UNCHANGED <<service, listening, publishes>>
      PROVE  RegistrationInv'
  <2>1. RefsAreRegistrations'
    BY <1>3, RegisterKeeps
  <2>2. \A u \in Types : dnsRef'[u] = service \/ dnsRef'[u] = dnsRef[u]
    BY <1>3 DEF Register, TypeOK
  <2> QED BY <1>3, <2>1, <2>2 DEF RegistrationInv
<1>4. ASSUME NEW t \in Types, Suppress(t), UNCHANGED <<service, listening, publishes>>
      PROVE  RegistrationInv'
  <2>1. RefsAreRegistrations'
    BY <1>4, SuppressKeeps
  <2>2. \A u \in Types : dnsRef'[u] = NoPort \/ dnsRef'[u] = dnsRef[u]
    BY <1>4 DEF Suppress, TypeOK
  <2> QED BY <1>4, <2>1, <2>2 DEF RegistrationInv, NothingRegistered
<1>5. CASE StartService \/ SetPublishService
  BY <1>2, <1>5, NothingListens DEF StartService, SetPublishService
<1>6. CASE DropService
  BY <1>2, <1>6 DEF DropService, CallInv
<1>7. CASE PublishAirplay
  BY <1>1, <1>3, <1>7
  DEF PublishAirplay, CallInv, NothingRegistered, Types, callVars, serviceVars
<1>8. CASE PublishRaop
  BY <1>1, <1>3, <1>8 DEF PublishRaop, CallInv, Types, serviceVars
<1>9. CASE Unpublish \/ SuppressAirplay \/ SuppressRaop
  BY <1>4, <1>9 DEF Unpublish, SuppressAirplay, SuppressRaop, Types, serviceVars
<1>10. CASE StartAgain \/ StartMedia \/ Stop \/ StopContext
  BY <1>1, <1>10 DEF StartAgain, StartMedia, Stop, StopContext, serviceVars
<1>11. CASE Join \/ Delete \/ Deleted
  BY <1>1, <1>11 DEF Join, Delete, Deleted, serviceVars
<1>12. CASE \E s \in Sessions : Accept(s) \/ BeginSession(s) \/ Leave(s) \/ Release(s)
  BY <1>1, <1>12 DEF Accept, BeginSession, Leave, Release, serviceVars, callVars
<1>13. CASE AcceptFails \/ CallbackReturns
  BY <1>1, <1>13 DEF AcceptFails, CallbackReturns, callVars
<1>14. CASE UNCHANGED vars
  BY <1>1, <1>14 DEF vars, callVars, serviceVars
<1> QED
  BY <1>5, <1>6, <1>7, <1>8, <1>9, <1>10, <1>11, <1>12, <1>13, <1>14 DEF Next, Call

(* Every step leads the call to where the next one expects to be. *)
LEMMA CallInductive ==
  ASSUME TypeOK, ServiceInv, RegistrationInv, CallInv, [Next]_vars
  PROVE  CallInv'
<1>1. ASSUME UNCHANGED dnsVars PROVE NothingRegistered' = NothingRegistered
  BY <1>1 DEF dnsVars, NothingRegistered
<1>2. CASE at' = "out"
  BY <1>2 DEF CallInv
<1>3. CASE StartService
  BY <1>1, <1>2, <1>3, NothingListens DEF StartService, Throw, CallInv
<1>4. CASE StartMedia
  BY <1>1, <1>2, <1>4 DEF StartMedia, Throw, CallInv, serviceVars
<1>5. CASE PublishAirplay
  <2>1. service # NoPort /\ service \in listening /\ publishes /\ NothingRegistered
    BY <1>5, PortIsNotNone DEF PublishAirplay, CallInv, TypeOK
  <2>2. CASE Register("airplay") /\ at' = "raop"
    <3>1. dnsRef'["raop"] = NoPort
      BY <2>1, <2>2 DEF Register, TypeOK, Types, NothingRegistered
    <3> QED BY <1>5, <2>1, <2>2, <3>1 DEF PublishAirplay, CallInv, serviceVars
  <2>3. CASE UNCHANGED dnsVars /\ at' = "stop context"
    BY <1>1, <1>5, <2>1, <2>3 DEF PublishAirplay, CallInv, serviceVars
  <2> QED BY <1>5, <2>2, <2>3 DEF PublishAirplay
<1>6. CASE PublishRaop
  <2>1. service # NoPort /\ publishes /\ dnsRef["raop"] = NoPort
    BY <1>6, PortIsNotNone DEF PublishRaop, CallInv, TypeOK
  <2> QED BY <1>2, <1>6, <2>1 DEF PublishRaop, CallInv, serviceVars, dnsVars
<1>7. CASE Unpublish
  <2>1. NothingRegistered'
    BY <1>7 DEF Unpublish, Suppress, CallInv, NothingRegistered, TypeOK, Types
  <2> QED BY <1>7, <2>1 DEF Unpublish, CallInv, serviceVars
<1>8. CASE Stop \/ Delete
  BY <1>1, <1>2, <1>8 DEF Stop, Delete, TakeDown, CallInv, RegistrationInv, serviceVars
<1>9. CASE SuppressAirplay
  <2>1. dnsRef'["airplay"] = NoPort
    BY <1>9 DEF SuppressAirplay, Suppress, TypeOK, Types
  <2> QED BY <1>9, <2>1 DEF SuppressAirplay, CallInv, serviceVars
<1>10. CASE SuppressRaop
  <2>1. NothingRegistered'
    BY <1>10 DEF SuppressRaop, Suppress, CallInv, NothingRegistered, TypeOK, Types
  <2> QED BY <1>2, <1>10, <2>1 DEF SuppressRaop, TakeDown, CallInv, serviceVars
<1>11. CASE StopContext \/ Join \/ Deleted
  BY <1>1, <1>11 DEF StopContext, Join, Deleted, CallInv, serviceVars
<1>12. CASE StartAgain \/ DropService \/ SetPublishService
  BY <1>2, <1>12 DEF StartAgain, DropService, SetPublishService
<1>13. ASSUME UNCHANGED <<callVars, service, listening, dnsVars>>, at = "drop" => thread' = "none"
       PROVE  CallInv'
  BY <1>1, <1>13 DEF CallInv, callVars, dnsVars
<1>14. CASE \E s \in Sessions : Accept(s) \/ BeginSession(s) \/ Leave(s) \/ Release(s)
  BY <1>13, <1>14 DEF Accept, BeginSession, Leave, Release, Serving, CallInv, serviceVars
<1>15. CASE AcceptFails \/ CallbackReturns
  BY <1>13, <1>15 DEF AcceptFails, CallbackReturns, CallInv
<1>16. CASE UNCHANGED vars
  BY <1>13, <1>16 DEF vars, CallInv, serviceVars
<1> QED
  BY <1>3, <1>4, <1>5, <1>6, <1>7, <1>8, <1>9, <1>10, <1>11, <1>12, <1>14, <1>15, <1>16
  DEF Next, Call

(* Every step leaves each connection to the service or to the application. *)
LEMMA SessionInductive ==
  ASSUME TypeOK, ServiceInv, RegistrationInv, CallInv, SessionInv, [Next]_vars
  PROVE  SessionInv'
<1>1. ASSUME UNCHANGED sessionVars, service' = service \/ service = NoPort
      PROVE  SessionInv'
  BY <1>1 DEF SessionInv, sessionVars
<1>2. CASE StartAgain \/ StartService \/ StartMedia \/ PublishAirplay \/ PublishRaop
  BY <1>1, <1>2
  DEF StartAgain, StartService, StartMedia, PublishAirplay, PublishRaop, serviceVars
<1>3. CASE Stop \/ Unpublish \/ SuppressAirplay \/ SuppressRaop \/ StopContext
  BY <1>1, <1>3
  DEF Stop, Unpublish, SuppressAirplay, SuppressRaop, StopContext, serviceVars
<1>4. CASE Join \/ Delete \/ Deleted \/ SetPublishService
  BY <1>1, <1>4 DEF Join, Delete, Deleted, SetPublishService, serviceVars
<1>5. CASE DropService
  BY <1>5 DEF DropService, EndOf, SessionInv, TypeOK
<1>6. ASSUME NEW s \in Sessions, Serving, Accept(s) \/ BeginSession(s)
      PROVE  SessionInv'
  <2>1. service # NoPort
    BY <1>6, PortIsNotNone DEF Serving, TypeOK
  <2>2. CASE Accept(s)
    BY <2>1, <2>2 DEF Accept, SessionInv, TypeOK, serviceVars
  <2>3. CASE BeginSession(s)
    BY <2>1, <2>3 DEF BeginSession, SessionInv, TypeOK
  <2> QED BY <1>6, <2>2, <2>3
<1>7. ASSUME NEW s \in Sessions, Destroy(s), held' = held \ {s}, service' = service
      PROVE  SessionInv'
  BY <1>7 DEF Destroy, EndOf, SessionInv, TypeOK
<1>8. ASSUME NEW s \in Sessions, Leave(s) PROVE SessionInv'
  <2>1. CASE s \in held
    BY <1>8, <2>1 DEF Leave, SessionInv, TypeOK, serviceVars
  <2>2. CASE s \notin held
    BY <1>7, <1>8, <2>2 DEF Leave, serviceVars
  <2> QED BY <2>1, <2>2
<1>9. ASSUME NEW s \in Sessions, Release(s) PROVE SessionInv'
  <2>1. CASE session[s] = "open"
    BY <1>9, <2>1 DEF Release, SessionInv, serviceVars
  <2>2. CASE session[s] # "open"
    BY <1>7, <1>9, <2>2 DEF Release, serviceVars
  <2> QED BY <2>1, <2>2
<1>10. CASE AcceptFails \/ CallbackReturns
  BY <1>1, <1>10 DEF AcceptFails, CallbackReturns
<1>11. CASE UNCHANGED vars
  BY <1>1, <1>11 DEF vars, serviceVars
<1>12. ASSUME NEW s \in Sessions, Accept(s) \/ BeginSession(s) PROVE Serving
  BY <1>12 DEF Accept, BeginSession
<1> QED
  BY <1>2, <1>3, <1>4, <1>5, <1>6, <1>8, <1>9, <1>10, <1>11, <1>12 DEF Next, Call

(* Every step keeps what start() has set up. *)
LEMMA StartInductive ==
  ASSUME TypeOK, ServiceInv, RegistrationInv, CallInv, StartInv, [Next]_vars
  PROVE  StartInv'
<1>1. ASSUME UNCHANGED <<callVars, service, listening, mediaVars, dnsVars>>
      PROVE  StartInv'
  BY <1>1 DEF StartInv, callVars, mediaVars, dnsVars
<1>2. CASE StartAgain
  BY <1>2 DEF StartAgain, StartInv, serviceVars, mediaVars, dnsVars
<1>3. CASE StartService
  BY <1>3 DEF StartService, Throw, StartInv
<1>4. CASE StartMedia
  <2>1. service # NoPort /\ service \in listening
    BY <1>4, PortIsNotNone DEF StartMedia, CallInv, TypeOK
  <2> QED BY <1>4, <2>1 DEF StartMedia, Throw, StartInv, serviceVars, dnsVars
<1>5. CASE PublishAirplay
  <2>1. service # NoPort /\ service \in listening
    BY <1>5, PortIsNotNone DEF PublishAirplay, CallInv, TypeOK
  <2>2. Register("airplay") => dnsRef'["airplay"] = service
    BY DEF Register, TypeOK, Types
  <2> QED BY <1>5, <2>1, <2>2 DEF PublishAirplay, StartInv, serviceVars, mediaVars
<1>6. CASE PublishRaop
  <2>1. service # NoPort /\ service \in listening
    BY <1>6, PortIsNotNone DEF PublishRaop, CallInv, TypeOK
  <2>2. Register("raop") =>
          dnsRef'["raop"] = service /\ dnsRef'["airplay"] = dnsRef["airplay"]
    BY DEF Register, TypeOK, Types
  <2> QED BY <1>6, <2>1, <2>2 DEF PublishRaop, StartInv, serviceVars, mediaVars, Types
<1>7. CASE Stop \/ Delete
  BY <1>7 DEF Stop, Delete, TakeDown, StartInv, serviceVars
<1>8. CASE Unpublish \/ SuppressAirplay \/ SuppressRaop
  BY <1>8
  DEF Unpublish, SuppressAirplay, SuppressRaop, TakeDown, StartInv, serviceVars
<1>9. CASE StopContext \/ Join \/ DropService \/ Deleted
  BY <1>9 DEF StopContext, Join, DropService, Deleted, StartInv
<1>10. CASE SetPublishService
  BY <1>10 DEF SetPublishService, StartInv, serviceVars
<1>11. CASE \E s \in Sessions : Accept(s) \/ BeginSession(s) \/ Leave(s) \/ Release(s)
  BY <1>1, <1>11 DEF Accept, BeginSession, Leave, Release, serviceVars
<1>12. CASE AcceptFails \/ CallbackReturns
  BY <1>1, <1>12 DEF AcceptFails, CallbackReturns
<1>13. CASE UNCHANGED vars
  BY <1>1, <1>13 DEF vars, serviceVars
<1> QED
  BY <1>2, <1>3, <1>4, <1>5, <1>6, <1>7, <1>8, <1>9, <1>10, <1>11, <1>12, <1>13
  DEF Next, Call

-----------------------------------------------------------------------------
(* The invariant is inductive. *)
THEOREM InvHolds == Spec => []Inv
<1>1. Inv /\ [Next]_vars => Inv'
  BY TypeInductive, ServiceInductive, RegistrationInductive, CallInductive,
     SessionInductive, StartInductive DEF Inv
<1> QED BY <1>1, InvInit, PTL DEF Spec

(* The variables keep their types. *)
THEOREM TypeCorrect == Spec => []TypeOK
<1>1. Inv => TypeOK
  BY DEF Inv
<1> QED BY <1>1, InvHolds, PTL

(* publish and suppress: whatever step of start() or stop() the application is
   at, a service that the daemon advertises is listening. *)
THEOREM AdvertisedListens == Spec => []AdvertisedIsListening
<1>1. Inv => AdvertisedIsListening
  BY DEF Inv, RegistrationInv, RefsAreRegistrations, AdvertisedIsListening
<1> QED BY <1>1, InvHolds, PTL

(* suppress deallocates the reference of a registration in force, exactly once,
   and no registration is left without a reference. *)
THEOREM RefsMatch == Spec => []RefsAreRegistrations
<1>1. Inv => RefsAreRegistrations
  BY DEF Inv, RegistrationInv
<1> QED BY <1>1, InvHolds, PTL

(* start() that failed and stop(): without an AirPlay service no port, thread
   or registration is left, and no session that the application is told of
   stays open. *)
THEOREM CleanIdle == Spec => []IdleIsClean
<1>1. Inv => IdleIsClean
  <2> SUFFICES ASSUME Inv, service = NoPort PROVE IdleIsClean
    BY DEF IdleIsClean
  <2>1. listening = {} /\ advertised = {} /\ thread = "none"
    BY NothingListens DEF Inv, ServiceInv
  <2>2. \A s \in Sessions \ held :
          session[s] \in {"none", "gone"} /\ reported[s] # "begin"
    BY DEF Inv, SessionInv, TypeOK
  <2> QED BY <2>1, <2>2 DEF IdleIsClean
<1> QED BY <1>1, InvHolds, PTL

(* start() returns true only when the service listens, is advertised if the
   configuration wants it, and the URIs lead to the media service. *)
THEOREM TruthfulStart == Spec => []StartIsTruthful
<1>1. Inv => StartIsTruthful
  <2> SUFFICES ASSUME Inv, at = "out", told = "true", ~threw PROVE StartIsTruthful
    BY DEF StartIsTruthful
  <2>1. /\ service # NoPort /\ service \in listening /\ root = service /\ media = service
        /\ publishes => \A t \in Types : dnsRef[t] = service
    BY DEF Inv, StartInv
  <2>2. ASSUME publishes, NEW t \in Types PROVE <<t, service>> \in advertised
    BY <2>1, <2>2 DEF Inv, RegistrationInv, RefsAreRegistrations
  <2> QED BY <2>1, <2>2 DEF StartIsTruthful
<1> QED BY <1>1, InvHolds, PTL
=============================================================================
