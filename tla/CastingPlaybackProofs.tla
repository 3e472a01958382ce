------------------------ MODULE CastingPlaybackProofs ------------------------
(***************************************************************************)
(* Theorems about CastingPlayback, for any number of senders, playbacks,   *)
(* reversed connections and playlists and either way of writing URIs:      *)
(* where requests go, what is fetched and played, and that the application *)
(* sees what CastingPlayer promises.                                       *)
(*                                                                         *)
(* The store fetches a playback from its primary playlist through the last *)
(* one listed down to the first.  The invariant says that where it has got *)
(* to is told by the one request on its way: what is stored are the        *)
(* playlists after it, what is on the stack are those before it.           *)
(***************************************************************************)
EXTENDS CastingPlayback, SequenceTheorems, TLAPS

-----------------------------------------------------------------------------
(* Types. *)

Schemes == {"", "mlhls", "nfhls", "http", "https"}
Hosts   == {"", "localhost", "cdn", StoreHost}

Uris     == [scheme : Schemes, host : Hosts, path : Nat]
Places   == [play : Nat, uri : Uris]
Requests == [sender : Senders, event : Nat, play : Nat, uri : Uris]

Types ==
  /\ session \in [Senders -> {"none", "begun", "ended"}]
  /\ latest \in [Senders -> Nat]
  /\ reverses \in [Senders -> Nat]
  /\ alive \in [Senders -> SUBSET Nat]
  /\ manager \in [Senders -> Nat]
  /\ requests \subseteq Requests
  /\ spoiled \in BOOLEAN
  /\ plays \in Nat
  /\ primary \in Places
  /\ stack \in Seq(Places)
  /\ playing \in [Senders -> Places]

(* A URI of a scheme, a host and a path is one. *)
LEMMA UriType ==
  ASSUME NEW scheme \in Schemes, NEW host \in Hosts, NEW p \in Nat
  PROVE  Uri(scheme, host, p) \in Uris
BY DEF Uri, Uris

LEMMA PathTypes == Primary \in Nat /\ Segment \in Nat /\ 1..NumMedia \subseteq Nat
BY ConstantsAssumption DEF Primary, Segment

(* The parts of a URI. *)
LEMMA Parts ==
  \A x, y, p : /\ Uri(x, y, p).scheme = x
              /\ Uri(x, y, p).host = y
              /\ Uri(x, y, p).path = p
BY DEF Uri

(* The location of a primary playlist: the store's, for either application. *)
LEMMA PrimaryLocation ==
  ASSUME NEW a
  PROVE  AdjustPrimaryUri(PrimaryUri(a)) = Uri("http", StoreHost, Primary)
<1>1. ASSUME NEW scheme \in {"mlhls", "nfhls"}
      PROVE  AdjustPrimaryUri(Uri(scheme, "localhost", Primary)) = Uri("http", StoreHost, Primary)
  BY Parts DEF AdjustPrimaryUri, Rescheme, Rehost
<1> QED BY <1>1 DEF PrimaryUri

(* The URIs of senders are URIs. *)
LEMMA UriTypes ==
  /\ Nothing \in Places
  /\ Elsewhere \subseteq Uris
  /\ \A a : /\ PrimaryUri(a) \in Uris
           /\ AdjustPrimaryUri(PrimaryUri(a)) \in Uris
           /\ \A p \in Nat : ListedUri(a, p) \in Uris
<1>1. Nowhere \in Uris /\ Uri("https", "cdn", Segment) \in Uris
  BY UriType, PathTypes DEF Nowhere, Schemes, Hosts
<1>2. Nothing \in Places
  BY <1>1 DEF Nothing, Places, NoPlay
<1>3. Elsewhere \subseteq Uris
  BY <1>1 DEF Elsewhere
<1>4. ASSUME NEW a PROVE PrimaryUri(a) \in Uris /\ AdjustPrimaryUri(PrimaryUri(a)) \in Uris
  BY UriType, PathTypes, PrimaryLocation DEF PrimaryUri, Schemes, Hosts
<1>5. ASSUME NEW a, NEW p \in Nat PROVE ListedUri(a, p) \in Uris
  BY UriType DEF ListedUri, Schemes, Hosts
<1> QED BY <1>2, <1>3, <1>4, <1>5

(* A playlist lists URIs. *)
LEMMA PlaylistTypes ==
  ASSUME NEW n \in Nat, NEW a, NEW u \in Uris
  PROVE  Playlist(n, a, u).lists \in Seq(Uris)
<1>1. [p \in 1..NumMedia |-> ListedUri(a, p)] \in Seq(Uris)
  BY UriTypes, ConstantsAssumption, IsASeq
<1>2. ASSUME NEW v \in Uris PROVE <<v>> \in Seq(Uris)
  OBVIOUS
<1>3. Uri("", "", Segment) \in Uris /\ Uri("https", "cdn", Segment) \in Uris
  BY UriType, PathTypes DEF Schemes, Hosts
<1>4. <<Uri("", "", Segment)>> \in Seq(Uris) /\ <<Uri("https", "cdn", Segment)>> \in Seq(Uris)
  BY <1>2, <1>3
<1> QED BY <1>1, <1>4 DEF Playlist

(* What is pushed are places to fetch from. *)
LEMMA PushedTypes ==
  ASSUME NEW r \in Requests, NEW list, list.lists \in Seq(Uris)
  PROVE  Pushed(r, list) \in Seq(Places)
<1> DEFINE places == [i \in DOMAIN list.lists |-> [play |-> r.play, uri |-> list.lists[i]]]
<1>1. places \in [1..Len(list.lists) -> Places]
  <2>1. list.lists \in [1..Len(list.lists) -> Uris]
    BY LenProperties
  <2> QED BY <2>1 DEF Requests, Places
<1>2. places \in Seq(Places) /\ Len(places) = Len(list.lists)
  <2>1. Len(list.lists) \in Nat
    BY LenProperties
  <2>2. DOMAIN places = 1..Len(list.lists)
    BY LenProperties
  <2> HIDE DEF places
  <2> QED BY <1>1, <2>1, <2>2, IsASeq, LenProperties
<1>3. Reverse(places) \in [1..Len(places) -> Places]
  BY <1>1, <1>2, LenProperties DEF Reverse
<1>4. Reverse(places) \in Seq(Places)
  BY <1>2, <1>3, IsASeq
<1> QED BY <1>4 DEF Pushed

(* A request that is sent asks one of the senders, on one of its connections. *)
LEMMA FcupTypes ==
  ASSUME Types, NEW c, NEW wanted \in Places
  PROVE  FcupRequest(c, wanted) \subseteq Requests
BY DEF Types, FcupRequest, Reachable, Requests, Places

(* What follows the storing of an answer, whatever is left to fetch. *)
LEMMA GoOnTypes ==
  ASSUME Types, NEW r \in requests, NEW toFetch \in Seq(Places), GoOn(r, toFetch),
         UNCHANGED <<session, latest, reverses, alive, manager, plays>>, spoiled' \in BOOLEAN
  PROVE  Types'
<1>1. CASE toFetch = <<>>
  <2>1. /\ playing' = playing \/ playing' = [playing EXCEPT ![r.sender] = primary]
        /\ requests' = requests \ {r}
        /\ UNCHANGED <<stack, primary>>
    BY <1>1 DEF GoOn
  <2> QED BY <2>1 DEF Types
<1>2. CASE toFetch # <<>>
  <2>1. /\ requests' = (requests \ {r}) \cup FcupRequest(owner, Head(toFetch))
        /\ stack' = Tail(toFetch)
        /\ UNCHANGED <<playing, primary>>
    BY <1>2 DEF GoOn, Popped
  <2>2. Head(toFetch) \in Places /\ Tail(toFetch) \in Seq(Places)
    BY <1>2, HeadTailProperties
  <2>3. FcupRequest(owner, Head(toFetch)) \subseteq Requests
    BY <2>2, FcupTypes
  <2> QED BY <2>1, <2>2, <2>3 DEF Types
<1> QED BY <1>1, <1>2

(* The types are preserved by an answer. *)
LEMMA AnswerTypes ==
  ASSUME Types, NEW r \in requests, Answer(r) \/ AnswerWithEmptyData(r)
  PROVE  Types'
<1> DEFINE list    == Playlist(r.play, GetAppId(r.uri), r.uri)
           toFetch == Pushed(r, list) \o stack
<1>1. r \in Requests /\ stack \in Seq(Places)
  BY DEF Types
<1>2. toFetch \in Seq(Places)
  BY <1>1, PlaylistTypes, PushedTypes, ConcatProperties DEF Requests
<1>3. /\ UNCHANGED <<session, latest, reverses, alive, manager, plays>>
      /\ spoiled' \in BOOLEAN
  BY DEF Answer, AnswerWithEmptyData, senderVars, eventVars, Types
<1>4. CASE Answer(r)
  <2>1. GoOn(r, toFetch)
    BY <1>4 DEF Answer, ProcessMediaData
  <2> HIDE DEF toFetch
  <2> QED BY <1>2, <1>3, <2>1, GoOnTypes
<1>5. CASE AnswerWithEmptyData(r)
  <2>1. GoOn(r, stack)
    BY <1>5 DEF AnswerWithEmptyData, ProcessNoData
  <2> QED BY <1>1, <1>3, <2>1, GoOnTypes
<1> QED BY <1>4, <1>5

(* The types hold initially. *)
LEMMA TypesInit == Init => Types
<1>1. <<>> \in Seq(Places)
  BY EmptySeq
<1>2. 0 \in Nat /\ Nothing \in Places
  BY UriTypes
<1> SUFFICES ASSUME Init PROVE Types
  OBVIOUS
<1>3. /\ session \in [Senders -> {"none", "begun", "ended"}]
      /\ latest \in [Senders -> Nat]
      /\ reverses \in [Senders -> Nat]
      /\ alive \in [Senders -> SUBSET Nat]
      /\ manager \in [Senders -> Nat]
  BY DEF Init, NoPlay, NoEvent
<1>4. /\ requests \subseteq Requests /\ spoiled \in BOOLEAN /\ plays \in Nat
      /\ primary \in Places /\ stack \in Seq(Places) /\ playing \in [Senders -> Places]
  BY <1>1, <1>2 DEF Init
<1> QED BY <1>3, <1>4 DEF Types

(* Every step preserves the types. *)
LEMMA TypesInductive == Types /\ [Next]_vars => Types'
<1> SUFFICES ASSUME Types, [Next]_vars PROVE Types'
  OBVIOUS
<1>1. CASE UNCHANGED vars
  BY <1>1 DEF Types, vars, senderVars, eventVars, storeVars
<1>2. ASSUME NEW c \in Senders, ServerInfo(c) PROVE Types'
  BY <1>2 DEF Types, ServerInfo, eventVars, storeVars
<1>3. ASSUME NEW c \in Senders, EndSession(c) PROVE Types'
  BY <1>3, UriTypes DEF Types, EndSession, eventVars, storeVars, NoPlay
<1>4. ASSUME NEW c \in Senders, PostReverse(c) PROVE Types'
  BY <1>4 DEF Types, PostReverse, senderVars, storeVars
<1>5. ASSUME NEW c \in Senders, NEW e \in alive[c], DropEvent(c, e) PROVE Types'
  BY <1>5 DEF Types, DropEvent, senderVars, storeVars, NoEvent
<1>6. ASSUME NEW c \in Senders, NEW a \in Apps, Play(c, PrimaryUri(a)) PROVE Types'
  <2>1. [play |-> plays', uri |-> PrimaryUri(a)] \in Places /\ primary' \in Places
    BY <1>6, UriTypes DEF Types, Play, Ask, Places
  <2>2. FcupRequest(c, [play |-> plays', uri |-> PrimaryUri(a)]) \subseteq Requests
    BY <2>1, FcupTypes
  <2> QED BY <1>6, <2>1, <2>2, EmptySeq DEF Types, Play, Ask, eventVars
<1>7. ASSUME NEW c \in Senders, NEW uri \in Elsewhere, PlayNormal(c, uri) PROVE Types'
  <2>1. [play |-> plays', uri |-> uri] \in Places
    BY <1>7, UriTypes DEF Types, PlayNormal, Ask, Places
  <2> QED BY <1>7, <2>1, UriTypes, EmptySeq DEF Types, PlayNormal, Ask, Reset, eventVars
<1>8. ASSUME NEW c \in Senders, Stop(c) PROVE Types'
  BY <1>8, UriTypes, EmptySeq DEF Types, Stop, Reset, eventVars, NoPlay
<1>9. ASSUME NEW r \in requests, AnswerWithoutData(r) PROVE Types'
  BY <1>9 DEF Types, AnswerWithoutData, senderVars, eventVars, storeVars
<1> QED BY <1>1, <1>2, <1>3, <1>4, <1>5, <1>6, <1>7, <1>8, <1>9, AnswerTypes DEF Next

(* The types of the variables are invariants. *)
LEMMA TypesHold == Spec => []Types
BY TypesInit, TypesInductive, PTL DEF Spec

-----------------------------------------------------------------------------
(* The manager of reversed connections: it leads to the last one of a sender,
   which the sender uses, or nowhere. *)
EventsInv ==
  \A c \in Senders : /\ alive[c] \subseteq 1..reverses[c]
                     /\ manager[c] \in {NoEvent, reverses[c]}

(* It always does, whatever all the senders do. *)
LEMMA EventsHold == Spec => []EventsInv
<1>1. Init => EventsInv
  BY DEF Init, EventsInv
<1>2. Types /\ EventsInv /\ [Next]_vars => EventsInv'
  <2> SUFFICES ASSUME Types, EventsInv, [Next]_vars PROVE EventsInv'
    OBVIOUS
  <2>1. CASE UNCHANGED eventVars
    BY <2>1 DEF EventsInv, eventVars
  <2>2. ASSUME NEW c \in Senders, PostReverse(c) PROVE EventsInv'
    BY <2>2 DEF EventsInv, PostReverse, Types
  <2>3. ASSUME NEW c \in Senders, NEW e \in alive[c], DropEvent(c, e) PROVE EventsInv'
    BY <2>3 DEF EventsInv, DropEvent, Types
  <2> QED BY <2>1, <2>2, <2>3
          DEF Next, vars, ServerInfo, EndSession, Play, PlayNormal, Stop, Answer,
              AnswerWithEmptyData, AnswerWithoutData
<1> QED BY <1>1, <1>2, TypesHold, PTL DEF Spec

-----------------------------------------------------------------------------
(* What an answer does to the session and to the playback in progress. *)
LEMMA AnswerPlays ==
  ASSUME Types, NEW r \in requests, Answer(r) \/ AnswerWithEmptyData(r)
  PROVE  /\ session[r.sender] = "begun"
         /\ UNCHANGED <<session, latest, primary, app, owner, plays>>
         /\ playing' = playing \/ playing' = [playing EXCEPT ![r.sender] = primary]
<1>1. /\ session[r.sender] = "begun"
      /\ UNCHANGED <<session, latest, plays>>
      /\ \E toFetch : GoOn(r, toFetch)
  BY DEF Answer, AnswerWithEmptyData, ProcessMediaData, ProcessNoData, senderVars
<1>2. PICK toFetch : GoOn(r, toFetch)
  BY <1>1
<1>3. UNCHANGED <<primary, app, owner>>
  BY <1>2 DEF GoOn
<1>4. CASE toFetch = <<>>
  BY <1>1, <1>2, <1>3, <1>4 DEF GoOn
<1>5. CASE toFetch # <<>>
  BY <1>1, <1>2, <1>3, <1>5 DEF GoOn
<1> QED BY <1>1, <1>3, <1>4, <1>5

-----------------------------------------------------------------------------
(* How far a playback has been fetched. *)

(* Where the data of a path is stored, and what is stored there of playback n. *)
Key(p) == Uri("", "", p)

Content(n, p) ==
  IF p = Primary
  THEN AdjustPrimaryMediaData(Playlist(n, app, PrimaryUri(app)))
  ELSE AdjustSecondaryMediaData(Playlist(n, app, ListedUri(app, p)))

(* The playlists from k on are stored, beside the primary; those before k are
   on the stack. *)
Keys(k) == {Key(p) : p \in {Primary} \cup k..NumMedia}

Stored(n, k) == media = [key \in Keys(k) |-> Content(n, key.path)]

OnStack(n, k) == stack = [i \in 1..(k - 1) |-> [play |-> n, uri |-> ListedUri(app, k - i)]]

(* A request for the playback in progress says how far it has been fetched. *)
FetchesPrimary(r) == r.uri = PrimaryUri(app) /\ stack = <<>> /\ media = <<>>

FetchesListed(r, k) ==
  r.uri = ListedUri(app, k) /\ OnStack(r.play, k) /\ Stored(r.play, k + 1)

Fetching(r) == FetchesPrimary(r) \/ \E k \in 1..NumMedia : FetchesListed(r, k)

(* The playlists have all been fetched. *)
AllFetched(n) == Stored(n, 1) /\ \A r \in requests : r.play # n

PrimaryKnown ==
  /\ primary.play \in 0..plays
  /\ primary # Nothing =>
       /\ app \in Apps
       /\ primary.play # NoPlay
       /\ primary.uri = AdjustPrimaryUri(PrimaryUri(app))

RequestsKnown ==
  /\ \A q, r \in requests : q.play = r.play => q = r
  /\ \A r \in requests :
       /\ r.play \in 1..plays
       /\ r.play = primary.play => Fetching(r) /\ r.sender = owner

PlayedIsFetched ==
  \A c \in Senders :
    /\ playing[c].play \in 0..plays
    /\ playing[c] = primary /\ primary # Nothing => AllFetched(primary.play)

FetchInv == ~spoiled => PrimaryKnown /\ RequestsKnown /\ PlayedIsFetched

(* The data of a URI of either application is stored by the path alone. *)
LEMMA PathOfApp ==
  ASSUME NEW scheme \in {"mlhls", "nfhls"}, NEW host \in {"", "localhost"}, NEW p \in Nat
  PROVE  /\ Rescheme(Uri(scheme, host, p), {scheme}, "") = Uri("", host, p)
         /\ Rescheme(Uri(scheme, host, p), {"mlhls", "nfhls"}, "") = Uri("", host, p)
         /\ Rehost(Uri("", host, p), "") = Key(p)
<1>1. Rescheme(Uri(scheme, host, p), {scheme}, "") = Uri("", host, p)
  BY DEF Rescheme, Uri
<1>2. Rescheme(Uri(scheme, host, p), {"mlhls", "nfhls"}, "") = Uri("", host, p)
  BY DEF Rescheme, Uri
<1>3. Rehost(Uri("", host, p), "") = Key(p)
  BY DEF Rehost, Key, Uri
<1> QED BY <1>1, <1>2, <1>3

(* Each application's URIs are recognised as its own, and stored alike. *)
LEMMA PathsOfApps ==
  ASSUME app \in Apps
  PROVE  /\ GetAppId(PrimaryUri(app)) = app
         /\ ExtractUriPath(PrimaryUri(app)) = Key(Primary)
         /\ \A p \in Nat : /\ GetAppId(ListedUri(app, p)) = app
                           /\ ExtractUriPath(ListedUri(app, p)) = Key(p)
<1>1. CASE app = "youtube"
  <2>1. /\ PrimaryUri(app) = Uri("mlhls", "localhost", Primary)
        /\ \A p : ListedUri(app, p) = Uri("mlhls", "localhost", p)
        /\ \A u : ExtractUriPath(u) = Rehost(Rescheme(u, {"mlhls", "nfhls"}, ""), "")
    BY <1>1 DEF PrimaryUri, ListedUri, ExtractUriPath
  <2>2. \A p : GetAppId(Uri("mlhls", "localhost", p)) = "youtube"
    BY Parts DEF GetAppId
  <2> QED BY <1>1, <2>1, <2>2, PathOfApp, PathTypes
<1>2. CASE app = "netflix"
  <2>1. /\ PrimaryUri(app) = Uri("nfhls", "localhost", Primary)
        /\ \A p : ListedUri(app, p) = Uri("nfhls", "", p)
        /\ \A u : ExtractUriPath(u) = Rehost(Rescheme(u, {"nfhls"}, ""), "")
    BY <1>2 DEF PrimaryUri, ListedUri, ExtractUriPath
  <2>2. \A p, h : GetAppId(Uri("nfhls", h, p)) = "netflix"
    BY Parts DEF GetAppId
  <2>3. \A h \in {"", "localhost"}, p \in Nat :
          Rehost(Rescheme(Uri("nfhls", h, p), {"nfhls"}, ""), "") = Key(p)
    <3>1. ASSUME NEW h \in {"", "localhost"}, NEW p \in Nat
          PROVE  Rescheme(Uri("nfhls", h, p), {"nfhls"}, "") = Uri("", h, p)
      BY DEF Rescheme, Uri
    <3> QED BY <3>1, PathOfApp
  <2> QED BY <1>2, <2>1, <2>2, <2>3, PathTypes
<1> QED BY <1>1, <1>2 DEF Apps

(* Only the primary playlist's URI is taken for one. *)
LEMMA PathsOfUris ==
  /\ \A a : PrimaryUri(a).path = Primary
  /\ \A a, p : ListedUri(a, p).path = p
  /\ \A p : Key(p).path = p
BY DEF PrimaryUri, ListedUri, Key, Uri

(* Storing one more playlist. *)
LEMMA StoreOneMore ==
  ASSUME NEW n, NEW k \in 1..NumMedia, Stored(n, k + 1), UNCHANGED app,
         media' = [p \in DOMAIN media \cup {Key(k)} |->
                    IF p = Key(k) THEN Content(n, k) ELSE media[p]]
  PROVE  Stored(n, k)'
<1>1. Keys(k) = {Key(k)} \cup Keys(k + 1)
  BY ConstantsAssumption DEF Keys
<1>2. \A key \in Keys(k) : media'[key] = Content(n, key.path)
  BY <1>1, PathsOfUris DEF Stored
<1>3. media' = [key \in Keys(k) |-> Content(n, key.path)]
  BY <1>1, <1>2 DEF Stored
<1> QED BY <1>3 DEF Stored, Content, AdjustPrimaryMediaData

(* The primary playlist has been stored: those that it lists are to be fetched,
   the last one first. *)
LEMMA PrimaryAnswered ==
  ASSUME app \in Apps, NEW r \in Requests, FetchesPrimary(r),
         NEW list, list = Playlist(r.play, GetAppId(r.uri), r.uri),
         UNCHANGED app, ProcessMediaData(r, list)
  PROVE  /\ Stored(r.play, NumMedia + 1)'
         /\ Pushed(r, list) \o stack =
              [i \in 1..NumMedia |-> [play |-> r.play, uri |-> ListedUri(app, NumMedia + 1 - i)]]
<1>1. /\ GetAppId(r.uri) = app
      /\ ExtractUriPath(r.uri) = Key(Primary)
      /\ IsPrimaryDataUri(r.uri)
      /\ r.uri.path = Primary
  BY PathsOfApps, PathsOfUris DEF FetchesPrimary, IsPrimaryDataUri
<1>2. list = Playlist(r.play, app, PrimaryUri(app))
  BY <1>1 DEF FetchesPrimary
<1>3. list.lists = [p \in 1..NumMedia |-> ListedUri(app, p)]
  <2>1. list = [play |-> r.play, base |-> NoBase, lists |-> [p \in 1..NumMedia |-> ListedUri(app, p)]]
    BY <1>2, PathsOfUris, Zenon DEF Playlist
  <2> QED BY <2>1
<1> DEFINE places == [i \in 1..NumMedia |-> [play |-> r.play, uri |-> ListedUri(app, i)]]
<1>4. /\ Len(places) = NumMedia
      /\ places \in Seq(Places)
  <2>1. places \in [1..NumMedia -> Places]
    BY UriTypes DEF Places, Requests
  <2> HIDE DEF places
  <2> QED BY <2>1, ConstantsAssumption, IsASeq, LenProperties
<1>5. Pushed(r, list) = Reverse(places)
  BY <1>1, <1>3 DEF Pushed
<1>6. Reverse(places) =
        [i \in 1..NumMedia |-> [play |-> r.play, uri |-> ListedUri(app, NumMedia + 1 - i)]]
  <2>1. Reverse(places) = [i \in 1..NumMedia |-> places[NumMedia - i + 1]]
    <3> HIDE DEF places
    <3> QED BY <1>4 DEF Reverse
  <2>2. ASSUME NEW i \in 1..NumMedia
        PROVE  /\ NumMedia - i + 1 = NumMedia + 1 - i
               /\ NumMedia + 1 - i \in 1..NumMedia
    BY ConstantsAssumption
  <2>3. \A i \in 1..NumMedia :
          places[NumMedia - i + 1] = [play |-> r.play, uri |-> ListedUri(app, NumMedia + 1 - i)]
    BY <2>2
  <2> HIDE DEF places
  <2> QED BY <2>1, <2>3
<1>7. Reverse(places) \in Seq(Places) /\ stack = <<>>
  <2>1. Reverse(places) \in [1..NumMedia -> Places]
    <3> HIDE DEF places
    <3> QED BY <1>4, LenProperties, ConstantsAssumption DEF Reverse
  <2> HIDE DEF places
  <2> QED BY <2>1, IsASeq, ConstantsAssumption DEF FetchesPrimary
<1>8. Pushed(r, list) \o stack = Reverse(places)
  <2> HIDE DEF places
  <2> QED BY <1>5, <1>7, ConcatEmptySeq
<1>9. Stored(r.play, NumMedia + 1)'
  <2>1. media' = [p \in {Key(Primary)} |-> AdjustPrimaryMediaData(list)]
    BY <1>1 DEF ProcessMediaData, FetchesPrimary
  <2>2. Keys(NumMedia + 1) = {Key(Primary)}
    BY ConstantsAssumption DEF Keys
  <2>3. Content(r.play, Key(Primary).path) = AdjustPrimaryMediaData(list)
    BY <1>2, PathsOfUris DEF Content
  <2>4. media' = [key \in Keys(NumMedia + 1) |-> Content(r.play, key.path)]
    BY <2>1, <2>2, <2>3
  <2> QED BY <2>4 DEF Stored, Content, AdjustPrimaryMediaData
<1> QED BY <1>6, <1>8, <1>9

(* Another playlist has been stored: those before it are still to be fetched. *)
LEMMA ListedAnswered ==
  ASSUME app \in Apps, NEW r \in Requests, NEW k \in 1..NumMedia, FetchesListed(r, k),
         stack \in Seq(Places),
         NEW list, list = Playlist(r.play, GetAppId(r.uri), r.uri),
         UNCHANGED app, ProcessMediaData(r, list)
  PROVE  /\ Stored(r.play, k)'
         /\ Pushed(r, list) \o stack =
              [i \in 1..(k - 1) |-> [play |-> r.play, uri |-> ListedUri(app, k - i)]]
<1>1. /\ GetAppId(r.uri) = app
      /\ ExtractUriPath(r.uri) = Key(k)
      /\ ~IsPrimaryDataUri(r.uri)
  BY PathsOfApps, PathsOfUris DEF FetchesListed, IsPrimaryDataUri, Primary
<1>2. list = Playlist(r.play, app, ListedUri(app, k))
  BY <1>1 DEF FetchesListed
<1>3. Pushed(r, list) \o stack = stack
  BY <1>1, ConcatEmptySeq DEF Pushed
<1>4. Content(r.play, k) = AdjustSecondaryMediaData(list)
  BY <1>2 DEF Content, Primary
<1>5. media' = [p \in DOMAIN media \cup {Key(k)} |->
                  IF p = Key(k) THEN Content(r.play, k) ELSE media[p]]
  BY <1>1, <1>4 DEF ProcessMediaData
<1>6. Stored(r.play, k)'
  BY <1>5, StoreOneMore DEF FetchesListed
<1> QED BY <1>3, <1>6 DEF FetchesListed, OnStack

(* What the request for a place asks for. *)
LEMMA FcupAsks ==
  ASSUME NEW c, NEW wanted, NEW q \in FcupRequest(c, wanted)
  PROVE  q.play = wanted.play /\ q.uri = wanted.uri /\ q.sender = c
BY DEF FcupRequest

(* When an answer has been stored, from playlist k on, the next is asked for, or
   the playback begins. *)
LEMMA AnswerGoesOn ==
  ASSUME Types, FetchInv, ~spoiled, NEW r \in requests,
         r.play = primary.play, Answer(r), NEW k \in 1..(NumMedia + 1),
         Stored(r.play, k)',
         Pushed(r, Playlist(r.play, GetAppId(r.uri), r.uri)) \o stack =
           [i \in 1..(k - 1) |-> [play |-> r.play, uri |-> ListedUri(app, k - i)]]
  PROVE  FetchInv'
<1> DEFINE list    == Playlist(r.play, GetAppId(r.uri), r.uri)
           toFetch == [i \in 1..(k - 1) |-> [play |-> r.play, uri |-> ListedUri(app, k - i)]]
           Before(q) == q \in requests /\ q # r
<1>1. /\ ProcessMediaData(r, list)
      /\ UNCHANGED <<session, latest, primary, app, owner, plays>>
  BY AnswerPlays DEF Answer
<1>2. Pushed(r, list) \o stack = toFetch
  OBVIOUS
<1>3. PrimaryKnown' /\ primary.play # NoPlay /\ primary # Nothing /\ r.play \in Nat
  BY <1>1 DEF FetchInv, PrimaryKnown, RequestsKnown, Nothing, NoPlay, Types, Requests
<1>4. \A q : Before(q) => q.play \in 1..plays /\ q.play # primary.play
  BY DEF FetchInv, RequestsKnown
<1>5. \A c \in Senders : playing[c].play \in 0..plays /\ playing[c] # primary
  BY <1>3 DEF FetchInv, PlayedIsFetched, AllFetched
<1>6. CASE k = 1
  <2>1. toFetch = <<>>
    BY <1>6
  <2>2. requests' = requests \ {r}
    BY <1>1, <1>2, <2>1 DEF ProcessMediaData, GoOn
  <2>3. RequestsKnown'
    BY <1>1, <1>4, <2>2 DEF FetchInv, RequestsKnown
  <2>4. \A c \in Senders : playing'[c] \in {playing[c], primary}
    BY AnswerPlays DEF Types
  <2>5. AllFetched(primary.play)'
    BY <1>1, <1>4, <1>6, <2>2 DEF AllFetched
  <2>6. PlayedIsFetched'
    BY <1>1, <1>3, <1>5, <2>4, <2>5 DEF PlayedIsFetched, PrimaryKnown
  <2> QED BY <1>3, <2>3, <2>6 DEF FetchInv
<1>7. CASE k # 1
  <2>1. /\ toFetch # <<>>
        /\ Head(toFetch) = [play |-> r.play, uri |-> ListedUri(app, k - 1)]
        /\ Tail(toFetch) =
             [i \in 1..(k - 2) |-> [play |-> r.play, uri |-> ListedUri(app, (k - 1) - i)]]
    <3>1. k - 1 \in Nat \ {0} /\ (k - 1) - 1 = k - 2
      BY <1>7, ConstantsAssumption
    <3>2. \A i \in 1..(k - 2) : i + 1 \in 1..(k - 1) /\ k - (i + 1) = (k - 1) - i
      BY <3>1, ConstantsAssumption
    <3>3. toFetch \in [1..(k - 1) -> Places]
      <4>1. \A i \in 1..(k - 1) : k - i \in Nat
        BY ConstantsAssumption
      <4> QED BY <1>3, <4>1, UriTypes DEF Places
    <3>4. \A i \in 1..(k - 1) : toFetch[i] = [play |-> r.play, uri |-> ListedUri(app, k - i)]
      OBVIOUS
    <3> HIDE DEF toFetch
    <3>5. toFetch \in Seq(Places) /\ Len(toFetch) = k - 1
      BY <3>1, <3>3, IsASeq, LenProperties
    <3>6. toFetch # <<>> /\ Head(toFetch) = toFetch[1]
      BY <3>1, <3>5, EmptySeq
    <3>7. Tail(toFetch) = [i \in 1..(k - 2) |-> toFetch[i + 1]]
      <4>1. /\ Tail(toFetch) \in Seq(Places)
            /\ Len(Tail(toFetch)) = k - 2
            /\ \A i \in 1..(k - 2) : Tail(toFetch)[i] = toFetch[i + 1]
        BY <3>1, <3>5, <3>6, HeadTailProperties
      <4> QED BY <4>1, LenProperties
    <3>8. 1 \in 1..(k - 1)
      BY <3>1
    <3>9. \A i \in 1..(k - 2) :
            toFetch[i + 1] = [play |-> r.play, uri |-> ListedUri(app, (k - 1) - i)]
      BY <3>2, <3>4
    <3> QED BY <3>4, <3>6, <3>7, <3>8, <3>9
  <2>2. /\ requests' = (requests \ {r}) \cup FcupRequest(owner, Head(toFetch))
        /\ stack' = Tail(toFetch)
        /\ UNCHANGED playing
    BY <1>1, <1>2, <2>1 DEF ProcessMediaData, GoOn, Popped
  <2>3. ASSUME NEW q \in requests', ~Before(q)
        PROVE  /\ q.play = r.play /\ q.sender = owner
               /\ FetchesListed(q, k - 1)'
    <3>1. q \in FcupRequest(owner, Head(toFetch))
      BY <2>2, <2>3
    <3>2. q.play = r.play /\ q.uri = ListedUri(app, k - 1) /\ q.sender = owner
      BY <2>1, <3>1, FcupAsks
    <3>3. (k - 1) + 1 = k /\ (k - 1) - 1 = k - 2
      BY ConstantsAssumption
    <3>4. Stored(q.play, (k - 1) + 1)'
      BY <3>2, <3>3 DEF Stored
    <3>5. OnStack(q.play, k - 1)'
      <4>1. stack' = [i \in 1..(k - 2) |-> [play |-> q.play, uri |-> ListedUri(app, (k - 1) - i)]]
        BY <2>1, <2>2, <3>2
      <4> QED BY <1>1, <3>3, <4>1 DEF OnStack
    <3> QED BY <1>1, <3>2, <3>4, <3>5 DEF FetchesListed
  <2>4. \A q, p \in requests' : ~Before(q) /\ ~Before(p) => q = p
    BY <2>2 DEF FcupRequest
  <2>5. \A q, p \in requests' : q.play = p.play => q = p
    <3>1. ASSUME NEW q \in requests', NEW p \in requests', q.play = p.play, Before(q), Before(p)
          PROVE  q = p
      BY <3>1 DEF FetchInv, RequestsKnown
    <3>2. ASSUME NEW q \in requests', NEW p \in requests', Before(q), ~Before(p)
          PROVE  q.play # p.play
      BY <1>4, <2>3, <3>2
    <3> QED BY <2>4, <3>1, <3>2
  <2>6. k - 1 \in 1..NumMedia
    BY <1>7, ConstantsAssumption
  <2>7. ASSUME NEW q \in requests'
        PROVE  /\ q.play \in 1..plays
               /\ q.play = primary.play => Fetching(q)' /\ q.sender = owner
    <3>1. CASE Before(q)
      BY <1>4, <3>1
    <3>2. CASE ~Before(q)
      <4>1. q.play = r.play /\ q.sender = owner /\ FetchesListed(q, k - 1)'
        BY <2>3, <3>2
      <4>2. Fetching(q)'
        BY <2>6, <4>1 DEF Fetching
      <4>3. r.play \in 1..plays
        BY DEF FetchInv, RequestsKnown
      <4> QED BY <4>1, <4>2, <4>3
    <3> QED BY <3>1, <3>2
  <2>8. RequestsKnown'
    BY <1>1, <2>5, <2>7 DEF RequestsKnown
  <2>9. PlayedIsFetched'
    BY <1>1, <1>5, <2>2 DEF PlayedIsFetched
  <2> QED BY <1>3, <2>8, <2>9 DEF FetchInv
<1> QED BY <1>6, <1>7

(* An answer takes the fetching of the playback one playlist further. *)
LEMMA AnswerFetches ==
  ASSUME Types, FetchInv, NEW r \in requests, Answer(r)
  PROVE  FetchInv'
<1> DEFINE list == Playlist(r.play, GetAppId(r.uri), r.uri)
<1>1. /\ ProcessMediaData(r, list)
      /\ UNCHANGED <<primary, app>>
      /\ spoiled' = (spoiled \/ r.play # primary.play)
      /\ r \in Requests
  BY AnswerPlays DEF Answer, Types
<1>2. CASE spoiled'
  BY <1>2 DEF FetchInv
<1>3. CASE ~spoiled'
  <2>1. ~spoiled /\ r.play = primary.play
    BY <1>1, <1>3 DEF Types
  <2>2. r.play = primary.play /\ Fetching(r)
    BY <2>1 DEF FetchInv, RequestsKnown
  <2>3. app \in Apps
    BY <2>1, <2>2 DEF FetchInv, PrimaryKnown, RequestsKnown, Nothing, NoPlay, Types
  <2>4. CASE FetchesPrimary(r)
    <3>1. /\ Stored(r.play, NumMedia + 1)'
          /\ Pushed(r, list) \o stack =
               [i \in 1..NumMedia |-> [play |-> r.play, uri |-> ListedUri(app, NumMedia + 1 - i)]]
      BY <1>1, <2>3, <2>4, PrimaryAnswered
    <3>2. NumMedia + 1 \in 1..(NumMedia + 1) /\ (NumMedia + 1) - 1 = NumMedia
      BY ConstantsAssumption
    <3>3. Pushed(r, list) \o stack =
            [i \in 1..((NumMedia + 1) - 1) |->
               [play |-> r.play, uri |-> ListedUri(app, NumMedia + 1 - i)]]
      BY <3>1, <3>2
    <3> HIDE DEF list
    <3>4. ASSUME NEW k, k = NumMedia + 1 PROVE FetchInv'
      <4>1. /\ k \in 1..(NumMedia + 1)
            /\ Stored(r.play, k)'
            /\ Pushed(r, list) \o stack =
                 [i \in 1..(k - 1) |-> [play |-> r.play, uri |-> ListedUri(app, k - i)]]
        BY <3>1, <3>2, <3>3, <3>4
      <4> QED BY <2>1, <2>2, <4>1, AnswerGoesOn DEF list
    <3> QED BY <3>4
  <2>5. ASSUME NEW k \in 1..NumMedia, FetchesListed(r, k) PROVE FetchInv'
    <3>1. stack \in Seq(Places)
      BY DEF Types
    <3>2. /\ Stored(r.play, k)'
          /\ Pushed(r, list) \o stack =
               [i \in 1..(k - 1) |-> [play |-> r.play, uri |-> ListedUri(app, k - i)]]
      BY <1>1, <2>3, <2>5, <3>1, ListedAnswered
    <3>3. k \in 1..(NumMedia + 1)
      BY ConstantsAssumption
    <3> QED BY <2>1, <2>2, <3>2, <3>3, AnswerGoesOn
  <2> QED BY <2>2, <2>4, <2>5 DEF Fetching
<1> QED BY <1>2, <1>3

(* A new playback is fetched from the start, and nothing of it is under way. *)
LEMMA PlayFetches ==
  ASSUME Types, FetchInv, ~spoiled, NEW s \in Senders, NEW a \in Apps, Play(s, PrimaryUri(a))
  PROVE  FetchInv'
<1> DEFINE n == plays + 1
           asked == FcupRequest(s, [play |-> n, uri |-> PrimaryUri(a)])
<1>1. /\ app' = a /\ stack' = <<>> /\ media' = <<>>
      /\ primary' = [play |-> n, uri |-> AdjustPrimaryUri(PrimaryUri(a))]
      /\ owner' = s
      /\ requests' = requests \cup asked
      /\ plays' = n
      /\ UNCHANGED <<playing, spoiled>>
  <2>1. GetAppId(PrimaryUri(a)) = a
    BY Parts DEF GetAppId, PrimaryUri, Apps
  <2> QED BY <2>1 DEF Play, Ask
<1>2. n \in Nat /\ n > plays /\ plays \in Nat
  BY DEF Types
<1>3. PrimaryKnown'
  BY <1>1, <1>2 DEF PrimaryKnown, NoPlay
<1>4. \A q \in asked : q.play = n /\ q.sender = s /\ FetchesPrimary(q)'
  BY <1>1, FcupAsks DEF FetchesPrimary
<1>5. \A q, r \in asked : q = r
  BY DEF FcupRequest
<1>6. \A r \in requests : r.play \in 1..plays
  BY DEF FetchInv, RequestsKnown
<1>7. \A q, r \in requests' : q.play = r.play => q = r
  <2> HIDE DEF asked
  <2> QED BY <1>1, <1>2, <1>4, <1>5, <1>6 DEF FetchInv, RequestsKnown
<1>8. ASSUME NEW r \in requests'
      PROVE  /\ r.play \in 1..n
             /\ r.play = primary'.play => Fetching(r)' /\ r.sender = owner'
  <2>1. primary'.play = n
    BY <1>1
  <2>2. CASE r \in asked
    BY <1>1, <1>2, <1>4, <2>1, <2>2 DEF Fetching
  <2>3. CASE r \in requests
    BY <1>2, <1>6, <2>1, <2>3
  <2> HIDE DEF asked
  <2> QED BY <1>1, <2>2, <2>3
<1>9. RequestsKnown'
  BY <1>1, <1>7, <1>8 DEF RequestsKnown
<1>10. PlayedIsFetched'
  BY <1>1, <1>2 DEF FetchInv, PlayedIsFetched
<1> QED BY <1>3, <1>9, <1>10 DEF FetchInv

(* Every step keeps to the order in which the playlists are fetched. *)
LEMMA FetchInductive == Types /\ FetchInv /\ [Next]_vars => FetchInv'
<1> SUFFICES ASSUME Types, FetchInv, [Next]_vars PROVE FetchInv'
  OBVIOUS
<1> DEFINE storeKept == UNCHANGED <<storeVars, plays, spoiled>>
<1>1. ASSUME storeKept, requests' \subseteq requests,
             \A c \in Senders : playing'[c] \in {playing[c], Nothing}
      PROVE  FetchInv'
  <2>1. \A r : Fetching(r)' <=> Fetching(r)
    BY <1>1 DEF Fetching, FetchesPrimary, FetchesListed, Stored, OnStack, Content,
                AdjustPrimaryMediaData, storeVars
  <2>2. UNCHANGED <<plays, primary, app, owner, spoiled, media>> /\ plays \in Nat /\ Nothing.play = 0
    BY <1>1 DEF storeVars, Types, Nothing, NoPlay
  <2>3. FetchInv /\ ~spoiled => PrimaryKnown' /\ RequestsKnown'
    BY <1>1, <2>1, <2>2 DEF FetchInv, PrimaryKnown, RequestsKnown
  <2>4. \A n : AllFetched(n) => AllFetched(n)'
    BY <1>1, <2>2 DEF AllFetched, Stored, Content, AdjustPrimaryMediaData
  <2>5. FetchInv /\ ~spoiled => PlayedIsFetched'
    BY <1>1, <2>2, <2>4 DEF FetchInv, PlayedIsFetched
  <2> QED BY <2>2, <2>3, <2>5 DEF FetchInv
<1>2. ASSUME NEW c \in Senders, EndSession(c) PROVE FetchInv'
  <2>1. storeKept /\ requests' = requests /\ playing' = [playing EXCEPT ![c] = Nothing]
    BY <1>2 DEF EndSession
  <2>2. \A d \in Senders : playing'[d] \in {playing[d], Nothing}
    BY <2>1 DEF Types
  <2> QED BY <1>1, <2>1, <2>2
<1>3. ASSUME NEW c \in Senders, NEW e \in alive[c], DropEvent(c, e) PROVE FetchInv'
  <2>1. storeKept /\ requests' \subseteq requests /\ UNCHANGED playing
    BY <1>3 DEF DropEvent
  <2> QED BY <1>1, <2>1
<1>4. ASSUME NEW c \in Senders, NEW a \in Apps, Play(c, PrimaryUri(a)) PROVE FetchInv'
  <2>1. spoiled' = spoiled
    BY <1>4 DEF Play
  <2> QED BY <1>4, <2>1, PlayFetches DEF FetchInv
<1>5. ASSUME NEW c \in Senders, primary' = Nothing,
             (\E uri \in Elsewhere : PlayNormal(c, uri)) \/ Stop(c)
      PROVE  FetchInv'
  <2>1. /\ UNCHANGED <<requests, spoiled>>
        /\ plays' \in {plays, plays + 1}
        /\ \A d \in Senders : playing'[d] = playing[d] \/ playing'[d].play \in 0..plays'
    <3>1. CASE Stop(c)
      BY <3>1 DEF Stop, Types, Nothing, NoPlay
    <3>2. ASSUME NEW uri \in Elsewhere, PlayNormal(c, uri)
          PROVE  /\ UNCHANGED <<requests, spoiled>>
                 /\ plays' = plays + 1
                 /\ \A d \in Senders : playing'[d] = playing[d] \/ playing'[d].play = plays + 1
      BY <3>2 DEF PlayNormal, Ask, Types
    <3> QED BY <1>5, <3>1, <3>2 DEF Types
  <2>2. Nothing.play = 0 /\ plays \in Nat
    BY DEF Nothing, NoPlay, Types
  <2> QED BY <1>5, <2>1, <2>2 DEF FetchInv, PrimaryKnown, RequestsKnown, PlayedIsFetched
<1>6. ASSUME NEW r \in requests, AnswerWithEmptyData(r) \/ AnswerWithoutData(r) PROVE FetchInv'
  BY <1>6 DEF AnswerWithEmptyData, AnswerWithoutData, FetchInv
<1>7. ASSUME NEW c \in Senders, ServerInfo(c) \/ PostReverse(c) PROVE FetchInv'
  BY <1>1, <1>7 DEF ServerInfo, PostReverse
<1>8. CASE UNCHANGED vars
  BY <1>1, <1>8 DEF vars
<1>9. \A c \in Senders :
        (\E uri \in Elsewhere : PlayNormal(c, uri)) \/ Stop(c) => primary' = Nothing
  BY DEF PlayNormal, Stop, Reset
<1> QED BY <1>2, <1>3, <1>4, <1>5, <1>6, <1>7, <1>8, <1>9, AnswerFetches DEF Next

(* The order in which the playlists are fetched, at any time. *)
LEMMA FetchHolds == Spec => []FetchInv
<1>1. Init => FetchInv
  BY DEF Init, FetchInv, PrimaryKnown, RequestsKnown, PlayedIsFetched, Nothing, NoPlay
<1> QED BY <1>1, FetchInductive, TypesHold, PTL DEF Spec

(* A request for the playback in progress tells which application's it is. *)
LEMMA AppKnown ==
  ASSUME FetchInv, ~spoiled, primary # Nothing
  PROVE  app \in Apps /\ primary.play # NoPlay
BY DEF FetchInv, PrimaryKnown

(* The playlists of a playback are fetched one at a time and each once, however
   many there are, unless an answer comes late. *)
THEOREM FetchedOnce == Spec => []FetchesOnce
<1>1. ASSUME FetchInv PROVE FetchesOnce
  <2> SUFFICES ASSUME ~spoiled, NEW r \in requests
               PROVE  /\ \A q \in requests : q.play = r.play => q = r
                      /\ r.play = primary.play => QueryMediaData(ExtractUriPath(r.uri)) = NoPlaylist
    BY DEF FetchesOnce
  <2>1. \A q \in requests : q.play = r.play => q = r
    BY <1>1 DEF FetchInv, RequestsKnown
  <2>2. ASSUME r.play = primary.play PROVE ExtractUriPath(r.uri) \notin DOMAIN media
    <3>1. Fetching(r) /\ primary # Nothing
      BY <1>1, <2>2 DEF FetchInv, RequestsKnown, Nothing, NoPlay
    <3>2. app \in Apps
      BY <1>1, <3>1, AppKnown
    <3>3. CASE FetchesPrimary(r)
      BY <3>3 DEF FetchesPrimary
    <3>4. ASSUME NEW k \in 1..NumMedia, FetchesListed(r, k)
          PROVE  ExtractUriPath(r.uri) \notin DOMAIN media
      <4>1. ExtractUriPath(r.uri) = Key(k)
        BY <3>2, <3>4, PathsOfApps DEF FetchesListed
      <4>2. DOMAIN media = Keys(k + 1)
        BY <3>4 DEF FetchesListed, Stored
      <4>3. ASSUME NEW p \in {Primary} \cup (k + 1)..NumMedia PROVE Key(p) # Key(k)
        <5>1. p # k
          BY ConstantsAssumption DEF Primary
        <5> QED BY <5>1, PathsOfUris
      <4> QED BY <4>1, <4>2, <4>3 DEF Keys
    <3> QED BY <3>1, <3>3, <3>4 DEF Fetching
  <2> QED BY <2>1, <2>2 DEF QueryMediaData
<1> QED BY <1>1, FetchHolds, PTL

(* A playlist whose list of URIs is replaced. *)
LEMMA ListsReplaced ==
  ASSUME NEW n, NEW base, NEW old, NEW new
  PROVE  [[play |-> n, base |-> base, lists |-> old] EXCEPT !.lists = new]
           = [play |-> n, base |-> base, lists |-> new]
OBVIOUS

(* What is stored of a playback, as the media server gives it: the primary
   playlist lists what the store has, and the others what another server has. *)
LEMMA PrimaryContent ==
  ASSUME app \in Apps, NEW n
  PROVE  /\ Content(n, Primary).play = n
         /\ DOMAIN Content(n, Primary).lists = 1..NumMedia
         /\ \A p \in 1..NumMedia : Content(n, Primary).lists[p] = Uri("http", StoreHost, p)
<1> DEFINE listed == [p \in 1..NumMedia |-> ListedUri(app, p)]
           adjusted == [i \in DOMAIN listed |->
                          CASE app = "youtube" -> AdjustMlhlsData(listed[i])
                            [] app = "netflix" -> AdjustNfhlsData(listed[i])
                            [] OTHER -> listed[i]]
<1>1. Playlist(n, app, PrimaryUri(app)) = [play |-> n, base |-> NoBase, lists |-> listed]
  BY PathsOfUris, Zenon DEF Playlist
<1>2. Content(n, Primary) = [play |-> n, base |-> NoBase, lists |-> adjusted]
  <2>1. Content(n, Primary) = AdjustPrimaryMediaData([play |-> n, base |-> NoBase, lists |-> listed])
    BY <1>1 DEF Content
  <2>2. AdjustPrimaryMediaData([play |-> n, base |-> NoBase, lists |-> listed])
          = [[play |-> n, base |-> NoBase, lists |-> listed] EXCEPT !.lists = adjusted]
    BY Zenon DEF AdjustPrimaryMediaData
  <2> QED BY <2>1, <2>2, ListsReplaced
<1>3. ASSUME NEW p \in 1..NumMedia PROVE adjusted[p] = Uri("http", StoreHost, p)
  <2>1. CASE app = "youtube"
    <3>1. adjusted[p] = AdjustMlhlsData(Uri("mlhls", "localhost", p))
      BY <1>3, <2>1 DEF ListedUri
    <3> QED BY <3>1 DEF AdjustMlhlsData, Rescheme, Rehost, Uri
  <2>2. CASE app = "netflix"
    <3>1. adjusted[p] = AdjustNfhlsData(Uri("nfhls", "", p))
      BY <1>3, <2>2 DEF ListedUri
    <3> QED BY <3>1 DEF AdjustNfhlsData, Uri
  <2> QED BY <2>1, <2>2 DEF Apps
<1> QED BY <1>2, <1>3

(* The prefix of the one segment that a list names, completed. *)
LEMMA SegmentCompleted ==
  ASSUME NEW old, NEW u, DOMAIN old = {1}, old[1] = u, u.scheme = "", u.path = Segment
  PROVE  [i \in DOMAIN old |->
            IF old[i].scheme = "" THEN Uri("https", "cdn", old[i].path) ELSE old[i]]
           = [i \in {1} |-> Uri("https", "cdn", Segment)]
OBVIOUS

LEMMA ListedContent ==
  ASSUME app \in Apps, NEW n, NEW p \in 1..NumMedia
  PROVE  /\ Content(n, p).play = n
         /\ Range(Content(n, p).lists) = {Uri("https", "cdn", Segment)}
<1>1. p # Primary /\ ListedUri(app, p).path = p
  BY PathsOfUris DEF Primary
<1>2. CASE app = "youtube"
  <2>1. Playlist(n, app, ListedUri(app, p)) =
          [play |-> n, base |-> "cdn", lists |-> <<Uri("", "", Segment)>>]
    BY <1>1, <1>2 DEF Playlist
  <2>2. Content(n, p) = AdjustSecondaryMediaData(
          [play |-> n, base |-> "cdn", lists |-> <<Uri("", "", Segment)>>])
    BY <1>1, <2>1 DEF Content
  <2>3. /\ Content(n, p).play = n
        /\ Content(n, p).lists = [i \in {1} |-> Uri("https", "cdn", Segment)]
    <3> DEFINE old == <<Uri("", "", Segment)>>
               new == [i \in DOMAIN old |->
                         IF old[i].scheme = "" THEN Uri("https", "cdn", old[i].path) ELSE old[i]]
    <3>1. Content(n, p) =
            [[play |-> n, base |-> "cdn", lists |-> old] EXCEPT !.lists = new]
      BY <2>2 DEF AdjustSecondaryMediaData, NoBase
    <3>2. Content(n, p) = [play |-> n, base |-> "cdn", lists |-> new]
      BY <3>1, ListsReplaced
    <3>3. new = [i \in {1} |-> Uri("https", "cdn", Segment)]
      <4>1. Uri("", "", Segment).scheme = "" /\ Uri("", "", Segment).path = Segment
        BY DEF Uri
      <4>2. DOMAIN old = {1} /\ old[1] = Uri("", "", Segment)
        OBVIOUS
      <4> HIDE DEF old
      <4> QED BY <4>1, <4>2, SegmentCompleted
    <3> HIDE DEF new
    <3>4. Content(n, p).play = n /\ Content(n, p).lists = new
      BY <3>2
    <3> QED BY <3>3, <3>4
  <2> QED BY <2>3 DEF Range
<1>3. CASE app = "netflix"
  <2>1. Playlist(n, app, ListedUri(app, p)) =
          [play |-> n, base |-> NoBase, lists |-> <<Uri("https", "cdn", Segment)>>]
    BY <1>1, <1>3 DEF Playlist
  <2>2. /\ Content(n, p).play = n
        /\ Content(n, p).lists = <<Uri("https", "cdn", Segment)>>
    BY <1>1, <2>1 DEF Content, AdjustSecondaryMediaData
  <2>3. DOMAIN <<Uri("https", "cdn", Segment)>> = {1}
    OBVIOUS
  <2> QED BY <2>2, <2>3 DEF Range
<1> QED BY <1>2, <1>3 DEF Apps

(* Once a playback is fetched, each of its playlists is served. *)
LEMMA FetchedIsServed ==
  ASSUME NEW n, n # NoPlay, Stored(n, 1), app \in Apps,
         NEW p \in {Primary} \cup 1..NumMedia, NEW uri, uri.path = p
  PROVE  Fetched(uri).status = 200 /\ Fetched(uri).content = Content(n, p)
<1>1. Key(p) \in DOMAIN media /\ media[Key(p)] = Content(n, p)
  <2>1. Key(p) \in Keys(1)
    BY DEF Keys
  <2> QED BY <2>1, PathsOfUris DEF Stored
<1>2. Content(n, p) # NoPlaylist
  <2>1. Content(n, p).play = n
    BY PrimaryContent, ListedContent
  <2> QED BY <2>1 DEF NoPlaylist
<1>3. QueryMediaData(Key(p)) = Content(n, p)
  BY <1>1 DEF QueryMediaData
<1>4. ASSUME NEW path, QueryMediaData(path) # NoPlaylist
      PROVE  GetHandler(path).status = 200 /\ GetHandler(path).content = QueryMediaData(path)
  BY <1>4 DEF GetHandler
<1>5. Fetched(uri) = GetHandler(Key(p))
  BY Zenon DEF Fetched, Key
<1> QED BY <1>2, <1>3, <1>4, <1>5

(* When the application is told to play, the primary playlist is served, and so
   is each playlist it lists, whose segments another server has: however many
   there are, for either way of writing URIs, unless an answer comes late. *)
THEOREM PlayedWhenFetched == Spec => []PlaysWhenFetched
<1>1. ASSUME FetchInv PROVE PlaysWhenFetched
  <2> SUFFICES ASSUME ~spoiled, NEW c \in Senders, playing[c] = primary, primary # Nothing
               PROVE  LET top == Fetched(primary.uri).content.lists IN
                      /\ Leads(primary.uri, primary.play)
                      /\ \A i \in DOMAIN top :
                           /\ Leads(top[i], primary.play)
                           /\ \A uri \in Range(Fetched(top[i]).content.lists) :
                                Leads(uri, primary.play)
    BY DEF PlaysWhenFetched
  <2> DEFINE n == primary.play
  <2>1. app \in Apps /\ n # NoPlay
    BY <1>1, AppKnown
  <2>2. Stored(n, 1) /\ primary.uri = Uri("http", StoreHost, Primary)
    BY <1>1, PrimaryLocation DEF FetchInv, PlayedIsFetched, AllFetched, PrimaryKnown
  <2>3. Fetched(primary.uri).status = 200 /\ Fetched(primary.uri).content = Content(n, Primary)
    BY <2>1, <2>2, Parts, FetchedIsServed
  <2>4. Leads(primary.uri, n)
    BY <2>1, <2>2, <2>3, Parts, PrimaryContent DEF Leads
  <2>5. ASSUME NEW p \in 1..NumMedia, NEW uri, uri = Uri("http", StoreHost, p)
        PROVE  /\ Leads(uri, n)
               /\ \A v \in Range(Fetched(uri).content.lists) : Leads(v, n)
    <3>1. uri.path = p /\ uri.scheme = "http" /\ uri.host = StoreHost
      BY <2>5, Parts
    <3>2. Fetched(uri).status = 200 /\ Fetched(uri).content = Content(n, p)
      BY <2>1, <2>2, <3>1, FetchedIsServed
    <3>3. Content(n, p).play = n /\ Range(Content(n, p).lists) = {Uri("https", "cdn", Segment)}
      BY <2>1, ListedContent
    <3> QED BY <3>1, <3>2, <3>3, Parts DEF Leads
  <2>6. /\ DOMAIN Content(n, Primary).lists = 1..NumMedia
        /\ \A p \in 1..NumMedia : Content(n, Primary).lists[p] = Uri("http", StoreHost, p)
    BY <2>1, PrimaryContent
  <2> HIDE DEF n
  <2>7. ASSUME NEW i \in DOMAIN Fetched(primary.uri).content.lists
        PROVE  LET top == Fetched(primary.uri).content.lists IN
               /\ Leads(top[i], n)
               /\ \A uri \in Range(Fetched(top[i]).content.lists) : Leads(uri, n)
    <3>1. i \in 1..NumMedia
      BY <2>3, <2>6
    <3>2. Fetched(primary.uri).content.lists[i] = Uri("http", StoreHost, i)
      BY <2>3, <2>6, <3>1
    <3> QED BY <2>5, <3>1, <3>2
  <2> QED BY <2>4, <2>7 DEF n
<1> QED BY <1>1, FetchHolds, PTL

-----------------------------------------------------------------------------
(* What the store fetches is what the sender that it fetches for asked for last. *)
StoreIsWanted ==
  primary # Nothing =>
    owner \in Senders /\ (session[owner] # "ended" => primary.play = latest[owner])

(* It always is. *)
LEMMA StoreHolds == Spec => []StoreIsWanted
<1>1. Init => StoreIsWanted
  BY DEF Init, StoreIsWanted
<1>2. Types /\ StoreIsWanted /\ [Next]_vars => StoreIsWanted'
  <2> SUFFICES ASSUME Types, StoreIsWanted, [Next]_vars PROVE StoreIsWanted'
    OBVIOUS
  <2>1. CASE UNCHANGED <<session, latest, primary, owner>>
    BY <2>1 DEF StoreIsWanted
  <2>2. ASSUME NEW c \in Senders, ServerInfo(c) \/ EndSession(c) PROVE StoreIsWanted'
    BY <2>2 DEF StoreIsWanted, ServerInfo, EndSession, storeVars, Types
  <2>3. ASSUME NEW c \in Senders, NEW a \in Apps, Play(c, PrimaryUri(a)) PROVE StoreIsWanted'
    BY <2>3 DEF StoreIsWanted, Play, Ask, Types
  <2>4. ASSUME NEW c \in Senders, (\E uri \in Elsewhere : PlayNormal(c, uri)) \/ Stop(c)
        PROVE  StoreIsWanted'
    BY <2>4 DEF StoreIsWanted, PlayNormal, Stop, Reset
  <2>5. ASSUME NEW r \in requests, Answer(r) \/ AnswerWithEmptyData(r) PROVE StoreIsWanted'
    BY <2>1, <2>5, AnswerPlays
  <2> QED BY <2>1, <2>2, <2>3, <2>4, <2>5
          DEF Next, vars, senderVars, storeVars, PostReverse, DropEvent, AnswerWithoutData
<1> QED BY <1>1, <1>2, TypesHold, PTL DEF Spec

(* A session is told to play only what its sender asked for last, even when
   answers come late or without data, however many senders share the store: the
   one exception is a late answer of a sender that the store does not fetch for. *)
THEOREM LatestIsPlayed == Spec => PlaysTheLatest
<1> DEFINE Good(c) == \/ playing'[c].play \in {playing[c].play, NoPlay, latest'[c]}
                      \/ spoiled' /\ owner \in Senders \ {c}
<1>1. ASSUME Types, StoreIsWanted, FetchInv, [Next]_vars, NEW c \in Senders PROVE Good(c)
  <2>1. CASE UNCHANGED playing
    BY <2>1
  <2>2. ASSUME NEW d \in Senders, EndSession(d) \/ Stop(d)
        PROVE  playing'[c].play \in {playing[c].play, NoPlay}
    <3>1. playing' = [playing EXCEPT ![d] = Nothing] /\ playing \in [Senders -> Places]
      BY <1>1, <2>2 DEF EndSession, Stop, Types
    <3> QED BY <3>1 DEF Nothing
  <2>3. ASSUME NEW d \in Senders, NEW uri \in Elsewhere, PlayNormal(d, uri)
        PROVE  playing'[c].play \in {playing[c].play, latest'[c]}
    BY <1>1, <2>3 DEF PlayNormal, Ask, Types
  <2>4. ASSUME NEW r \in requests, Answer(r) \/ AnswerWithEmptyData(r), playing'[c] # playing[c]
        PROVE  Good(c)
    <3>1. r.sender = c /\ playing'[c] = primary /\ session[c] = "begun" /\ latest' = latest
      BY <1>1, <2>4, AnswerPlays DEF Types
    <3>2. CASE primary = Nothing
      BY <3>1, <3>2 DEF Nothing
    <3>3. CASE primary # Nothing /\ owner = c
      BY <3>1, <3>3, <1>1 DEF StoreIsWanted
    <3>4. CASE primary # Nothing /\ owner # c
      <4>1. owner \in Senders \ {c}
        BY <1>1, <3>4 DEF StoreIsWanted
      <4>2. spoiled \/ r.play # primary.play
        BY <1>1, <2>4, <3>1, <3>4 DEF FetchInv, RequestsKnown
      <4> QED BY <2>4, <4>1, <4>2 DEF Answer, AnswerWithEmptyData
    <3> QED BY <3>2, <3>3, <3>4
  <2> QED BY <1>1, <2>1, <2>2, <2>3, <2>4
          DEF Next, vars, ServerInfo, PostReverse, DropEvent, Play, AnswerWithoutData
<1>2. Types /\ StoreIsWanted /\ FetchInv /\ [Next]_vars => [\A c \in Senders : Good(c)]_vars
  BY <1>1
<1> QED BY <1>2, TypesHold, StoreHolds, FetchHolds, PTL DEF Spec, PlaysTheLatest

-----------------------------------------------------------------------------
(***************************************************************************)
(* What the application's player sees.  Each step of the                   *)
(* program is one of CastingPlayer, or changes nothing that it speaks of.  *)
(***************************************************************************)

(* What is served when the playlists from k on have been stored. *)
ServedFrom(n, k) == ({Primary} \cup k..NumMedia) \X {n}

StoredIsServed ==
  app \in Apps => \A n : \A k \in 1..(NumMedia + 1) : Stored(n, k) => Library = ServedFrom(n, k)

(* What is stored is served, now ... *)
LEMMA Serving == StoredIsServed
<1> SUFFICES ASSUME app \in Apps, NEW n, NEW k \in 1..(NumMedia + 1), Stored(n, k)
             PROVE  Library = ServedFrom(n, k)
  BY DEF StoredIsServed
<1> DEFINE S == {Primary} \cup k..NumMedia
<1>1. \A p \in S : Content(n, p).play = n
  <2>1. \A p \in k..NumMedia : p \in 1..NumMedia
    BY ConstantsAssumption
  <2> QED BY <2>1, PrimaryContent, ListedContent
<1>2. DOMAIN media = {Key(p) : p \in S} /\ \A key \in DOMAIN media : media[key] = Content(n, key.path)
  BY DEF Stored, Keys
<1>3. \A p \in S : Key(p).path = p /\ media[Key(p)].play = n
  BY <1>1, <1>2, PathsOfUris
<1> HIDE DEF S
<1>4. Library = {<<p, n>> : p \in S}
  BY <1>2, <1>3 DEF Library
<1> QED BY <1>4 DEF S, ServedFrom

(* ... and in the next state. *)
LEMMA ServingNext == StoredIsServed'
BY Serving, PTL

(* An answer to r has been stored from playlist k of n on, and the others are to
   be fetched: the library has had those after k. *)
AnsweredUpTo(r, n, k) ==
  /\ Stored(n, k)'
  /\ Pushed(r, Playlist(r.play, GetAppId(r.uri), r.uri)) \o stack =
       [i \in 1..(k - 1) |-> [play |-> n, uri |-> ListedUri(app, k - i)]]
  /\ Library = (IF k = NumMedia + 1 THEN {} ELSE ServedFrom(n, k + 1))

(* An answer in time stores one playlist more. *)
LEMMA AnswerStores ==
  ASSUME Types, FetchInv, NEW r \in requests, Answer(r), ~spoiled'
  PROVE  \E k \in 1..(NumMedia + 1) : AnsweredUpTo(r, primary.play, k)
<1> DEFINE list == Playlist(r.play, GetAppId(r.uri), r.uri)
           n    == primary.play
<1>1. /\ ProcessMediaData(r, list)
      /\ UNCHANGED <<primary, app, owner, plays>>
      /\ ~spoiled /\ r.play = n /\ UNCHANGED spoiled
      /\ r \in Requests
  BY AnswerPlays DEF Answer, Types
<1>2. r.play = n /\ Fetching(r) /\ r.sender = owner /\ n # NoPlay /\ primary # Nothing
  <2>1. r.play = n /\ Fetching(r) /\ r.sender = owner /\ n # NoPlay
    BY <1>1 DEF FetchInv, RequestsKnown, NoPlay, Types
  <2> QED BY <2>1 DEF Nothing
<1>3. app \in Apps
  BY <1>1, <1>2, AppKnown
<1>4. \E k \in 1..(NumMedia + 1) :
        /\ Stored(n, k)'
        /\ Pushed(r, list) \o stack =
             [i \in 1..(k - 1) |-> [play |-> n, uri |-> ListedUri(app, k - i)]]
        /\ Library = (IF k = NumMedia + 1 THEN {} ELSE ServedFrom(n, k + 1))
  <2>1. CASE FetchesPrimary(r)
    <3> DEFINE k == NumMedia + 1
    <3>1. k \in 1..(NumMedia + 1) /\ k - 1 = NumMedia
      BY ConstantsAssumption
    <3>2. /\ Stored(r.play, NumMedia + 1)'
          /\ Pushed(r, list) \o stack =
               [i \in 1..NumMedia |-> [play |-> r.play, uri |-> ListedUri(app, NumMedia + 1 - i)]]
      <4>1. ProcessMediaData(r, list) /\ UNCHANGED app /\ r \in Requests
        BY <1>1
      <4> QED BY <1>3, <2>1, <4>1, PrimaryAnswered
    <3>4. Stored(n, k)'
      BY <1>1, <1>2, <3>2 DEF Stored
    <3>5. Pushed(r, list) \o stack = [i \in 1..(k - 1) |-> [play |-> n, uri |-> ListedUri(app, k - i)]]
      BY <1>2, <3>1, <3>2
    <3>3. Library = {}
      BY <2>1 DEF FetchesPrimary, Library
    <3> HIDE DEF list
    <3> QED BY <3>1, <3>3, <3>4, <3>5
  <2>2. ASSUME NEW k \in 1..NumMedia, FetchesListed(r, k)
        PROVE  /\ Stored(n, k)'
               /\ Pushed(r, list) \o stack =
                    [i \in 1..(k - 1) |-> [play |-> n, uri |-> ListedUri(app, k - i)]]
               /\ Library = ServedFrom(n, k + 1)
    <3>1. stack \in Seq(Places)
      BY DEF Types
    <3>2. k + 1 \in 1..(NumMedia + 1) /\ Stored(n, k + 1)
      BY <1>2, <2>2, ConstantsAssumption DEF FetchesListed
    <3>3. Library = ServedFrom(n, k + 1)
      BY <1>3, <3>2, Serving DEF StoredIsServed
    <3>4. /\ Stored(r.play, k)'
          /\ Pushed(r, list) \o stack =
               [i \in 1..(k - 1) |-> [play |-> r.play, uri |-> ListedUri(app, k - i)]]
      BY <1>1, <1>3, <2>2, <3>1, ListedAnswered
    <3>5. Stored(n, k)'
      BY <1>1, <1>2, <3>4 DEF Stored
    <3> HIDE DEF list
    <3> QED BY <1>2, <3>3, <3>4, <3>5
  <2>3. \A k \in 1..NumMedia : k \in 1..(NumMedia + 1) /\ k # NumMedia + 1
    BY ConstantsAssumption
  <2> HIDE DEF list
  <2> QED BY <1>2, <2>1, <2>2, <2>3 DEF Fetching
<1> QED BY <1>4 DEF AnsweredUpTo

(* An answer in time: one more playlist is served, and the session is told to
   play with the last one. *)
LEMMA AnswerServes ==
  ASSUME Types, FetchInv, NEW r \in requests, Answer(r), ~spoiled'
  PROVE  \E p \in Player!Paths : Player!Fetch(p)
<1> DEFINE list == Playlist(r.play, GetAppId(r.uri), r.uri)
           n    == primary.play
<1>1. /\ ProcessMediaData(r, list)
      /\ UNCHANGED <<primary, app, owner, plays>>
      /\ ~spoiled /\ r.play = n /\ UNCHANGED spoiled
      /\ r \in Requests
  BY AnswerPlays DEF Answer, Types
<1>2. r.play = n /\ Fetching(r) /\ r.sender = owner /\ n # NoPlay /\ primary # Nothing
  <2>1. r.play = n /\ Fetching(r) /\ r.sender = owner /\ n # NoPlay
    BY <1>1 DEF FetchInv, RequestsKnown, NoPlay, Types
  <2> QED BY <2>1 DEF Nothing
<1>3. app \in Apps /\ owner \in Senders
  BY <1>1, <1>2, AppKnown DEF Requests
<1>4. \E k \in 1..(NumMedia + 1) : AnsweredUpTo(r, n, k)
  BY <1>2, AnswerStores
<1>5. PICK k \in 1..(NumMedia + 1) :
        /\ Stored(n, k)'
        /\ Pushed(r, list) \o stack =
             [i \in 1..(k - 1) |-> [play |-> n, uri |-> ListedUri(app, k - i)]]
        /\ Library = (IF k = NumMedia + 1 THEN {} ELSE ServedFrom(n, k + 1))
  BY <1>4 DEF AnsweredUpTo
<1>6. Library' = ServedFrom(n, k)
  <2>1. Stored(n, k)'
    BY <1>5
  <2>2. app' \in Apps
    BY <1>1, <1>3
  <2>3. \A m : \A j \in 1..(NumMedia + 1) : Stored(m, j)' => Library' = ServedFrom(m, j)
    BY <2>2, ServingNext DEF StoredIsServed, ServedFrom
  <2>4. PICK m : m = n
    OBVIOUS
  <2>5. Stored(m, k)'
    BY <1>1, <2>1, <2>4 DEF Stored
  <2> QED BY <2>3, <2>4, <2>5
<1> DEFINE p == IF k = NumMedia + 1 THEN Primary ELSE k
<1>7. /\ p \in Player!Paths
      /\ <<p, n>> \notin Library
      /\ Library' = Library \cup {<<p, n>>}
      /\ Library' = Player!Paths \X {n} <=> k = 1
  <2>1. Primary = 0 /\ Player!Paths = 0..NumMedia /\ p \in 0..NumMedia
    BY ConstantsAssumption DEF Player!Paths, Primary
  <2>2. \A q, j : <<q, n>> \in ServedFrom(n, j) <=> q \in {Primary} \cup j..NumMedia
    BY DEF ServedFrom
  <2>3. <<p, n>> \notin Library
    BY <1>5, <2>1, <2>2, ConstantsAssumption
  <2>4. ServedFrom(n, k) = Library \cup {<<p, n>>}
    <3>1. CASE k = NumMedia + 1
      BY <1>5, <2>1, <3>1, ConstantsAssumption DEF ServedFrom
    <3>2. CASE k # NumMedia + 1
      <4>1. p = k /\ {Primary} \cup k..NumMedia = ({Primary} \cup (k + 1)..NumMedia) \cup {k}
        BY <2>1, <3>2, ConstantsAssumption
      <4> HIDE DEF p
      <4> QED BY <1>5, <3>2, <4>1 DEF ServedFrom
    <3> QED BY <3>1, <3>2
  <2>5. ASSUME k = 1 PROVE ServedFrom(n, k) = Player!Paths \X {n}
    <3>1. {Primary} \cup 1..NumMedia = 0..NumMedia
      BY <2>1, ConstantsAssumption
    <3> QED BY <2>1, <2>5, <3>1 DEF ServedFrom
  <2>6. ASSUME k # 1 PROVE ServedFrom(n, k) # Player!Paths \X {n}
    <3>1. k - 1 \in 0..NumMedia /\ k - 1 \notin {Primary} \cup k..NumMedia
      BY <2>1, <2>6, ConstantsAssumption
    <3>2. <<k - 1, n>> \in Player!Paths \X {n} /\ <<k - 1, n>> \notin ServedFrom(n, k)
      BY <2>1, <2>2, <3>1
    <3> QED BY <3>2
  <2> HIDE DEF p
  <2> QED BY <1>6, <2>1, <2>3, <2>4, <2>5, <2>6
<1>8. Told' = IF k = 1 THEN [Told EXCEPT ![owner] = n] ELSE Told
  <2>1. /\ Told = [c \in Senders |-> playing[c].play] /\ Told' = [c \in Senders |-> playing'[c].play]
        /\ playing \in [Senders -> Places]
    BY DEF Told, Types
  <2>2. CASE k = 1
    <3>1. Pushed(r, list) \o stack = <<>>
      BY <1>5, <2>2
    <3>2. playing' = [playing EXCEPT ![owner] = primary]
      BY <1>1, <1>2, <1>3, <3>1 DEF ProcessMediaData, GoOn
    <3> QED BY <1>3, <2>1, <2>2, <3>2
  <2>3. CASE k # 1
    <3>1. Pushed(r, list) \o stack # <<>>
      <4>1. 1 \in 1..(k - 1)
        BY <2>3, ConstantsAssumption
      <4>2. 1 \notin DOMAIN <<>>
        OBVIOUS
      <4>3. DOMAIN (Pushed(r, list) \o stack) = 1..(k - 1)
        BY <1>5
      <4> HIDE DEF list
      <4> QED BY <4>1, <4>2, <4>3
    <3>2. UNCHANGED playing
      BY <1>1, <3>1 DEF ProcessMediaData, GoOn
    <3> QED BY <2>1, <2>3, <3>2
  <2> QED BY <2>2, <2>3
<1> QED BY <1>1, <1>2, <1>7, <1>8 DEF Player!Fetch, Player!NoPlay, NoPlay

(* What is asked of a sender that is reached. *)
LEMMA FcupGoes ==
  ASSUME EventsInv, NEW c, NEW wanted, NEW q \in FcupRequest(c, wanted)
  PROVE  /\ c \in Senders /\ q.sender = c /\ q.play = wanted.play
         /\ q.event = reverses[c] /\ q.event \in alive[c]
<1>1. c \in Senders /\ manager[c] \in alive[c]
  BY DEF FcupRequest, Reachable
<1>2. q.sender = c /\ q.event = manager[c] /\ q.play = wanted.play
  BY DEF FcupRequest
<1>3. manager[c] # NoEvent
  BY <1>1 DEF EventsInv, NoEvent
<1> QED BY <1>1, <1>2, <1>3 DEF EventsInv

(* What goes on after an answer asks the owner of the store, for what is next. *)
LEMMA NextAsked ==
  ASSUME NEW r, NEW toFetch, GoOn(r, toFetch), NEW q \in requests' \ requests
  PROVE  /\ toFetch # <<>> /\ q \in FcupRequest(owner, Head(toFetch))
         /\ UNCHANGED <<owner, primary>>
<1>1. CASE toFetch = <<>>
  BY <1>1 DEF GoOn
<1>2. CASE toFetch # <<>>
  BY <1>2 DEF GoOn
<1> QED BY <1>1, <1>2

(* What the store asks for goes to the sender that it fetches for, over the
   reversed connection that the sender uses and the receiver holds, and is for
   the playback in progress: for any number of senders, connections and
   playlists, whatever connections end, overlap or are replaced. *)
THEOREM RequestsGo == Spec => RequestsGoToTheSender
<1> DEFINE Goes(r) == /\ r.sender = owner'
                      /\ r.event = reverses'[r.sender] /\ r.event \in alive'[r.sender]
                      /\ spoiled' \/ r.play = primary'.play
<1>1. ASSUME Types, EventsInv, FetchInv, [Next]_vars, NEW q \in requests' \ requests
      PROVE  Goes(q)
  <2>1. ASSUME NEW c \in Senders, NEW a \in Apps, Play(c, PrimaryUri(a)) PROVE Goes(q)
    <3>1. /\ q \in FcupRequest(c, [play |-> plays', uri |-> PrimaryUri(a)])
          /\ owner' = c /\ primary'.play = plays'
          /\ UNCHANGED <<reverses, alive>>
      BY <1>1, <2>1 DEF Play, eventVars
    <3> QED BY <1>1, <3>1, FcupGoes
  <2>2. ASSUME NEW r \in requests, Answer(r) PROVE Goes(q)
    <3> DEFINE toFetch == Pushed(r, Playlist(r.play, GetAppId(r.uri), r.uri)) \o stack
    <3>1. GoOn(r, toFetch) /\ UNCHANGED <<reverses, alive>>
      BY <2>2 DEF Answer, ProcessMediaData, eventVars
    <3>2. ASSUME ~spoiled', toFetch # <<>> PROVE Head(toFetch).play = primary.play
      <4>1. PICK k \in 1..(NumMedia + 1) : AnsweredUpTo(r, primary.play, k)
        BY <1>1, <2>2, <3>2, AnswerStores
      <4>2. toFetch =
              [i \in 1..(k - 1) |-> [play |-> primary.play, uri |-> ListedUri(app, k - i)]]
        BY <4>1 DEF AnsweredUpTo
      <4> HIDE DEF toFetch
      <4>3. k # 1
        BY <3>2, <4>2
      <4>4. 1 \in 1..(k - 1)
        BY <4>3, ConstantsAssumption
      <4>5. toFetch[1].play = primary.play
        BY <4>2, <4>4
      <4> QED BY <4>5 DEF Head
    <3> HIDE DEF toFetch
    <3>3. toFetch # <<>> /\ q \in FcupRequest(owner, Head(toFetch)) /\ UNCHANGED <<owner, primary>>
      BY <1>1, <3>1, NextAsked
    <3> QED BY <1>1, <3>1, <3>2, <3>3, FcupGoes
  <2>3. ASSUME NEW r \in requests, AnswerWithEmptyData(r) PROVE Goes(q)
    <3>1. GoOn(r, stack) /\ UNCHANGED <<reverses, alive>> /\ spoiled'
      BY <2>3 DEF AnswerWithEmptyData, ProcessNoData, eventVars
    <3>2. q \in FcupRequest(owner, Head(stack)) /\ UNCHANGED <<owner, primary>>
      BY <1>1, <3>1, NextAsked
    <3> QED BY <1>1, <3>1, <3>2, FcupGoes
  <2>4. CASE requests' \subseteq requests
    BY <1>1, <2>4
  <2> HIDE DEF Goes
  <2> QED BY <1>1, <2>1, <2>2, <2>3, <2>4
          DEF Next, vars, ServerInfo, EndSession, PostReverse, DropEvent, PlayNormal, Stop,
              AnswerWithoutData
<1>2. Types /\ EventsInv /\ FetchInv /\ [Next]_vars =>
        [\A r \in requests' \ requests :
           /\ r.sender = owner'
           /\ r.event = reverses'[r.sender] /\ r.event \in alive'[r.sender]
           /\ spoiled' \/ r.play = primary'.play]_vars
  BY <1>1
<1> QED BY <1>2, TypesHold, EventsHold, FetchHolds, PTL DEF Spec, RequestsGoToTheSender

(* What every other step does to what the player sees. *)
LEMMA OtherSteps ==
  ASSUME Types, Next,
         ~\E r \in requests : Answer(r) \/ AnswerWithEmptyData(r) \/ AnswerWithoutData(r)
  PROVE  /\ UNCHANGED spoiled
         /\ \/ \E c \in Senders : \/ Player!Ask(c) \/ Player!AskElsewhere(c)
                                  \/ Player!Stop(c) \/ Player!End(c)
            \/ UNCHANGED Player!vars
<1>1. Told = [c \in Senders |-> playing[c].play] /\ Told' = [c \in Senders |-> playing'[c].play]
  BY DEF Told
<1>2. Nothing.play = Player!NoPlay /\ NoSender = Player!NoSender
  BY DEF Nothing, NoPlay, Player!NoPlay, NoSender, Player!NoSender
<1>3. UNCHANGED media => UNCHANGED Library
  BY DEF Library
<1>4. UNCHANGED playing => UNCHANGED Told
  BY <1>1
<1>5. ASSUME NEW c \in Senders, NEW v, playing' = [playing EXCEPT ![c] = v]
      PROVE  Told' = [Told EXCEPT ![c] = v.play]
  BY <1>1, <1>5 DEF Types
<1>6. media' = <<>> => Library' = {}
  BY DEF Library
<1>7. ASSUME NEW c \in Senders, ServerInfo(c) \/ PostReverse(c) \/ \E e \in alive[c] : DropEvent(c, e)
      PROVE  UNCHANGED spoiled /\ UNCHANGED Player!vars
  BY <1>3, <1>4, <1>7 DEF ServerInfo, PostReverse, DropEvent, storeVars, Player!vars
<1>8. ASSUME NEW c \in Senders, EndSession(c)
      PROVE  UNCHANGED spoiled /\ Player!End(c)
  <2>1. /\ UNCHANGED <<spoiled, plays, primary, owner, media>>
        /\ playing' = [playing EXCEPT ![c] = Nothing]
    BY <1>8 DEF EndSession, storeVars
  <2> QED BY <1>2, <1>3, <1>5, <2>1 DEF Player!End
<1>9. ASSUME Reset PROVE Player!Empty
  BY <1>2, <1>6, <1>9 DEF Reset, Player!Empty
<1>10. ASSUME NEW c \in Senders, Stop(c)
       PROVE  UNCHANGED spoiled /\ Player!Stop(c)
  BY <1>2, <1>5, <1>9, <1>10 DEF Stop, Player!Stop
<1>11. ASSUME NEW c \in Senders, NEW uri \in Elsewhere, PlayNormal(c, uri)
       PROVE  UNCHANGED spoiled /\ Player!AskElsewhere(c)
  <2>1. /\ plays' = plays + 1 /\ Reset /\ UNCHANGED spoiled
        /\ playing' = [playing EXCEPT ![c] = [play |-> plays', uri |-> uri]]
    BY <1>11 DEF PlayNormal, Ask
  <2>2. \A n : [play |-> n, uri |-> uri].play = n
    OBVIOUS
  <2>3. Told' = [Told EXCEPT ![c] = plays']
    <3>1. PICK v : playing' = [playing EXCEPT ![c] = v] /\ v.play = plays'
      BY <2>1, <2>2, Zenon
    <3> QED BY <1>5, <3>1
  <2>4. UNCHANGED spoiled /\ plays' = plays + 1 /\ Player!Empty
    BY <1>9, <2>1
  <2> QED BY <2>3, <2>4 DEF Player!AskElsewhere
<1>12. ASSUME NEW c \in Senders, NEW a \in Apps, Play(c, PrimaryUri(a))
       PROVE  UNCHANGED spoiled /\ Player!Ask(c)
  BY <1>4, <1>6, <1>12 DEF Play, Ask, Player!Ask
<1> QED BY <1>7, <1>8, <1>10, <1>11, <1>12 DEF Next

(* For any number of senders and playlists and either way of writing URIs, the
   player sees what CastingPlayer promises: playlists of one playback, which are
   all there when the application is told to play, and stay. *)
THEOREM ImplementsPlayer == Spec => PlayerSpec
<1>1. Init => Player!Init
  BY DEF Init, Player!Init, Nothing, NoPlay, NoSender, Player!NoPlay, Player!NoSender, Library, Told
<1>2. Types /\ FetchInv /\ [Next]_vars => [Player!Next]_(Player!vars)
  <2> SUFFICES ASSUME Types, FetchInv, [Next]_vars
               PROVE  Player!Next \/ UNCHANGED Player!vars
    OBVIOUS
  <2>1. CASE spoiled'
    BY <2>1 DEF Player!Next
  <2>2. ASSUME NEW r \in requests, Answer(r), ~spoiled' PROVE Player!Next
    <3>1. \E p \in Player!Paths : Player!Fetch(p)
      BY <2>2, AnswerServes
    <3>2. UNCHANGED spoiled
      BY <2>2 DEF Answer, Types
    <3> QED BY <3>1, <3>2 DEF Player!Next, Player!Promised
  <2>3. ASSUME NEW r \in requests, AnswerWithEmptyData(r) \/ AnswerWithoutData(r)
        PROVE  spoiled'
    BY <2>3 DEF AnswerWithEmptyData, AnswerWithoutData
  <2>4. CASE UNCHANGED vars
    BY <2>4 DEF vars, storeVars, Player!vars, Library, Told
  <2>5. CASE Next /\ ~\E r \in requests : \/ Answer(r)
                                         \/ AnswerWithEmptyData(r) \/ AnswerWithoutData(r)
    BY <2>5, OtherSteps DEF Player!Next, Player!Promised
  <2> QED BY <2>1, <2>2, <2>3, <2>4, <2>5
<1> QED BY <1>1, <1>2, TypesHold, FetchHolds, PTL DEF Spec, PlayerSpec, Player!Spec
=============================================================================
