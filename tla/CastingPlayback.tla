-------------------------- MODULE CastingPlayback ---------------------------
(***************************************************************************)
(* How a casting sender makes the receiver play a stream whose playlists   *)
(* only the sender can fetch (URIs mlhls:// and nfhls://).                 *)
(*                                                                         *)
(* A sender opens two connections: on one it posts /play, /action and      *)
(* /stop; on the other it posts /reverse, after which the receiver is the  *)
(* client there.  ap_casting_event_connection_manager finds the reversed   *)
(* connection of a session by its X-Apple-Session-ID.  On /play,           *)
(* ap_casting_media_data_store, a singleton shared by all connections,     *)
(* asks over the reversed connection (an FCUP request) for the primary     *)
(* playlist; the sender answers with POST /action.  The store then asks    *)
(* for each playlist that the primary lists, one after the other, and when *)
(* none is left the application is told to play the primary's URI, which   *)
(* ap_casting_media_http_service serves from the store.                    *)
(*                                                                         *)
(* All connections of the AirPlay service are handled by one thread, so    *)
(* that every request handler is one step.  A URI is its scheme, its host  *)
(* and its path, a playlist the URIs that it lists: path 0 is the primary, *)
(* which is what master.m3u8 and index.m3u8 say, 1..NumMedia are those it  *)
(* lists, Segment is what these list.  Every playback uses the same paths, *)
(* as the mlhls scheme does (mlhls://localhost/master.m3u8 is every        *)
(* playback's primary), so that a playlist also says which playback it is  *)
(* of.                                                                     *)
(***************************************************************************)
EXTENDS Naturals, SequencesExt

CONSTANTS
  Senders,        \* senders, each with its X-Apple-Session-ID
  NumMedia,       \* playlists that a primary playlist lists
  MaxPlays,       \* bound: playbacks, over all senders
  MaxReverses,    \* bound: reversed connections of a sender ...
  Reconnecting,   \* ... of these; any other opens one
  EventsMayDrop,  \* may reversed connections break?
  AnswersMayFail  \* may a sender answer without the data?

ASSUME ConstantsAssumption ==
  /\ NumMedia \in Nat
  /\ MaxPlays \in Nat
  /\ MaxReverses \in Nat
  /\ Reconnecting \subseteq Senders
  /\ EventsMayDrop \in BOOLEAN
  /\ AnswersMayFail \in BOOLEAN

VARIABLES
  session,   \* per sender, its session: "none", "begun" or "ended"
  latest,    \* per sender, the playback it wants, NoPlay if none
  reverses,  \* per sender, reversed connections opened so far; the last one
             \* is the one the sender uses
  alive,     \* per sender, its reversed connections that the receiver holds
  manager,   \* event_connection_map_: per sender, a connection or NoEvent
  requests,  \* FCUP requests sent and not answered
  spoiled,   \* a request has been answered when the store had left its playback,
             \* for another one or none, or without data (history variable)
  plays,     \* playbacks posted so far
  app,       \* app_id_: whose way of writing URIs the store recognises
  primary,   \* primary_uri_, with the playback that it belongs to
  owner,     \* session_id_ of the store
  stack,     \* uri_stack_, its top first, with the playback of each
  media,     \* media_data_: the playlist stored for each URI path
  playing    \* per sender, the playback in on_video_play and the URI given,
             \* until on_video_stop

senderVars == <<session, latest>>
eventVars  == <<reverses, alive, manager>>
storeVars  == <<app, primary, owner, stack, media>>
vars == <<senderVars, eventVars, requests, spoiled, plays, storeVars, playing>>

Plays    == 1..MaxPlays
NoPlay   == 0
NoEvent  == 0
NoSender == "none"

Apps       == {"youtube", "netflix"}
UnknownApp == "unknown"

Primary == 0
Segment == NumMedia + 1

Uri(scheme, host, path) == [scheme |-> scheme, host |-> host, path |-> path]

(* set_store_root: where the player finds the media server. *)
StoreHost == "localhost:port"

(* What is played: nothing, or a URI that the store knows nothing of, or the
   empty location. *)
Nowhere   == Uri("", "", Primary)
Nothing   == [play |-> NoPlay, uri |-> Nowhere]
Elsewhere == {Uri("https", "cdn", Segment), Nowhere}

(* The URIs as the two applications write them. *)
PrimaryUri(a)  == IF a = "youtube" THEN Uri("mlhls", "localhost", Primary)
                                   ELSE Uri("nfhls", "localhost", Primary)
ListedUri(a, p) == IF a = "youtube" THEN Uri("mlhls", "localhost", p) ELSE Uri("nfhls", "", p)

(* The playlist that a sender gives for a URI.  The secondary ones of YouTube
   list segments by a prefix, and say where the prefix is to be looked for. *)
NoBase   == ""
Playlist(n, a, uri) ==
  IF uri.path = Primary
  THEN [play |-> n, base |-> NoBase, lists |-> [p \in 1..NumMedia |-> ListedUri(a, p)]]
  ELSE IF a = "youtube"
  THEN [play |-> n, base |-> "cdn", lists |-> <<Uri("", "", Segment)>>]
  ELSE [play |-> n, base |-> NoBase, lists |-> <<Uri("https", "cdn", Segment)>>]

Init ==
  /\ session = [c \in Senders |-> "none"]
  /\ latest = [c \in Senders |-> NoPlay]
  /\ reverses = [c \in Senders |-> 0]
  /\ alive = [c \in Senders |-> {}]
  /\ manager = [c \in Senders |-> NoEvent]
  /\ requests = {}
  /\ spoiled = FALSE
  /\ plays = 0
  /\ app = UnknownApp
  /\ primary = Nothing
  /\ owner = NoSender
  /\ stack = <<>>
  /\ media = <<>>
  /\ playing = [c \in Senders |-> Nothing]

-----------------------------------------------------------------------------
(* The sessions and their reversed connections. *)

(* GET /server-info: on_session_begin, in which the application sets the
   handler of the session. *)
ServerInfo(c) ==
  /\ session[c] = "none"
  /\ session' = [session EXCEPT ![c] = "begun"]
  /\ UNCHANGED <<latest, eventVars, requests, spoiled, plays, storeVars, playing>>

(* The control connection is destroyed.  The store is not told. *)
EndSession(c) ==
  /\ session[c] = "begun"
  /\ session' = [session EXCEPT ![c] = "ended"]
  /\ latest' = [latest EXCEPT ![c] = NoPlay]
  /\ playing' = [playing EXCEPT ![c] = Nothing]
  /\ UNCHANGED <<eventVars, requests, spoiled, plays, storeVars>>

(* The bound. *)
MayReverse(c) == reverses[c] < IF c \in Reconnecting THEN MaxReverses ELSE 1

(* Wrong: insert keeps the entry of the session that there is. *)
ReverseKeepsEntry(c) ==
  /\ MayReverse(c)
  /\ reverses' = [reverses EXCEPT ![c] = @ + 1]
  /\ alive' = [alive EXCEPT ![c] = @ \cup {reverses'[c]}]
  /\ manager' = IF manager[c] = NoEvent THEN [manager EXCEPT ![c] = reverses'[c]] ELSE manager
  /\ UNCHANGED <<senderVars, requests, spoiled, plays, storeVars, playing>>

(* POST /reverse: insert overwrites the entry of the session. *)
PostReverse(c) ==
  /\ MayReverse(c)
  /\ reverses' = [reverses EXCEPT ![c] = @ + 1]
  /\ alive' = [alive EXCEPT ![c] = @ \cup {reverses'[c]}]
  /\ manager' = [manager EXCEPT ![c] = reverses'[c]]
  /\ UNCHANGED <<senderVars, requests, spoiled, plays, storeVars, playing>>

(* The receiver finds a reversed connection closed and destroys it: remove
   erases the entry of the session, whichever connection it leads to.  The
   sender answers on its other connection, and may have read the requests. *)
DropEvent(c, e) ==
  /\ EventsMayDrop
  /\ e \in alive[c]
  /\ alive' = [alive EXCEPT ![c] = @ \ {e}]
  /\ manager' = [manager EXCEPT ![c] = NoEvent]
  /\ \E unread \in SUBSET {r \in requests : r.sender = c /\ r.event = e} :
       requests' = requests \ unread
  /\ UNCHANGED <<senderVars, reverses, spoiled, plays, storeVars, playing>>

(* get: the manager's entry, if the connection still exists. *)
Reachable(c) == c \in Senders /\ manager[c] \in alive[c]

(* send_fcup_request, for a URI of a playback: nothing is sent, and nobody is
   told, when there is no reversed connection for the session. *)
FcupRequest(c, wanted) ==
  IF Reachable(c)
  THEN {[sender |-> c, event |-> manager[c], play |-> wanted.play, uri |-> wanted.uri]}
  ELSE {}

-----------------------------------------------------------------------------
(* The URIs and playlists, as the store rewrites them. *)

GetAppId(uri) ==
  CASE uri.scheme = "mlhls" -> "youtube"
    [] uri.scheme = "nfhls" -> "netflix"
    [] OTHER -> UnknownApp

IsPrimaryDataUri(uri) == uri.path = Primary

(* string_replace, on the scheme and on the host of a URI. *)
Rescheme(uri, schemes, scheme) ==
  IF uri.scheme \in schemes THEN Uri(scheme, uri.host, uri.path) ELSE uri
Rehost(uri, host) == IF uri.host = "localhost" THEN Uri(uri.scheme, host, uri.path) ELSE uri

AdjustPrimaryUri(uri) == Rehost(Rescheme(uri, {"mlhls", "nfhls"}, "http"), StoreHost)

(* Wrong: only a YouTube URI loses its host. *)
ExtractPathKeepingHost(uri) ==
  CASE app = "youtube" -> Rehost(Rescheme(uri, {"mlhls", "nfhls"}, ""), "")
    [] app = "netflix" -> Rescheme(uri, {"nfhls"}, "")
    [] OTHER -> uri

(* extract_uri_path: the case of YouTube falls through to that of Netflix.
   After a reset the URI is left as it is: its data is kept where nobody asks. *)
ExtractUriPath(uri) ==
  CASE app = "youtube" -> Rehost(Rescheme(uri, {"mlhls", "nfhls"}, ""), "")
    [] app = "netflix" -> Rehost(Rescheme(uri, {"nfhls"}, ""), "")
    [] OTHER -> uri

AdjustMlhlsData(uri) == Rehost(Rescheme(uri, {"mlhls"}, "http"), StoreHost)

AdjustNfhlsData(uri) ==
  IF uri.scheme = "nfhls" THEN Uri("http", StoreHost, uri.path) ELSE uri

AdjustPrimaryMediaData(list) ==
  [list EXCEPT !.lists = [i \in DOMAIN @ |->
     CASE app = "youtube" -> AdjustMlhlsData(@[i])
       [] app = "netflix" -> AdjustNfhlsData(@[i])
       [] OTHER -> @[i]]]

(* The prefix of a segment is completed with the base that the list names. *)
AdjustSecondaryMediaData(list) ==
  IF list.base = NoBase
  THEN list
  ELSE [list EXCEPT !.lists = [i \in DOMAIN @ |->
          IF @[i].scheme = "" THEN Uri("https", list.base, @[i].path) ELSE @[i]]]

-----------------------------------------------------------------------------
(* Playback. *)

Reset ==
  /\ app' = UnknownApp
  /\ primary' = Nothing
  /\ owner' = NoSender
  /\ stack' = <<>>
  /\ media' = <<>>

(* What a sender posts /play for becomes what it wants. *)
Ask(c) ==
  /\ session[c] = "begun"
  /\ plays < MaxPlays
  /\ plays' = plays + 1
  /\ latest' = [latest EXCEPT ![c] = plays']

(* Wrong: the data of the playback before is kept. *)
PlayKeepingData(c, uri) ==
  /\ Ask(c)
  /\ reverses[c] \in alive[c]
  /\ app' = GetAppId(uri)
  /\ primary' = [play |-> plays', uri |-> AdjustPrimaryUri(uri)]
  /\ owner' = c
  /\ stack' = <<>>
  /\ requests' = requests \cup FcupRequest(c, [play |-> plays', uri |-> uri])
  /\ UNCHANGED <<session, eventVars, media, playing, spoiled>>

(* POST /play of a URI that the sender must fetch.  A sender posts it when it
   has a reversed connection. *)
Play(c, uri) ==
  /\ Ask(c)
  /\ reverses[c] \in alive[c]
  /\ app' = GetAppId(uri)
  /\ primary' = [play |-> plays', uri |-> AdjustPrimaryUri(uri)]
  /\ owner' = c
  /\ stack' = <<>>
  /\ media' = <<>>
  /\ requests' = requests \cup FcupRequest(c, [play |-> plays', uri |-> uri])
  /\ UNCHANGED <<session, eventVars, playing, spoiled>>

(* POST /play of any other URI: the application fetches it.  A /play in text
   without a Start-Position has no location either. *)
PlayNormal(c, uri) ==
  /\ Ask(c)
  /\ Reset
  /\ playing' = [playing EXCEPT ![c] = [play |-> plays', uri |-> uri]]
  /\ UNCHANGED <<session, eventVars, requests, spoiled>>

(* Wrong: the store is not reset. *)
StopOnly(c) ==
  /\ session[c] = "begun"
  /\ latest[c] # NoPlay
  /\ latest' = [latest EXCEPT ![c] = NoPlay]
  /\ playing' = [playing EXCEPT ![c] = Nothing]
  /\ UNCHANGED <<session, eventVars, requests, spoiled, plays, storeVars>>

(* POST /stop. *)
Stop(c) ==
  /\ session[c] = "begun"
  /\ latest[c] # NoPlay
  /\ latest' = [latest EXCEPT ![c] = NoPlay]
  /\ Reset
  /\ playing' = [playing EXCEPT ![c] = Nothing]
  /\ UNCHANGED <<session, eventVars, requests, spoiled, plays>>

(* The URIs that a primary playlist lists, each pushed on the stack in turn. *)
Pushed(r, list) ==
  IF IsPrimaryDataUri(r.uri)
  THEN Reverse([i \in DOMAIN list.lists |-> [play |-> r.play, uri |-> list.lists[i]]])
  ELSE <<>>

(* Wrong: the top is not popped. *)
Kept(toFetch) == toFetch

(* uri_stack_.pop(). *)
Popped(toFetch) == Tail(toFetch)

(* The end of process_media_data: the next URI is asked for or, when there is
   none, on_video_play called in the session of the connection that brought the
   answer. *)
GoOn(r, toFetch) ==
  /\ IF toFetch = <<>>
     THEN /\ playing' = IF primary = Nothing THEN playing
                                             ELSE [playing EXCEPT ![r.sender] = primary]
          /\ requests' = requests \ {r}
          /\ UNCHANGED stack
     ELSE /\ requests' = (requests \ {r}) \cup FcupRequest(owner, Head(toFetch))
          /\ stack' = Popped(toFetch)
          /\ UNCHANGED playing
  /\ UNCHANGED <<app, primary, owner>>

(* process_media_data, of a playlist ... *)
ProcessMediaData(r, list) ==
  LET path     == ExtractUriPath(r.uri)
      adjusted == IF IsPrimaryDataUri(r.uri) THEN AdjustPrimaryMediaData(list)
                                             ELSE AdjustSecondaryMediaData(list)
  IN
  /\ media' = [p \in DOMAIN media \cup {path} |-> IF p = path THEN adjusted ELSE media[p]]
  /\ GoOn(r, Pushed(r, list) \o stack)

(* ... and of no data, which lists nothing and is not stored. *)
ProcessNoData(r) ==
  /\ UNCHANGED media
  /\ GoOn(r, stack)

(* POST /action, the sender's answer to a request.  Its id is not looked at. *)
Answer(r) ==
  /\ session[r.sender] = "begun"
  /\ spoiled' = (spoiled \/ r.play # primary.play)
  /\ ProcessMediaData(r, Playlist(r.play, GetAppId(r.uri), r.uri))
  /\ UNCHANGED <<senderVars, eventVars, plays>>

(* POST /action whose data is empty. *)
AnswerWithEmptyData(r) ==
  /\ AnswersMayFail
  /\ session[r.sender] = "begun"
  /\ spoiled' = TRUE
  /\ ProcessNoData(r)
  /\ UNCHANGED <<senderVars, eventVars, plays>>

(* POST /action without FCUP_Response_Data, as when the sender could not fetch
   it: 400, and the rest is never asked for. *)
AnswerWithoutData(r) ==
  /\ AnswersMayFail
  /\ session[r.sender] = "begun"
  /\ spoiled' = TRUE
  /\ requests' = requests \ {r}
  /\ UNCHANGED <<senderVars, eventVars, plays, storeVars, playing>>

Next ==
  \/ \E c \in Senders :
       \/ ServerInfo(c) \/ EndSession(c)
       \/ PostReverse(c) \/ \E e \in alive[c] : DropEvent(c, e)
       \/ \E a \in Apps : Play(c, PrimaryUri(a))
       \/ \E uri \in Elsewhere : PlayNormal(c, uri)
       \/ Stop(c)
  \/ \E r \in requests : Answer(r) \/ AnswerWithEmptyData(r) \/ AnswerWithoutData(r)

Spec == Init /\ [][Next]_vars

(* A sender answers what it is asked, on the reversed connection that it uses,
   for the playback that it wants. *)
Wanted(r) ==
  /\ r.play = latest[r.sender]
  /\ r.event = reverses[r.sender]

FairSpec ==
  /\ Spec
  /\ \A c \in Senders :
       WF_vars(\E r \in requests : r.sender = c /\ Wanted(r) /\ Answer(r))

-----------------------------------------------------------------------------
(* query_media_data. *)
NoPlaylist == [play |-> NoPlay, base |-> NoBase, lists |-> <<>>]
QueryMediaData(path) == IF path \in DOMAIN media THEN media[path] ELSE NoPlaylist

(* GET of a path from the media server: 404 when the store has nothing. *)
GetHandler(path) ==
  LET list == QueryMediaData(path) IN
  [status |-> IF list = NoPlaylist THEN 404 ELSE 200, content |-> list]

(* What the player gets for a URI that leads to the media server. *)
Fetched(uri) == GetHandler(Uri("", "", uri.path))

(* The player can use a URI while playing n: it leads to another server, or to
   the media server, which has a playlist of n there. *)
Leads(uri, n) ==
  \/ uri.scheme = "https"
  \/ /\ uri.scheme = "http" /\ uri.host = StoreHost
     /\ Fetched(uri).status = 200
     /\ Fetched(uri).content.play = n

(* "no more data": when the application is told to play what the store
   fetched, the location leads to the media server, and so does whatever the
   player finds in the playlists that it is served, for either way of writing
   URIs.  A late answer, whose id nobody compares, breaks this. *)
PlaysWhenFetched ==
  ~spoiled => \A c \in Senders :
    LET now == playing[c]
        top == Fetched(now.uri).content.lists IN
    now = primary /\ now # Nothing =>
      /\ Leads(now.uri, now.play)
      /\ \A i \in DOMAIN top :
           /\ Leads(top[i], now.play)
           /\ \A uri \in Range(Fetched(top[i]).content.lists) : Leads(uri, now.play)

(* A session is told to play only what its own sender asked for last: neither
   what it replaced, nor what it stopped, nor what another sender asked for,
   unless it answers late while the store fetches for that other sender. *)
PlaysTheLatest ==
  [][\A c \in Senders :
       \/ playing'[c].play \in {playing[c].play, NoPlay, latest'[c]}
       \/ spoiled' /\ owner \in Senders \ {c}]_vars

(* The playlists of a playback are fetched one at a time and each once, unless
   an answer comes late. *)
FetchesOnce ==
  ~spoiled => \A r \in requests :
    /\ \A q \in requests : q.play = r.play => q = r
    /\ r.play = primary.play => QueryMediaData(ExtractUriPath(r.uri)) = NoPlaylist

(* "Represents the manager of the reversed HTTP connections": whichever of them
   have ended, been replaced or overlap, what the store asks for goes to the
   sender that it fetches for, over the connection that this sender uses now and
   the receiver still holds, never over one that it has replaced; and it is for
   the playback in progress, unless an answer has come late or without data.
   (That something is sent at all is not said: the end of a connection that has
   been replaced removes the entry of its successor.) *)
RequestsGoToTheSender ==
  [][\A r \in requests' \ requests :
       /\ r.sender = owner'
       /\ r.event = reverses'[r.sender] /\ r.event \in alive'[r.sender]
       /\ spoiled' \/ r.play = primary'.play]_vars

(* The playlists that are served, each with the playback that it belongs to. *)
Library == {<<key.path, media[key].play>> : key \in DOMAIN media}

(* The playback that each session has been told to play. *)
Told == [c \in Senders |-> playing[c].play]

(* The application's player sees what CastingPlayer promises. *)
Player == INSTANCE CastingPlayer WITH
  source  <- primary.play,
  asker   <- owner,
  library <- Library,
  told    <- Told
PlayerSpec == Player!Spec

(* What a sender asks for is eventually played, unless the sender changes its
   mind or leaves, an answer comes late or without data, its reversed connection
   breaks or it opens another, or the store turns to another sender. *)
PlayStarts ==
  \A c \in Senders, n \in Plays :
    latest[c] = n ~> (\/ playing[c].play = n \/ latest[c] # n
                      \/ spoiled \/ alive[c] = {} \/ reverses[c] > 1
                      \/ owner \in Senders \ {c})
=============================================================================
