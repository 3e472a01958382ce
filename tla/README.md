# A TLA+ verification of the AirPlay receiver SDK

The repository is a C++ library that makes an application an AirPlay receiver:
it advertises itself over multicast DNS, takes RTSP and HTTP requests from
senders, and hands mirrored video and audio, or the URI of a video to be cast,
to handlers that the application registers.  This directory holds TLA+ models
of its own core logic, TLC configurations that check them on small instances,
and TLAPS proofs for every value of the constants.  Vendored code (asio,
hlsparse, the ciphers, the FairPlay code) and the demo are read only as far as
the core uses them; of the language wrappers, the part that keeps sessions and
handlers alive is modelled.

Contents: [the system](#the-system), [the modules](#the-modules),
[the runs](#the-runs), [bounds](#bounds), [fairness](#fairness),
[proofs](#proofs), [divergences found](#divergences-found),
[what is not shown](#what-is-not-shown), [plan](#plan).

## The system

Paths are relative to `src/src/` unless they start with `src/`.

### Threads

Every service owns an asio `io_context` and one thread that runs it, so that the
handlers of one service never overlap, and the handlers of two services do:

| thread | runs |
| --- | --- |
| AirPlay service (`ap_airplay_service`) | all control connections, RTSP and HTTP: accept, read, request handlers, most callbacks of the application |
| video service, one per mirroring session | its single TCP connection, `on_video_stream_*` data callbacks |
| audio service, one per mirroring session | a UDP socket for data and one for control, `on_audio_stream_data` |
| timing service, one per control connection | UDP queries to the sender's clock |
| media service (`ap_casting_media_http_service`) | HTTP requests of the application's own player for rewritten playlists |
| the application's threads | `ap_server::start/stop`, `set_*_handler`, `disconnect`, release of an `ap_session_ptr` |

Services are stopped by `io_context::stop()` followed by a join of their thread
(`tcp_service_base::cleanup`, `udp_service_base::close`).

### Components

| component | state it keeps | operations | interacts by | what makes it correct |
| --- | --- | --- | --- | --- |
| **Server** `ap_server.cpp` | the AirPlay and media services, two `net_service`s | `start`, `stop`, deletion | calls services and mDNS from an application thread | what is advertised can be connected to; a stopped or failed server leaves nothing behind; `start` tells the truth |
| **mDNS publication** `mdns/` | a DNS-SD reference per service type | `publish`, `suppress` | operating system | each registration is given back exactly once |
| **TCP / UDP service** `network/tcp_service.h`, `udp_service.h` | acceptor or socket, thread | start, accept loop, cleanup | base of all services | stopping waits for callbacks and ends |
| **XTXP connection** `network/xtxp_connection_base.cpp` | `in_stream_`, `out_stream_`, `request_`, `is_reversed_` | read head, read content, dispatch, answer, reverse, stop | base of the control and media connections | messages are cut correctly however TCP fragments them; requests are answered; a dead connection is noticed |
| **Message parser** `network/xtxp_message.h` | state machine over a head | `parse` | called by the connection | accepts what senders write, no state of one message leaks into the next |
| **Mirroring session** `service/ap_airplay_service.cpp` | session type, handler, two stream services, crypto, timing | SETUP, RECORD, TEARDOWN, end of connection | creates and joins stream threads, calls the application | callbacks come in order and never after their end, the end is reported once, threads never outlive their data |
| **Audio stream** `service/ap_mirroring_audio_stream_service.cpp` | `expected_seq_`, `cached_queue_` | arrival of a packet, flush of the cache | UDP, `on_audio_stream_data` | in-order playout, bounded wait, no stall |
| **Video stream** `service/ap_mirroring_video_stream_service.cpp` | header, payload buffer | header, payload, error | one TCP connection | data only between start and stop |
| **Casting session** same file as mirroring | handler, start position | `/server-info`, `/reverse`, `/play`, `/action`, `/stop`, `/rate`, `/scrub`, `/playback-info` | store, manager, application | the application plays what its sender asked for |
| **Media data store** `service/ap_casting_media_data_store.cpp` | singleton: primary URI, stack of URIs to fetch, fetched playlists | `request_media_data`, `process_media_data`, `query_media_data`, `reset` | asks the sender over the reversed connection, serves the media service from another thread | every playlist fetched once and all there when playback starts |
| **Reversed connection manager** `service/ap_casting_event_connection_manager.cpp` | singleton: session id to connection | `insert`, `remove`, `get` | control connections | leads to the connection that the sender uses |
| **Pairing and crypto** `crypto/` | key pairs, shared secrets, AES contexts | pair-setup, pair-verify, fp-setup, key derivation, decryption | control thread sets keys that stream threads use, without a lock | both ends have the same keys at the same positions; no cipher changes under its user |
| **Timing service** `service/ap_mirroring_timing_sync_service.cpp` | remote endpoint, one query and one reply packet | query on RECORD | UDP, endpoint set by SETUP on another thread | the query goes to the clock of the sender, the reply is left readable |
| **Property lists** `utils/plist.cpp` | none | binary plist codec | request handlers | what is written is read back |
| **Content parser** `service/ap_casting_content_parser.cpp` | none | text matching | `/play`, `/scrub`, `/rate` | a request without its value calls nobody |
| **Configuration, logger, utilities** | option values | getters | everywhere; the answer of `/info` | what a sender reads of them is what was set |
| **Apple and Android wrappers** `src/platforms/` | references between languages, native peers, proxies | wrap a session, set a handler, forward calls and callbacks | the C++ API, the virtual machine | the end of every session is reported; nothing deleted is used |
| **Demo** `src/demo/` | - | shows how handlers are registered | - | - |

### What is hard about it

* **Threads and lifetimes**: a connection lives as long as a read is posted on
  it or the application holds it; its destructor calls the application and
  joins stream threads that call the application too.
* **The network**: UDP reorders, loses and duplicates; TCP cuts messages
  anywhere; a sender leaves in any state, with or without closing.
* **Singletons**: one store and one connection manager serve all senders.
* **A conversation over three connections** for casting: a request on one is
  answered by a request on another, and nothing relates the two.
* **16-bit sequence numbers**, with 0 as "none yet".
* **State shared by threads without locks**: ciphers, the endpoint and the
  packets of the timing service, the store.
* **Two memory managements**: sessions and handlers are held from C++ and from
  Java or Objective-C, each with its own idea of who keeps what alive.
* **Failure half way**: publication, sockets, accepts.

`PROJECT.json` lists each such hazard at the line where it bites, with the
properties that watch it, or the reason why none does.

## The modules

| module | models | state | main actions |
| --- | --- | --- | --- |
| `AudioPlayout` | *abstract*: what an application may rely on for audio | packets emitted, copies made by UDP, packets played | `Emit`, `Copy`, `Play` |
| `AudioStream` | data path of the audio service and its UDP network; implements `AudioPlayout` | `expected` = `expected_seq_`, `cached` = `cached_queue_`, `mode` = position in `process_cached_packet`, network | `DataHandler` (`Deliver`, `CachePacket`, `Flush`, `Abandon`), `Pop`/`LoopEnds`, `RecvError`, `Send`, `Lose`, `Duplicate` |
| `AudioStreamProofs` | theorems about `AudioStream` | | |
| `StreamCallbacks` | *abstract*: the order of the callbacks of a stream | last notification, callback running | `Started`, `Stopped`, `DataBegins`, `DataEnds` |
| `MirroringSession` | a mirroring session: control connection, two stream services with their threads, the application; implements `StreamCallbacks` | `conn`, `svc`, `thread`, `captured` = the service's `handler_`, `handler` = `mirroring_session_handler_`, `stopping`, `abrupt` (history) | `SetupSession`, `SetupStream`, `Teardown`, `Close`, `StopThread`, `Joined`, `Destroy`, `DestroyMember`, `Accept`, `LinkDown`, `BeginData`, `EndData`, `SetHandler`, `Release` |
| `MirroringSessionProofs` | theorems about `MirroringSession` | | |
| `TimingSync` | the timing service: two threads, one endpoint, one packet | `endpoint` = `remote_endpoint_`, `packet` = `reply_packet_`, queries, receives and completions under way | `SetServerEndpoint`, `PostSendQuery`, `OnSendTo`, `Receive`, `OnRecvFrom`, `Reply`, `Lose` |
| `MirroringKeys` | the requests of a mirroring session that agree upon keys, `ap_crypto`, and the streams' threads that decrypt; composed with `TimingSync` | `identity`, `curve`, `secret`, `verifyCtr`, `fpMessage`, `clientKey`, `clientIv`, `videoCtr`: the members of `ap_crypto`; the sender's end of each | `PairSetup`, `FirstFrame`, `SecondFrame`, `PostFpSetup`, `SetupSession`, `SetupVideo`, `SetupAudio`, `Record`, `Teardown`, `BeginDecrypt`, `DecryptVideoFrame`, `DecryptAudioData` |
| `MCMirroringKeys` | the instances of the run `MirroringKeys` | | |
| `CastingPlayer` | *abstract*: what an application's player may rely on for casting | playback asked for and by whom, playlists served, what each session was told to play | `Ask`, `AskElsewhere`, `Fetch`, `Stop`, `End` |
| `CastingPlayback` | casting requests, store, manager, what the media server gives the player; implements `CastingPlayer` | `app` = `app_id_`, `primary` = `primary_uri_`, `stack` = `uri_stack_`, `media` = `media_data_`, `manager` = `event_connection_map_` | `ServerInfo`, `PostReverse`, `Play`, `PlayNormal`, `Stop`, `Answer`, `AnswerWithEmptyData` and `AnswerWithoutData` (`/action`), `DropEvent`, `EndSession` |
| `CastingPlaybackProofs` | theorems about `CastingPlayback` | | |
| `SessionBindings` | sessions and handlers through the wrappers of Android and of Apple's systems, with the casting requests that only call the application | `service`, `conn`, `handler`, `captured`, `wrappers` (with their native peers), proxies, `callback`, `call` | `SessionBegin`, `SetSessionHandler`, `CastingEvent`, `MirroringEvent`, `StreamEvent`, `EndCallback`, `BeginCall`, `EndCall`, `Forget`, `Finalize`, `Close`, `Stop`, `Stopped`, `Start` |
| `SessionProofs` | theorems about `SessionBindings`, `MirroringKeys` and `TimingSync` | | |
| `RequestRoutes` | the table of routes: registration, look-up, the routes themselves | none | |
| `XtxpConnection` | a connection: framing, routing, reversal, responses and errors; uses `RequestRoutes` | `received`, `consumed` (so `in_stream_` is what lies between), `phase` = the read that is posted, `requestLen`, `reversed`, `drained` and `answers` (`out_stream_`), `writes` under way, `ready` = handlers to run | `Receive`, `OnMessageHeadReceived`, `OnMessageContentReceived`, `ReadFails`, `Transmit`, `OnResponseSent`, `WriteFails`, `Disconnect`, the sender's writes |
| `XtxpConnectionProofs` | theorems about `XtxpConnection` | | |
| `XtxpParser` | heads: how they are written, and the state machine that reads them, beside `async_read_until` | `state` = `state_`, `text` = the texts of the message and `code_`, `name_`, `value_`, `headers`, `contentLength`, `matched` = progress of `async_read_until` | `Write`, `WriteForeign`, `Distort`, `Begin` (`ParseRequest`, `ParseResponse`), `Consume`, `Refuse`, `Reverse` |
| `XtxpParserProofs` | theorems about `XtxpParser` | | |
| `PlistCodec` | binary property lists: writing, reading, look-up, and the list of `/info` with the default configuration | `object`, `data`, `parsed` | `ToBplist`, `Read` |
| `PlistCodecProofs` | theorems about `PlistCodec` | | |
| `MCWireFormats` | the messages and the objects of the run `WireFormats`, and both specifications side by side | `wire` = the format of the behaviour | |
| `ServerLifecycle` | `start`, `stop` and deletion of the server, the accept loop, mDNS references, sessions at shutdown | `at` = next step of the call, `service`, `listening`, `accepting`, `thread`, `media`, `dnsRef`, `advertised`, `session` | one action per step of `start` and `stop`, `Accept`, `AcceptFails`, `BeginSession`, `Leave`, `Release` |
| `ServerLifecycleProofs` | theorems about `ServerLifecycle` | | |

In all of them one action is one run of a handler on the thread of its service,
unless the handler waits for another thread (`stop` of a stream, `stop` of the
server) or calls the application, where it is split.  Payloads, ciphers and
texts are abstracted to what tells them apart: a packet is its index in the
sender's stream, a key is what it was derived from, a URI is its scheme, host
and path, a playlist is the URIs that it lists and the playback it belongs to,
the content of a message is the range of positions it has in the stream.

Definitions whose comment starts with "Wrong:" are not part of the models: each
is a variant of a definition that follows it, with a plausible mistake, and is
there to show that the property named for it in `PROJECT.json` would notice.

### What the larger abstractions rest on

* `MirroringKeys`: the sender sends a request after the one before has been
  answered, and encrypts frames and packets with the keys of the latest SETUP
  that has been answered.  A frame of a video stream carries its position in the
  cipher, which is what counter mode loses when one end skips.
* `CastingPlayback`: the primary playlist of YouTube is
  `mlhls://localhost/master.m3u8`, listing URIs of the same form; that of Netflix
  is `nfhls://localhost/...`, listing URIs without a host.  These are the forms
  that the code's constants and replacements are written for
  (`ap_casting_media_data_store.h`, 48-88, and `.cpp`, 232-308).
* `SessionBindings`: the application sets its `IAirPlayHandler` before it starts
  the server and the handler of a session inside `on_session_begin`; a connection
  is used for one kind of session; no session is called from a stream's
  callback; only one thread of the application calls sessions in the run (two
  that overlap without end could keep a session by their calls alone).  Data
  callbacks after the end of a session are the subject of `MirroringSession`.
* `XtxpConnection`: asio runs the handlers of completed operations in the order
  of completion, and tries a write before it waits for room in the socket.
* `PlistCodec`: objects are trees (`ObjectsAssumption`: what an object leads to is nested
  less deep), a dictionary has at most 127 entries and none twice, and a list is no
  longer than a `uint32_t` says; the characters of strings and keys are not 0,
  at which the code takes them to end.  The program builds such objects only.  Each is
  given whole; the functions that build one, such as `plist_object_dict`, are the
  constructors `Array`, `Dict` and so on.  The recursion of the code is a recursive
  function here, and its loops are put together from halves (`SumBetween`,
  `WriteBetween`).
* `XtxpParser`: what senders and the program put in a message keeps to the
  separators (`WellFormed`): names are of token characters, a path has no blank,
  no part has a line break, and the method, or the version of a response, is not
  empty.  `serialize` writes whatever it is given, so that what is read of any other
  message is not what was written; such heads are in `WriteForeign` and
  `Distort`, for which only the ends are shown to agree.

## The runs

| run | specification | what it shows | states |
| --- | --- | --- | --- |
| `AudioReorder` | fair | eight packets from sequence number 0, reordered by up to six, with a loss, a duplicate and a socket that may fail: `AudioPlayout` is implemented, so that packets are played in order until a datagram is duplicated (`PlayoutSpec`); in any case at most `MaxCached` younger packets wait (`WaitIsBounded`), and what is played on arrival is never older than what was played; while nothing is lost or duplicated and the cache suffices, nothing is skipped (`NoGaps`) and the last packet is played (`StreamIsPlayed`) | 219 000 |
| `AudioWrapWait` | *violated* | reordering across the wrap of the sequence numbers breaks `WaitIsBounded` | |
| `MirroringStreams` | fair | every order of SETUP, TEARDOWN, close, data, handler changes and releases, with two handlers: callbacks come in order (`CallbacksInOrder`, the refinement of `StreamCallbacks`), a TEARDOWN is answered whatever data arrives, a session whose connection closes ends and is reported once, and no thread is left (`GoneIsClean`); when the sender tears its streams down before it leaves, no data callback runs after `on_session_end` (`QuietAfterEnd`), and a handler that is not replaced is told of each stop (`StopIsReported`) | 37 700 |
| `MirroringAbrupt` | *violated* | a sender that just leaves: the handler never learns that its stream stopped (`StopIsAlwaysReported`) | |
| `MirroringKeys` | safety | pairings, handshakes, SETUPs, RECORDs and TEARDOWNs in any order, with streams running: what is decrypted is what was encrypted (`StreamsAreClear`) and no cipher changes under its user (`CiphersAreNotShared`), as long as no SETUP replaces a key in use; pair-verify succeeds in every round (`PairVerifySucceeds`); queries go to the port announced last, and replies are left readable | 1 600 000 |
| `SessionBindings` | fair | two connections, sessions that begin, end, are kept, called, forgotten and finalized, servers that stop and start: the end of every session is reported (`EndIsReported`), none outlives the io_context of its socket (`NoneOutlivesItsService`), and nothing deleted is used | 285 000 |
| `AppleCasting` | *violated* | on Apple's systems the casting events after the first do not reach the application's handler (`CastingEventsArrive`) | |
| `CastingFetch` | fair | two senders that share the store, play, replay, stop and reconnect, with broken connections, late answers and answers that are empty or without data: until an answer comes for a playback that the store has left, each playlist is fetched once, the player gets from the location to every playlist by the URIs that it is served (`PlaysWhenFetched`), the playlists served are those of one playback, and its sender's session is told to play with the last of them (`PlayerSpec`, the refinement of `CastingPlayer`); a session is told to play only what its sender asked for last, unless it answers late while the store fetches for the other (`PlaysTheLatest`); what is asked for goes to the sender that the store fetches for, over the connection in use (`RequestsGoToTheSender`), and is played unless the way to the sender breaks or the store turns to the other (`PlayStarts`) | 585 000 |
| `ServerLifecycle` | fair | starts that succeed, fail or throw, stops, deletion, and senders that come and go meanwhile: what is advertised can be connected to, a registration is given back exactly once, an idle server is clean, `start` tells the truth, and every call returns | 18 200 |
| `XtxpMessages` | fair | senders that pipeline or wait for their answers, with room in the socket or not, a reversal, and TCP cutting both directions at every place: messages are processed in order by the right handler, each request with exactly its content (`MessagesIntact`); responses arrive whole and in order (`ResponsesIntact`, of a sender that waits or a socket with room); a sender that waits gets its answers, and a connection whose sender hangs up between messages ends | 213 000 |
| `XtxpDrop` | *violated* | a sender that disappears in the middle of a content: the connection never ends | |
| `WireFormats` | safety | what one end writes the other reads.  Three heads on a connection, up to two characters lost or wrong or heads of another form: the parser and `async_read_until` agree on the end of every head (`HeadsEndTogether`), and a head that arrives as it was serialized is read as the message that was written, with nothing of the one before (`ReadAsWritten`).  Property lists of every type, nested twice, and the answer of `/info`: what is written fills what was allocated (`LengthsAgree`), is read back as the same object (`ReadsBack`), and every value of it is found and got (`EveryValueIsFound`) | 4 080 000 |

Every property of a passing run has a mutant in `PROJECT.json`.
`CHECK_DEADLOCK FALSE` is set everywhere because every model has an end: the
sender has sent its packets, the session is gone, the server is deleted.

### Bounds

* *Audio*: a cache of 3 instead of 10 fills within the 8 packets; one more packet
  than the cache holds is what triggers a flush, and more than that is what
  fills it again.  `Window` bounds reordering.  `SeqMod` is 32 where wrapping must
  not matter and 8 in the run that wraps.  The proofs drop all these bounds.
* *Mirroring*: three stream SETUPs set up both streams and repeat one; two
  session SETUPs repeat `on_session_begin`; two handlers suffice for a stream to
  be captured by one handler and reported to another.
* *Keys*: three instances, `MCInstances`: two pairings with two video streams,
  two handshakes with packets of the audio stream, and the timing service with
  three queries and two ports; each lets a key or an endpoint be replaced.  The
  proofs drop the bounds.
* *Bindings*: two connections, one of which may be called while the other ends;
  two beginnings, so that one session may begin twice; two handlers, so that one
  is replaced while captured.
* *Casting*: two senders, one of which (`Reconnecting`) may reverse a second
  connection while it has the first, or after that has ended; one primary and two
  other playlists; two playbacks of either application, so that one is replaced
  by its own sender or by the other, or stopped and asked for again.  The proofs
  drop the bounds.
* *XTXP*: three messages of up to two units (two when the socket may be short of
  room) let a read end before, inside and after each head and content, and let a
  buffer hold the end of one message, a whole one and the start of another; a
  response of two units can be cut once.
* *Parser*: requests and responses with and without a content, a content type
  and another header.  Characters are classes; two wrong ones reach every state
  of the parser from every other by a refusal, a merge of two heads or a split.
  The proof has no bound.
* *Property lists*: numbers, lengths and sizes on both sides of each limit at
  which the format changes (15, 256, 65536), with the code's own limits.
  Dictionaries of more than 127 entries are excluded, see below.
* *Server*: two starts (a second one with whatever the first left behind), two
  sessions.

### Fairness

Weak fairness only, of steps that a thread of the program takes by itself once
enabled: the loop of `process_cached_packet`, a stop in progress, destructors,
the handler of data that has arrived, the next step of a call in progress.
Callbacks of the application are assumed to return, and in `MirroringSession`
the application to let go of a session eventually (in `SessionBindings` it may
keep its wrappers for ever).  The environment is fair only where a property is
about being served: packets that the network does not lose arrive
(`AudioReorder`), what was written arrives and is read (`XtxpMessages`), a sender
answers a request for the playback that it still wants (`CastingFetch`).
Nothing is assumed about a sender closing, tearing down or coming back.

## Proofs

The proofs are checked by TLAPS for every value of the constants that satisfies
the modules' assumptions: `ConstantsAssumption`, `InstancesAssumption` of
`MirroringKeys`, `WellFormedAssumption` of `XtxpParser`, `ObjectsAssumption` and
`LengthAssumption` of `PlistCodec` (see above), and `RoutesAssumption` of
`XtxpConnection`.  The last says of the table of routes in the code, which has no
parameter, what `QueryHandler` finds in it for the start lines of the model, and
that it knows the scheme of all but one of them; TLC evaluates it.

**`AudioStreamProofs`**

* `TypeCorrect`: types, and that the cache never exceeds `MaxCached`.  The last
  conjunct needs that a packet is cached only after the test of the size.
* `WaitBounded`, under `NoWrap`: `WaitIsBounded`.  The inductive invariant
  `WaitInv` says that `expected` is one past the last packet played
  (`ExpectsTheNext`), that nothing is cached before the first packet was played,
  that a packet is in the network or in the cache but not in both (`Unique`),
  and that `waiting` is at most the size of the cache: without wrap a younger
  packet never compares as smaller than the expected number, so every one that
  arrives without a delivery is cached.
* `OrderInvariant`, and from it `InOrder` (`PlayedInOrder`), `ExpectedMonotone`
  (`ExpectedMovesForward`) and `ImplementsPlayout` (`PlayoutSpec`), under `NoWrap`.
  `PlayedInOrder` is what `AudioPlayout` says of the packets played, and has no run
  of its own.  `PlayoutInv` adds to `WaitInv`, until UDP has duplicated a datagram, that the
  packets were played in order and that the cache holds nothing whose turn has
  passed (`CacheIsAhead`, `CacheNotBehind`).  `PlayedInOrder` alone is not
  inductive: a pop preserves it only if every cached packet is younger than
  every one played.
* `NothingSkipped` (`NoGaps`), under `NoWrap`.  `GapInv` says, of a network that has
  lost and duplicated nothing and is not `crowded`, that what was played has no
  gap, that every packet whose turn has not passed is on its way or cached
  (`Accounted`), and that there is no flush.  A flush needs a full cache that has
  overtaken the expected packet, and one arrival more, which is what `crowded`
  excludes (`FullCacheCrowds`).
* `OnArrivalOnlyTheNext` (`PlaysOnArrivalOnlyTheNext`), under `NoWrap` and
  `MaxDups <= MaxCached`.  A duplicate can stay in the cache when its packet has been
  played; a flush plays it again and sets `expected_seq_` back.  `ArrivalInv` says
  that each such stale datagram has cost a duplicate of its own (`CopiesKnown`),
  what is stale (`StaleInv`), and that `expected_seq_` stays back between two
  packets only when no duplicate is left that could bring the expected packet
  again (`TurnInv`).  The bound on duplicates is needed: with three of them and a
  cache of two TLC finds an old packet played on arrival.

* `WrapIsSeamless` (`NoGaps`, `WaitIsBounded`), without `NoWrap`, on a network that
  keeps the order and neither loses nor duplicates (`InSequence`): every packet that
  has arrived is played, in its place, over any number of wraps.  `expected` is
  then the number of the next packet; 0 also means that nothing was received,
  but either reading takes the packet that comes.

`NoWrap` (the stream ends before the sequence numbers wrap to 0) is a real
restriction, not a convenience: `AudioWrapWait` is the counterexample to it.
That the order of play holds only until a duplicate (`NoDups` in `PlayedInOrder`,
`copies = 0` in `AudioPlayout`) is one too: a packet that is cached twice is
handed over twice by a flush.

**`MirroringSessionProofs`**

* `TypeCorrect`: types; `ended <= 1`, that is, `on_session_end` is called at most once.
* `CleanEnd` (`GoneIsClean`), `ImplementsCallbacks` (`CallbacksInOrder`): for any
  number of handlers and SETUPs.
* `NoDataAfterEnd` (`QuietAfterEnd`) and `StopReported` (`StopIsReported`), both
  of sessions whose connection does not close before the streams are torn down.

The inductive invariant `Inv` adds to the types: a stream with a captured
handler has told that handler of its start and not yet of a stop
(`CapturedIsStarted`), only a service has a thread (`ThreadHasService`), only
the stream that is being stopped is stopping (`StoppingOne`), the end is
counted exactly when the destructor has begun (`EndIsCounted`), a connection
that was not closed abruptly has no stream once it is closed (`ClosedStreams`),
the handler is the one registered last (`HandlersKnown`), and a lone handler that
was told of a start has a service that owes it a stop (`StartedHasService`).
The first is what makes the order of callbacks survive a change of handler:
data goes to the captured handler, notifications to the current one.

**`SessionProofs`**, of `MirroringKeys`, for any number of pairings, handshakes, SETUPs, streams,
frames, queries and ports

* `TypeCorrect`, `StreamsStayClear` (`StreamsAreClear`), `CiphersStayUnshared`
  (`CiphersAreNotShared`), `PairVerifyAlwaysSucceeds` (`PairVerifySucceeds`),
  `QueriesAlwaysReachTheSender` (`QueriesReachTheSender`), `RepliesStayReadable`
  (`RepliesAreReadable`), all from one `Inv`.

`Inv` has a part for each agreement between the two ends.  `VideoAgrees` is the
one that matters most: the frame being decrypted, the frames on their way and
the next one to be encrypted stand at consecutive positions of one cipher, which
starts where `videoCtr` stands.  `SessionAgrees` carries the derivation of that
key through pairing (`PairingAgrees`) and handshake; `AudioAgrees` is the same for
packets, which may be lost; `ThreadHasService` says that a stream that is torn
down leaves nobody decrypting, so that the next SETUP may replace the cipher.
`EndpointAgrees` and `ReplyAwaitsItsHandler` are those of the timing service.

**`ServerLifecycleProofs`**, for any number of starts and senders

* `TypeCorrect`, `AdvertisedListens` (`AdvertisedIsListening`), `RefsMatch`
  (`RefsAreRegistrations`), `CleanIdle` (`IdleIsClean`), `TruthfulStart`
  (`StartIsTruthful`), all from one `Inv`.

`Inv` follows the call: `CallInv` says for each step of `start` and `stop` which
registrations can be there and whether the service exists, `RegistrationInv` that
registrations are of the service that listens, `ServiceInv` that nobody else
listens or has a thread, `SessionInv` to whom each connection belongs, and
`StartInv` what a start that does not throw has set up.  None of the
properties is inductive without it: that nothing is advertised when the service
is dropped depends on all the steps that lead there, among them the two ways
that a failed publication takes and the setting of `publishService`.

**`XtxpParserProofs`**, for heads of any length and characters

* `EndsAgree` (`HeadsEndTogether`).  The parser and `async_read_until` are two
  automata over the same characters; the invariant relates their states:
  within a line nothing of the empty line has been found, between lines as much
  as the parser has seen of it.  Only the version of a status line, in which
  the parser accepts line breaks, breaks that relation.
* `MessagesAreReadAsWritten` (`ReadAsWritten`).  `HeadInv` follows the parser through
  the head: in each state it says which part of the message the parser is in,
  that what is in the parser's text for the part and what is left of it in the
  stream make up the part, that the rest of the head follows, and which headers
  have been stored (`RequestLineInv`, `StatusLineInv`, `HeadersAt`).  That serialize
  writes these parts in this order is `HeadWritten`; that a part ends where its
  separator is, and not before, is `NextChar` with the alphabets of `WellFormed`;
  that a number comes back is `TextIsRead`.

**`CastingPlaybackProofs`**, for any number of senders, playlists, playbacks and reconnections

* `RequestsGo` (`RequestsGoToTheSender`).  `EventsInv` says of the manager what makes it
  safe to follow: an entry that still exists is the connection that its sender
  reversed last, whichever of them ended before it.  That the request is for the
  playback in progress is the part that needs `FetchInv`.
* `FetchedOnce` (`FetchesOnce`), `PlayedWhenFetched` (`PlaysWhenFetched`) and
  `ImplementsPlayer` (`PlayerSpec`, the refinement of `CastingPlayer`), until an answer
  comes without data or for a playback that the store has left (`spoiled`).
* `LatestIsPlayed` (`PlaysTheLatest`), whatever answers come.

`FetchInv` is the invariant of the fetch, until it is spoiled: a playback has at most
one request under way, and the request for the current one is to the sender that asked
for it and says exactly what has been stored and what is still on the stack
(`RequestsKnown`, with `Stored` and `OnStack`); a playback that plays has everything
stored (`PlayedIsFetched`).  It speaks of the store and its owner alone, not of what
other senders have under way, which is why their number does not matter.
`PlaysWhenFetched` is not inductive by itself, as it says nothing of a playback that is
still being fetched.  Its proof goes on from there through the rewriting of URIs: the
location and each line of the primary playlist lead to the key under which the data was
stored.  `StoreIsWanted` says that the store fetches what its owner asked for last; with
`FetchInv` it gives `PlaysTheLatest`.
For `ImplementsPlayer` the library is read off `Stored`: what is served is the
primary playlist and those that have left the stack (`Serving`).  An answer in time
is one `Fetch`, and empties the stack exactly when it completes the library
(`AnswerServes`), at the sender for which the store fetches.  Every other step asks,
stops, ends a session or is unseen (`OtherSteps`).

**`SessionProofs`**, of `SessionBindings`, for any number of connections, wrappers, handlers and
callers, on both platforms

* `NoneOutlives` (`NoneOutlivesItsService`), `DeletedIsUnused`
  (`NothingDeletedIsUsed`), from `BindInv`: a callback keeps its connection open (`CallbackInv`), a wrapper
  made for `on_session_begin` is referenced until that returns (`BeginRef`), a
  wrapper that is called is referenced by the application (`CallInv`), and one
  that is referenced has its native peer (`PeerInv`); a proxy that is deleted is
  neither the handler of a session nor captured by a stream, nor in a callback
  (`ProxyInv`).

**`XtxpConnectionProofs`**, for any number of messages of any length

* `MessagesStayIntact` (`MessagesIntact`).  The invariant `CutInv` says where
  `in_stream_` begins (`PositionInv`): when a head is read, at or inside the content
  of the last message, so that a head that begins there is the next one's; when
  content is read, right behind its head.  It needs that the sender writes one
  message after the other and only responses after `POST /reverse` (`StreamInv`),
  and that a read that is complete but not yet handled has taken just what it
  waited for, whatever runs before its handler (`ReadInv`).
* `ResponsesStayIntact` (`ResponsesIntact`): of a sender that waits for its answers,
  or while the socket has room, the units of the responses arrive whole, once and
  in order.  A second write that starts before the first has been taken out of
  `out_stream_` sends its units again.  `ResponseInv` says that this does not happen:
  what is in `out_stream_` has been sent and taken out, or is waiting to be taken
  out, or is in the one write under way (`OutInv` in `SentInv`); and while a request
  is unprocessed everything posted has been sent, and is taken out before the
  request is processed.  That is so because a patient sender has at most one
  request that is not processed (`PatientInv`), and which responses it has got by
  then follows from which message each one answers (`AnswersInv`).

**`PlistCodecProofs`**, for any objects, however large and deeply nested

* `LengthsAlwaysAgree` (`LengthsAgree`), `AlwaysReadsBack` (`ReadsBack`),
  `ValuesAlwaysFound` (`EveryValueIsFound`), all from `ListInv`, which says that `data` is
  the list of the object and `parsed` what is read of it.  All the work is in
  the operators, which are recursive functions: that one of them satisfies its
  equation is shown by taking the least number (of the nesting, of the distance of
  two places, of the depth of a read) for which no solution would exist
  (`LeastNumber`, `Recursion`).
* Writing: what `bplist_serialize_object` writes of an object is as long as
  `bplist_analyze` counted, and each object but the first is referred to once, so
  that references and positions fit in the widths chosen for them (`AsLong`,
  `BplistIs`).  A number comes back from any width that is enough for it, negative
  ones from eight bytes.
* Reading: each object stands where the table of positions says and its references
  hold the numbers of its children (`IsWritten`, `StandsAt`, `Readable`); if its children
  are read as they should be then so is it (`Known`, `OneIsRead`).

**Only model-checked** is everything temporal that needs fairness (`StreamIsPlayed`,
`TeardownIsAnswered`, `SessionEnds`, `EndIsReported`, `PlayStarts`,
`RequestsAreAnswered`, `HangUpIsNoticed`, `CallsReturn`), which is beyond TLAPS as it
needs ENABLED.  Every invariant and every action property of a passing run is stated
by a theorem, under the hypotheses named above.

## Divergences found

Four runs expect a violation; the finding of each in `PROJECT.json` quotes the
text that the code disagrees with.

1. **Wrap of audio sequence numbers** (`AudioWrapWait`).  Numbers are compared as
   integers, so that after a wrap younger packets look old and are abandoned
   while the receiver waits for one that was lost.
2. **A stream that is never reported as stopped** (`MirroringAbrupt`).  Only
   TEARDOWN calls `on_*_stream_stopped`.
3. **Casting events that never arrive** (`AppleCasting`).  On Apple's systems
   `APCastingHandler` forwards scrub, rate, stop and playback-info only when the
   session's id *differs* from its own, so that its own session's never are.
4. **A content that never ends** (`XtxpDrop`).  The completion condition of
   `async_read` ignores the error, so that the read of a content is repeated for
   ever when the sender is gone.

Others are known behaviours that the models or their properties exclude by a
named condition:

* *Audio*: `expected_seq_ = 0` after number 65535 adopts whatever packet comes
  next, even an old one (`AudioStream!Awaited`; excluded by `NoWrap`).
* *Casting*: the store is one for all senders and ids are not compared.  A
  `/play` or `/stop` of one sender ends what the store fetches for another, which
  nobody tells it (`PlayStarts` excuses an `owner` that is another).
* The answer to a request of a replaced playback is processed as if it belonged
  to the current one and can make the application play before its playlists
  are there (`CastingPlayback!spoiled`); when it comes from another sender, that
  sender's session is told to play the video (the exception in `PlaysTheLatest`).
* When a sender opens a second reversed connection before the first has ended,
  the end of the first removes the manager's entry, and no request reaches the
  sender any more.  No property says that one does: `RequestsGoToTheSender` says
  where those go that are sent, and `PlayStarts` excuses `reverses > 1`.
* A `/play` in text form without a Start-Position is given to the application
  with an empty location (`Nowhere`) and the start position of the playback
  before, though the log says "No start position found, set to 0"
  (`ap_airplay_service.cpp:738`).
* *Keys*: a second SETUP without streams appends to `client_aes_key_`, so that the
  video key is derived from other bytes than the sender's; a SETUP of a video
  stream that is not torn down re-initialises its cipher under its thread
  (`rekeyed` in `StreamsAreClear` and `CiphersAreNotShared`).
* *Timing*: `on_recv_from` converts the one reply packet in place, whatever order
  it is in, and a receive overwrites the endpoint of the next query
  (`overlap`, `crossed`).
* *Bindings*: on Apple's systems a wrapper keeps its session, whose end is then
  not reported as long as the wrapper is kept.  On Android proxies of handlers
  are never deleted.
* *Mirroring*: a handler registered while a stream runs gets the stream's
  notifications but not its data, which goes to the handler captured at SETUP.
* *XTXP*: a buffer that holds more than the content of a request makes the
  unsigned difference in `body_completion_condition` huge; the read then takes
  what follows as well.  A sender that waits for its answers never gets there,
  and `XtxpMessages` shows that no *processed* message is affected.
* On a reversed connection the content of a response is measured by the last
  *request*; nobody reads it (`MessagesIntact` speaks of requests).
* A sender that pipelines while the socket is full gets units of a response
  twice, since a second write starts from the same `out_stream_`
  (`ResponsesIntact` requires `patient \/ roomy`).
* Unknown methods and paths are answered 200 (`QueryHandler`); since OPTIONS is
  registered for the empty path, that is how `OPTIONS *` is answered too.
  `/getProperty` is registered for POST, though its comment says GET.
* *Parser*: `parse` of a request does not clear `content_type`, so that a request
  without one is handled as if it had that of an earlier one; `parse` of a
  response does not clear the headers (`ReadAsWritten` excuses both).
* A response whose status line has no blank is accepted, headers and all, as one
  long version, and leaves the parser there (`HeadsEndTogether`, second case).
* *Property lists*: a dictionary of 128 to 255 entries (or 32768 to 65535) gets a
  buffer one byte (or two) longer than what is written, since `bplist_analyze`
  measures the width of `2 * size` and `bplist_serialize_object` writes `size`;
  the reader then takes the trailer from the wrong place.  The program builds at
  most 15 entries.
* A real is written in the byte order of the host and read in that of the
  network: it comes back reversed (`ReadsAs`), and so does the `refreshRate` of
  `/info`.  A null in a list is read as the
  primitive 0.
* *Content parser*: a scrub position or a rate is found only with a decimal
  point; without one the request calls nobody (`HasValue`).
* *Server*: `suppress` of `mdns/Android` keeps the reference that it has
  deallocated: `stop()` and then the destructor deallocate it twice.
  `ServerLifecycle` models the Linux, Windows and macOS variants; its
  `SuppressKeepingRef` is the Android code, and breaks `RefsAreRegistrations`.
* When asio throws out of `start()` the server keeps its half-started service,
  and the next `start()` returns true at once (`StartIsTruthful` excuses `threw`).
  `stop()` cleans up.
* `publishService` switched off while the server runs makes `stop()` leave the
  advertisements in place (`SetPublishService` is enabled only while stopped).

## What is not shown

* Contents: the algorithms of the ciphers, TXT records, header fields of video
  packets, the values of SET_PARAMETER, the texts of `/server-info` and
  `/playback-info`; truncated property lists and those of other writers.
* Data races inside one variable (`reset` against `query_media_data`, the handler
  pointer): an action here is atomic.
* Calls of `ap_server` from several threads, or from inside a callback (which
  joins its own thread); deletion of a server that was not stopped; what a
  service that is destroyed while it accepts does.
* `send_request` on a reversed connection blocks the thread of all connections
  until the socket has taken the request; in `CastingPlayback` it is part of the
  step that asks.
* The connections of the media server: each is an `XtxpConnection` with another
  table of routes (`MediaRoutes`), and they are not composed with the store.

Not modelled: the logger, which keeps no state that others depend on, and those
string helpers that only the texts above use; the demo; vendored code.

## Plan

What is left, in this order.

1. The thread of the media server against `reset`: the connections of the media
   server (`XtxpConnection` with `MediaRoutes`) composed with the store.
