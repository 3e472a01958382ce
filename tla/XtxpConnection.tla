--------------------------- MODULE XtxpConnection ---------------------------
(***************************************************************************)
(* How xtxp_connection_base cuts the byte stream of a TCP connection into  *)
(* HTTP or RTSP messages, has the requests handled and answers them.       *)
(*                                                                         *)
(* The stream is counted in units: the head of a message is one unit (a    *)
(* head that arrives in parts only makes the connection wait) and the      *)
(* content is Content-Length units.  What the sender has written is the    *)
(* positions 1..written; of these 1..received have been read from the      *)
(* socket and 1..consumed have left in_stream_, so that in_stream_ holds   *)
(* the positions consumed+1..received.  TCP may cut the stream anywhere:   *)
(* a read returns any part of what is under way.                           *)
(*                                                                         *)
(* A response is counted in units too, so that the socket may take it in   *)
(* parts.  What post_send_response writes are all the units in             *)
(* out_stream_, drained+1 to the last; they leave it when the write is     *)
(* complete.                                                               *)
(*                                                                         *)
(* All handlers of a connection run in its strand, on the one thread of    *)
(* its service, each is a step: an operation on the socket that completes  *)
(* (asio's async_read_until, async_read and async_write) joins the queue   *)
(* ready, and the handlers run in the order of that queue.  After POST     *)
(* /reverse the roles change: the messages that arrive are responses to    *)
(* the receiver's own requests.                                            *)
(***************************************************************************)
EXTENDS Integers, Sequences, RequestRoutes

CONSTANTS
  MaxMessages,     \* bound: messages the sender writes
  MaxClogged,      \* bound: the same of a sender that does not wait for answers
                   \* when the socket may be short of room
  MaxContent,      \* bound: units of content of a message
  Reverses         \* does the sender reverse the connection?

ASSUME ConstantsAssumption ==
  /\ MaxMessages \in Nat
  /\ MaxClogged \in Nat
  /\ MaxContent \in Nat
  /\ Reverses \in BOOLEAN

VARIABLES
  patient,    \* the sender reads the answer to a request before it writes the
              \* next one, and its own responses have no content
  roomy,      \* the socket always has room for a response
  messages,   \* the messages written by the sender
  written,    \* units written by the sender
  hungUp,     \* the sender has closed the connection, or is gone
  stopped,    \* stop() has closed the socket
  received,   \* units read from the socket
  consumed,   \* units taken from in_stream_
  phase,      \* "head" or "content": the read that is posted; "closed" when
              \* none is, and nothing keeps the connection object
  current,    \* the message whose head was parsed last, 0 before the first
  requestLen, \* request_.content_length
  reversed,   \* is_reversed_
  processed,  \* the messages processed, in order, with the content and the
              \* handler that each had
  answers,    \* the messages answered, in the order of the responses
  drained,    \* units of responses taken from out_stream_
  writes,     \* the writes under way, the units from first to to, next coming
              \* next
  intact,     \* units of responses sent in order and each once
  garbled,    \* something else has been sent
  ready       \* completed operations whose handlers have still to run

senderVars == <<patient, roomy, messages, written, hungUp>>
readVars   == <<requestLen, reversed, processed>>
outVars    == <<answers, drained, writes, intact, garbled>>
streamVars == <<stopped, received, consumed, phase, current>>
vars == <<senderVars, streamVars, readVars, outVars, ready>>

Line(scheme, method, uri) == [scheme |-> scheme, method |-> method, uri |-> uri]

(* The start lines of the requests that the sender may write: of each outcome
   of query_handler.  A response has none. *)
Setup       == Line("RTSP", "SETUP", <<"rtsp://receiver/1">>)
Foreign     == Line("SIP", "OPTIONS", <<"*">>)
ReverseLine == Line("HTTP", "POST", <<"/reverse">>)
HeadOnlyLines ==
  {Foreign, Line("HTTP", "DELETE", <<"/">>), Line("RTSP", "OPTIONS", <<"*">>),
   Line("HTTP", "PUT", <<"/setProperty", "rate">>)}
ResponseLine == Line("", "", <<>>)

Init ==
  /\ patient \in BOOLEAN
  /\ roomy \in BOOLEAN
  /\ messages = <<>>
  /\ written = 0
  /\ hungUp = FALSE
  /\ stopped = FALSE
  /\ received = 0
  /\ consumed = 0
  /\ phase = "head"
  /\ current = 0
  /\ requestLen = 0
  /\ reversed = FALSE
  /\ processed = <<>>
  /\ answers = <<>>
  /\ drained = 0
  /\ writes = <<>>
  /\ intact = 0
  /\ garbled = FALSE
  /\ ready = <<>>

-----------------------------------------------------------------------------
(* The sender. *)

ResponseUnits == 2

Write(line, len) ==
  /\ ~hungUp
  /\ Len(messages) < (IF patient \/ roomy THEN MaxMessages ELSE MaxClogged)
  /\ messages' = Append(messages, [line |-> line, head |-> written + 1, len |-> len])
  /\ written' = written + 1 + len
  /\ UNCHANGED <<patient, roomy, hungUp, streamVars, readVars, outVars, ready>>

(* Every message has been answered, and the sender has read the answers. *)
AllAnswered ==
  /\ Len(answers) = Len(messages)
  /\ intact = ResponseUnits * Len(answers)

SendRequest ==
  /\ \A i \in DOMAIN messages : messages[i].line # ReverseLine
  /\ patient => AllAnswered
  /\ \/ \E len \in 0..MaxContent : Write(Setup, len)
     \/ \E line \in HeadOnlyLines : Write(line, 0)
     \/ Reverses /\ AllAnswered /\ Write(ReverseLine, 0)

(* A response to a request that the receiver sent on a reversed connection. *)
SendResponse ==
  /\ reversed
  /\ \E len \in IF patient THEN {0} ELSE 0..MaxContent : Write(ResponseLine, len)

-----------------------------------------------------------------------------
(* The operations on the socket. *)

Buffered == received - consumed

(* The messages whose head is in in_stream_; async_read_until finds the first. *)
HeadsBuffered == {i \in DOMAIN messages : messages[i].head \in (consumed + 1)..received}

(* body_completion_condition: how much more to read.  It is asked for the
   length of the request even on a reversed connection, and as the difference
   is unsigned, a buffer that holds more than that makes it huge. *)
Missing == requestLen - Buffered

(* The end of the stream, or of the socket. *)
Over == stopped \/ (hungUp /\ received = written)

(* The end completes the read of a head, with an error.  It does not complete
   the read of content: body_completion_condition does not look at the error
   and asks for more, which fails again, and so on. *)
ReadIsDone ==
  \/ phase = "head" /\ (HeadsBuffered # {} \/ Over)
  \/ phase = "content" /\ Missing = 0

Read    == [op |-> "read", units |-> 0]
Sent(n) == [op |-> "sent", units |-> n]

(* queue, and the read at its end if this step completes it. *)
Completed(queue) ==
  ready' = IF ReadIsDone' /\ \A i \in DOMAIN queue : queue[i] # Read
           THEN Append(queue, Read) ELSE queue

HandlerOf(op) == ready # <<>> /\ Head(ready).op = op

(* When it is the network that fails, the last units written are lost. *)
HangUp ==
  /\ ~hungUp
  /\ hungUp' = TRUE
  /\ written' \in received..written
  /\ UNCHANGED <<patient, roomy, messages, streamVars, readVars, outVars>>
  /\ Completed(ready)

(* How much a read may return: any amount while no head is found, at most what
   is missing of the content. *)
Wants(n) ==
  \/ phase = "head" /\ HeadsBuffered = {}
  \/ phase = "content" /\ (n <= Missing \/ Missing < 0)

Receive(n) ==
  /\ ~stopped
  /\ Wants(n)
  /\ received' = received + n
  /\ UNCHANGED <<senderVars, stopped, consumed, phase, current, readVars, outVars>>
  /\ Completed(ready)

(* The application calls disconnect() on its session. *)
Disconnect ==
  /\ ~stopped
  /\ phase # "closed"
  /\ stopped' = TRUE
  /\ UNCHANGED <<senderVars, received, consumed, phase, current, readVars, outVars>>
  /\ Completed(ready)

(* The socket takes n more units of the write w. *)
Transfer(w, n) ==
  /\ intact' = IF w.next = intact + 1 /\ ~garbled THEN intact + n ELSE intact
  /\ garbled' = (garbled \/ (n > 0 /\ w.next # intact + 1))

Transmit ==
  /\ ~stopped
  /\ \E i \in DOMAIN writes :
       LET w == writes[i] IN
       \E n \in 1..(w.to - w.next + 1) :
         /\ Transfer(w, n)
         /\ IF w.next + n > w.to
            THEN /\ writes' = RemoveAt(writes, i)
                 /\ ready' = Append(ready, Sent(w.to - w.first + 1))
            ELSE /\ writes' = [writes EXCEPT ![i].next = @ + n]
                 /\ UNCHANGED ready
  /\ UNCHANGED <<senderVars, streamVars, readVars, answers, drained>>

WriteFails ==
  /\ hungUp \/ stopped
  /\ writes # <<>>
  /\ writes' = Tail(writes)
  /\ ready' = Append(ready, Sent(Head(writes).next - Head(writes).first))
  /\ UNCHANGED <<senderVars, streamVars, readVars, answers, drained, intact, garbled>>

-----------------------------------------------------------------------------
(* The handlers. *)

(* Wrong: the response stays in out_stream_. *)
OnResponseSentKeeping ==
  /\ HandlerOf("sent")
  /\ UNCHANGED <<senderVars, streamVars, readVars, outVars>>
  /\ Completed(Tail(ready))

(* What has been written is consumed, before on_response_sent, which does
   nothing, not even after an error. *)
OnResponseSent ==
  /\ HandlerOf("sent")
  /\ LET all == ResponseUnits * Len(answers)
         n   == drained + Head(ready).units
     IN  drained' = IF n > all THEN all ELSE n
  /\ UNCHANGED <<senderVars, streamVars, readVars, answers, writes, intact, garbled>>
  /\ Completed(Tail(ready))

(* The response joins what is in out_stream_, and all of that is written: the
   socket may take some of it at once, unless another write is under way.
   What such a write has sent by then is sent again.  (Its buffer may also
   have moved, so that it sends other bytes: it is garbled either way.) *)
PostSendResponse(i) ==
  LET w == [first |-> drained + 1, next |-> drained + 1,
            to |-> ResponseUnits * (Len(answers) + 1)]
  IN  \E n \in 0..(w.to - drained) :
        /\ writes # <<>> \/ stopped => n = 0
        /\ roomy /\ writes = <<>> /\ ~stopped => n = w.to - drained
        /\ answers' = Append(answers, i)
        /\ Transfer(w, n)
        /\ IF n = w.to - drained
           THEN /\ UNCHANGED writes
                /\ Completed(Append(Tail(ready), Sent(n)))
           ELSE /\ writes' = Append(writes, [w EXCEPT !.next = @ + n])
                /\ Completed(Tail(ready))
        /\ UNCHANGED drained

RouteTable == InitializeRequestHandlers(AirPlayRoutes)

(* The handler is that of the route registered for the line's scheme, method and
   path or, if there is none, of the one registered for "*". *)
ServedBy(line, handler) ==
  LET RoutesOf(path) == {r \in Range(AirPlayRoutes) :
                           <<r.scheme, r.method, r.path>> = <<line.scheme, line.method, path>>}
  IN
  /\ \A r \in RoutesOf(Head(line.uri)) : handler = r.handler
  /\ \A r \in RoutesOf("*") : RoutesOf(Head(line.uri)) = {} => handler = r.handler

(* What the nested maps come to for these lines; there is nothing in it that a
   proof could vary, so that its evaluation is its proof. *)
ASSUME RoutesAssumption ==
  \A line \in {Setup, ReverseLine} \cup HeadOnlyLines :
    LET handler == QueryHandler(RouteTable, line) IN
    /\ ServedBy(line, handler)
    /\ handler = "post_reverse_handler" <=> line = ReverseLine
    /\ handler = "UNKNOWN_SCHEME" <=> line = Foreign

(* An unknown method or path is answered like a known one, with 200 OK; a
   request of an unknown scheme is not. *)
ProcessRequest(i, from, to) ==
  LET handler == QueryHandler(RouteTable, messages[i].line) IN
  /\ processed' = Append(processed, [msg |-> i, from |-> from, to |-> to, handler |-> handler])
  /\ reversed' = (handler = "post_reverse_handler")
  /\ IF handler = "UNKNOWN_SCHEME"
     THEN UNCHANGED outVars /\ Completed(Tail(ready))
     ELSE PostSendResponse(i)

(* A response is not looked at. *)
ProcessResponse(i, from, to) ==
  /\ processed' = Append(processed, [msg |-> i, from |-> from, to |-> to, handler |-> "none"])
  /\ UNCHANGED <<reversed, outVars>>
  /\ Completed(Tail(ready))

Process(i, from, to) ==
  \/ reversed /\ ProcessResponse(i, from, to)
  \/ ~reversed /\ ProcessRequest(i, from, to)

(* Wrong: another read of a head is posted, which never ends. *)
ReadFailsAndRepeats ==
  /\ HandlerOf("read")
  /\ phase = "head"
  /\ HeadsBuffered = {}
  /\ UNCHANGED <<senderVars, streamVars, readVars, outVars>>
  /\ Completed(Tail(ready))

(* The read of a head has ended with an error: no other read is posted. *)
ReadFails ==
  /\ HandlerOf("read")
  /\ phase = "head"
  /\ HeadsBuffered = {}
  /\ phase' = "closed"
  /\ ready' = Tail(ready)
  /\ UNCHANGED <<senderVars, stopped, received, consumed, current, readVars, outVars>>

(* Content of the message before that was not read as such: it is no start
   line (AirPlay sends property lists), so that the connection is stopped. *)
BadHead(i) ==
  /\ consumed + 1 < messages[i].head
  /\ consumed' = messages[i].head
  /\ phase' = "closed"
  /\ stopped' = TRUE
  /\ UNCHANGED <<current, readVars, outVars>>
  /\ ready' = Tail(ready)

GoodHead(i) ==
  /\ consumed + 1 = messages[i].head
  /\ current' = i
  /\ UNCHANGED stopped
  /\ requestLen' = IF reversed THEN requestLen ELSE messages[i].len

HeadOnly(i) ==
  /\ GoodHead(i)
  /\ messages[i].len = 0
  /\ consumed' = messages[i].head
  /\ UNCHANGED phase
  /\ Process(i, consumed' + 1, consumed')

(* Wrong: what came with the head is dropped. *)
ContentToReadAnew(i) ==
  /\ GoodHead(i)
  /\ messages[i].len \notin {0, received - messages[i].head}
  /\ consumed' = received
  /\ phase' = "content"
  /\ UNCHANGED <<reversed, processed, outVars>>
  /\ Completed(Tail(ready))

(* content_length - in_stream_.size() is not 0. *)
ContentToRead(i) ==
  /\ GoodHead(i)
  /\ messages[i].len \notin {0, received - messages[i].head}
  /\ consumed' = messages[i].head
  /\ phase' = "content"
  /\ UNCHANGED <<reversed, processed, outVars>>
  /\ Completed(Tail(ready))

(* Wrong: what follows the content in the buffer is taken as content too. *)
ContentAtLeastBuffered(i) ==
  /\ GoodHead(i)
  /\ messages[i].len # 0
  /\ messages[i].len <= received - messages[i].head
  /\ consumed' = received
  /\ UNCHANGED phase
  /\ Process(i, messages[i].head + 1, received)

(* The buffer holds the content and nothing else. *)
ContentBuffered(i) ==
  /\ GoodHead(i)
  /\ messages[i].len # 0
  /\ messages[i].len = received - messages[i].head
  /\ consumed' = received
  /\ UNCHANGED phase
  /\ Process(i, messages[i].head + 1, received)

OnMessageHeadReceived ==
  /\ HandlerOf("read")
  /\ phase = "head"
  /\ UNCHANGED <<senderVars, received>>
  /\ \E i \in HeadsBuffered :
       /\ \A j \in HeadsBuffered : i <= j
       /\ BadHead(i) \/ HeadOnly(i) \/ ContentToRead(i) \/ ContentBuffered(i)

OnMessageContentReceived ==
  /\ HandlerOf("read")
  /\ phase = "content"
  /\ consumed' = received
  /\ phase' = "head"
  /\ UNCHANGED <<senderVars, stopped, received, current, requestLen>>
  /\ Process(current, consumed + 1, received)

-----------------------------------------------------------------------------
Arrival == \E n \in 1..(written - received) : Receive(n)

Handler ==
  \/ OnMessageHeadReceived \/ ReadFails \/ OnMessageContentReceived
  \/ OnResponseSent

Next ==
  \/ SendRequest \/ SendResponse \/ HangUp
  \/ Arrival
  \/ Transmit \/ WriteFails
  \/ Handler
  \/ Disconnect

Spec == Init /\ [][Next]_vars

(* What the sender has written arrives, it reads what it is sent until it
   leaves, and the service's thread runs. *)
FairSpec ==
  /\ Spec
  /\ WF_vars(Arrival)
  /\ WF_vars(Transmit)
  /\ WF_vars(WriteFails)
  /\ WF_vars(Handler)

-----------------------------------------------------------------------------
(* Wherever TCP cuts the stream, the messages are processed in the order in
   which they were written, none is skipped or processed twice, and each
   request with exactly its own content, by the handler that is registered for
   its scheme, method and path.  (Responses on a reversed connection may lose
   their content, which nobody looks at.) *)
MessagesIntact ==
  \A k \in DOMAIN processed :
    LET line == messages[k].line IN
    /\ processed[k].msg = k
    /\ processed[k].from = messages[k].head + 1
    /\ line # ResponseLine =>
         /\ processed[k].to = messages[k].head + messages[k].len
         /\ ServedBy(line, processed[k].handler)

(* A sender reads the responses to its requests in the order of the requests,
   each whole and once, if it waits for one before it writes the next request,
   and also if it does not, as long as the socket takes every response at
   once.  (Otherwise a response is posted during the write of the one before,
   and both writes send what that has not sent yet.) *)
ResponsesIntact ==
  patient \/ roomy =>
    /\ ~garbled
    /\ \A k \in 1..(intact \div ResponseUnits) :
         Cardinality({i \in 1..answers[k] : messages[i].line # Foreign}) = k

(* A patient sender gets the whole answer to every request of a known scheme,
   unless the connection breaks. *)
RequestsAreAnswered ==
  \A n \in 1..MaxMessages :
    (patient /\ Len(messages) >= n /\ messages[n].line \notin {Foreign, ResponseLine})
      ~> (intact >= ResponseUnits * n \/ hungUp \/ stopped)

NoneIsCutShort ==
  messages = <<>> \/ written = messages[Len(messages)].head + messages[Len(messages)].len

(* No operation is posted or completed: nothing keeps the connection object. *)
Idle == phase = "closed" /\ writes = <<>> /\ ready = <<>>

(* "The session is ending": when a patient sender leaves between two messages,
   no operation stays posted that would keep the connection and its session
   alive (unless the application disconnected it). *)
HangUpIsNoticed ==
  patient /\ hungUp /\ NoneIsCutShort ~> Idle \/ stopped

(* The same of a sender that leaves, or drops out of the network, at any time. *)
DropIsNoticed == hungUp ~> Idle
=============================================================================
