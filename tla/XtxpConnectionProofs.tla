------------------------ MODULE XtxpConnectionProofs -------------------------
(***************************************************************************)
(* Theorems about XtxpConnection: for any number of messages and any       *)
(* lengths, wherever TCP cuts the stream.                                  *)
(*                                                                         *)
(* The messages that are read are intact.  The invariant says where        *)
(* in_stream_ begins: when a head is read, at or inside the content of the *)
(* last message that was parsed; when content is read, right behind that   *)
(* message's head.  A read that is complete and not yet handled is at its  *)
(* end: nothing more is taken from the socket until it is.                 *)
(*                                                                         *)
(* The responses that are sent are intact when the sender is patient or    *)
(* the socket roomy.  The invariant says that a message is only ever       *)
(* processed when the responses before it have been sent to the last unit  *)
(* and out_stream_ is empty, or will be before the message is handled.     *)
(***************************************************************************)
EXTENDS XtxpConnection, SequenceTheorems, FiniteSetTheorems, TLAPS

-----------------------------------------------------------------------------
(* Types. *)

Lines    == {Setup, ReverseLine, ResponseLine} \cup HeadOnlyLines
Handlers == {QueryHandler(RouteTable, line) : line \in Lines} \cup {"none"}

Messages == [line : Lines, head : Nat, len : Nat]
Records  == [msg : Nat, from : Int, to : Int, handler : Handlers]
Writes   == [first : Int, next : Int, to : Int]
Ops      == {Read} \cup [op : {"sent"}, units : Int]

Types ==
  /\ messages \in Seq(Messages)
  /\ processed \in Seq(Records)
  /\ writes \in Seq(Writes)
  /\ ready \in Seq(Ops)
  /\ written \in Nat
  /\ received \in Nat
  /\ consumed \in Nat
  /\ current \in Nat
  /\ requestLen \in Nat
  /\ answers \in Seq(Nat)
  /\ drained \in Int
  /\ reversed \in BOOLEAN
  /\ phase \in {"head", "content", "closed"}

(* Where a message ends, and where its head is; before the first, both are 0. *)
EndOf(i)  == IF i = 0 THEN 0 ELSE messages[i].head + messages[i].len
HeadOf(i) == IF i = 0 THEN 0 ELSE messages[i].head

(* The stream that the sender writes: one message after the other, a request
   that reverses the connection has no content, and only responses follow it. *)
StreamInv ==
  /\ \A i \in DOMAIN messages : messages[i].head = EndOf(i - 1) + 1
  /\ ~hungUp => written = EndOf(Len(messages))
  /\ \A i, j \in DOMAIN messages : i < j => messages[i].head + messages[i].len < messages[j].head
  /\ \A j \in DOMAIN messages : messages[j].line = ReverseLine =>
       /\ messages[j].len = 0
       /\ \A i \in DOMAIN messages : i > j => messages[i].line = ResponseLine
  /\ ~reversed => \A i \in DOMAIN messages : messages[i].line # ResponseLine

(* At most one read is complete, and it has just what it waited for. *)
ReadPending == \E i \in DOMAIN ready : ready[i] = Read

ReadInv ==
  /\ \A i, j \in DOMAIN ready : ready[i] = Read /\ ready[j] = Read => i = j
  /\ phase = "content" /\ ReadPending => Missing = 0

(* Where in_stream_ begins. *)
PositionInv ==
  /\ consumed <= received
  /\ current \in 0..Len(messages)
  /\ phase = "head" =>
       /\ Len(processed) = current
       /\ HeadOf(current) <= consumed /\ consumed <= EndOf(current)
  /\ phase = "content" =>
       /\ Len(processed) + 1 = current
       /\ consumed = HeadOf(current)
       /\ ~reversed => requestLen = messages[current].len
  /\ reversed =>
       /\ requestLen = 0
       /\ \E j \in 1..Len(processed) : j \in DOMAIN messages /\ messages[j].line = ReverseLine

(* What has been processed. *)
ProcessedInv ==
  \A k \in DOMAIN processed :
    /\ k \in DOMAIN messages
    /\ processed[k].msg = k
    /\ processed[k].from = messages[k].head + 1
    /\ messages[k].line # ResponseLine =>
         /\ processed[k].to = messages[k].head + messages[k].len
         /\ processed[k].handler = QueryHandler(RouteTable, messages[k].line)

CutInv == StreamInv /\ ReadInv /\ PositionInv /\ ProcessedInv

-----------------------------------------------------------------------------
LEMMA LineParts ==
  \A scheme, method, uri : /\ Line(scheme, method, uri).scheme = scheme
                           /\ Line(scheme, method, uri).method = method
BY DEF Line

(* Lines that tell the kinds of messages apart. *)
LEMMA LinesDiffer ==
  /\ ReverseLine # ResponseLine /\ Setup # ReverseLine /\ Setup # ResponseLine
  /\ \A line \in HeadOnlyLines : line # ResponseLine /\ line # ReverseLine
<1>1. /\ ReverseLine.scheme = "HTTP" /\ ReverseLine.method = "POST"
      /\ ResponseLine.scheme = ""
      /\ Setup.scheme = "RTSP"
  BY LineParts DEF ReverseLine, ResponseLine, Setup
<1>2. \A line \in HeadOnlyLines : line.scheme # "" /\ line.method # "POST"
  <2>1. \A line \in HeadOnlyLines :
          \E scheme \in {"SIP", "HTTP", "RTSP"}, method \in {"OPTIONS", "DELETE", "PUT"} :
            \E uri : line = Line(scheme, method, uri)
    BY Zenon DEF HeadOnlyLines, Foreign
  <2>2. ASSUME NEW scheme \in {"SIP", "HTTP", "RTSP"}, NEW method \in {"OPTIONS", "DELETE", "PUT"},
               NEW uri
        PROVE  Line(scheme, method, uri).scheme # "" /\ Line(scheme, method, uri).method # "POST"
    BY LineParts
  <2>3. ASSUME NEW line \in HeadOnlyLines PROVE line.scheme # "" /\ line.method # "POST"
    <3>1. PICK scheme \in {"SIP", "HTTP", "RTSP"}, method \in {"OPTIONS", "DELETE", "PUT"} :
            \E uri : line = Line(scheme, method, uri)
      BY <2>1
    <3>2. PICK uri : line = Line(scheme, method, uri)
      BY <3>1
    <3> QED BY <2>2, <3>1, <3>2
  <2> QED BY <2>3
<1> QED BY <1>1, <1>2

(* A queue and one element less, or more. *)
LEMMA Popped ==
  ASSUME NEW S, NEW s \in Seq(S), s # <<>>
  PROVE  /\ Tail(s) \in Seq(S)
         /\ Len(Tail(s)) = Len(s) - 1
         /\ \A i \in DOMAIN Tail(s) : i + 1 \in DOMAIN s /\ Tail(s)[i] = s[i + 1]
         /\ 1 \in DOMAIN s /\ Head(s) = s[1] /\ Head(s) \in S
         /\ \A i \in DOMAIN s : i = 1 \/ i - 1 \in DOMAIN Tail(s)
BY HeadTailProperties, LenProperties, EmptySeq

LEMMA Pushed ==
  ASSUME NEW S, NEW s \in Seq(S), NEW e \in S
  PROVE  /\ Append(s, e) \in Seq(S)
         /\ Len(Append(s, e)) = Len(s) + 1
         /\ DOMAIN Append(s, e) = DOMAIN s \cup {Len(s) + 1}
         /\ Len(s) + 1 \notin DOMAIN s
         /\ \A i \in DOMAIN s : Append(s, e)[i] = s[i]
         /\ Append(s, e)[Len(s) + 1] = e
BY AppendProperties, LenProperties

(* Whatever is put behind a sequence, the sequence stays before it. *)
LEMMA Prefixed ==
  ASSUME NEW S, NEW s \in Seq(S), NEW e
  PROVE  \A i \in DOMAIN s : i \in DOMAIN Append(s, e) /\ Append(s, e)[i] = s[i]
<1>1. DOMAIN s = 1..Len(s) /\ Len(s) \in Nat
  BY LenProperties
<1>2. DOMAIN Append(s, e) = 1..(Len(s) + 1) /\ \A i \in 1..Len(s) : Append(s, e)[i] = s[i]
  BY <1>1
<1> QED BY <1>1, <1>2

LEMMA RemoveType ==
  ASSUME NEW S, NEW s \in Seq(S), NEW i \in DOMAIN s
  PROVE  RemoveAt(s, i) \in Seq(S)
<1>1. i \in 1..Len(s) /\ Len(s) \in Nat
  BY LenProperties
<1>2. SubSeq(s, 1, i - 1) \in Seq(S) /\ SubSeq(s, i + 1, Len(s)) \in Seq(S)
  BY <1>1, SubSeqProperties
<1> QED BY <1>2, ConcatProperties DEF RemoveAt

(* The operations that are complete. *)
LEMMA OpTypes ==
  /\ Read \in Ops /\ Read.op = "read"
  /\ \A n \in Int : Sent(n) \in Ops /\ Sent(n) # Read /\ Sent(n).op = "sent"
  /\ \A op \in Ops : op.op = "read" <=> op = Read
  /\ \A op \in Ops : op.units \in Int
BY DEF Ops, Read, Sent

-----------------------------------------------------------------------------
(* The queue of completed operations. *)

NoRead(queue)      == \A i \in DOMAIN queue : queue[i] # Read
AtMostOneRead(queue) == \A i, j \in DOMAIN queue : queue[i] = Read /\ queue[j] = Read => i = j

(* A step that may complete the read. *)
LEMMA CompletedReads ==
  ASSUME NEW queue \in Seq(Ops), AtMostOneRead(queue), Completed(queue)
  PROVE  /\ ready' \in Seq(Ops)
         /\ AtMostOneRead(ready')
         /\ NoRead(queue) /\ ReadPending' => ReadIsDone'
         /\ ~NoRead(queue) => ready' = queue
<1>1. CASE ready' = queue /\ ~(ReadIsDone' /\ NoRead(queue))
  BY <1>1 DEF NoRead, ReadPending
<1>2. CASE ready' = Append(queue, Read) /\ ReadIsDone' /\ NoRead(queue)
  <2>1. /\ ready' \in Seq(Ops)
        /\ DOMAIN ready' = DOMAIN queue \cup {Len(queue) + 1}
        /\ \A i \in DOMAIN queue : ready'[i] = queue[i]
    BY <1>2, OpTypes, Pushed
  <2> QED BY <1>2, <2>1 DEF NoRead, AtMostOneRead
<1> QED BY <1>1, <1>2 DEF Completed, NoRead

(* Once a read is taken from the queue there is none left. *)
LEMMA ReadTaken ==
  ASSUME Types, CutInv, HandlerOf("read")
  PROVE  /\ Tail(ready) \in Seq(Ops) /\ NoRead(Tail(ready))
         /\ ReadPending
         /\ \A n \in Int : /\ Append(Tail(ready), Sent(n)) \in Seq(Ops)
                          /\ NoRead(Append(Tail(ready), Sent(n)))
<1>1. ready \in Seq(Ops) /\ ready # <<>>
  BY DEF Types, HandlerOf
<1>2. ready[1] = Read /\ 1 \in DOMAIN ready
  BY <1>1, Popped, OpTypes DEF HandlerOf
<1>3. \A i \in DOMAIN Tail(ready) : i + 1 # 1 /\ i + 1 \in DOMAIN ready /\ Tail(ready)[i] = ready[i + 1]
  <2>1. \A i \in DOMAIN Tail(ready) : i \in Nat \ {0}
    BY <1>1, Popped, LenProperties
  <2> QED BY <1>1, <2>1, Popped
<1>4. NoRead(Tail(ready)) /\ Tail(ready) \in Seq(Ops)
  BY <1>1, <1>2, <1>3, Popped DEF CutInv, ReadInv, NoRead
<1>5. ASSUME NEW n \in Int
      PROVE  Append(Tail(ready), Sent(n)) \in Seq(Ops) /\ NoRead(Append(Tail(ready), Sent(n)))
  BY <1>4, Pushed, OpTypes DEF NoRead
<1> QED BY <1>2, <1>4, <1>5 DEF ReadPending

(* When something else is taken, a read stays where it is. *)
LEMMA SentTaken ==
  ASSUME Types, CutInv, HandlerOf("sent")
  PROVE  /\ Tail(ready) \in Seq(Ops) /\ AtMostOneRead(Tail(ready))
         /\ ~NoRead(Tail(ready)) => ReadPending
         /\ Head(ready).units \in Int
<1>1. ready \in Seq(Ops) /\ ready # <<>>
  BY DEF Types, HandlerOf
<1>2. \A i \in DOMAIN Tail(ready) : i \in Int /\ i + 1 \in DOMAIN ready /\ Tail(ready)[i] = ready[i + 1]
  <2>1. \A i \in DOMAIN Tail(ready) : i \in Int
    BY <1>1, Popped, LenProperties
  <2> QED BY <1>1, <2>1, Popped
<1>3. AtMostOneRead(Tail(ready))
  <2> SUFFICES ASSUME NEW i \in DOMAIN Tail(ready), NEW j \in DOMAIN Tail(ready),
                      Tail(ready)[i] = Read, Tail(ready)[j] = Read
               PROVE  i = j
    BY DEF AtMostOneRead
  <2>1. i + 1 = j + 1
    BY <1>2 DEF CutInv, ReadInv
  <2> QED BY <1>2, <2>1
<1> QED BY <1>1, <1>2, <1>3, Popped, OpTypes DEF NoRead, ReadPending

(* A read that is complete waits for nothing more. *)
LEMMA DoneIsPrecise ==
  ASSUME ReadIsDone', phase' = "content" PROVE Missing' = 0
BY DEF ReadIsDone

-----------------------------------------------------------------------------
(* What a message that is processed leaves behind. *)

(* The response that is posted. *)
LEMMA PostTypes ==
  ASSUME Types, CutInv, HandlerOf("read"), NEW i \in Nat, PostSendResponse(i)
  PROVE  /\ writes' \in Seq(Writes) /\ answers' \in Seq(Nat) /\ drained' = drained
         /\ ready' \in Seq(Ops) /\ AtMostOneRead(ready') /\ (ReadPending' => ReadIsDone')
<1> DEFINE w == [first |-> drained + 1, next |-> drained + 1,
                 to |-> ResponseUnits * (Len(answers) + 1)]
<1>1. answers' = Append(answers, i) /\ drained' = drained
  BY DEF PostSendResponse
<1>2. Len(answers) \in Nat /\ drained \in Int
  BY LenProperties DEF Types
<1>3. w \in Writes /\ w.to - drained \in Int
  BY <1>2 DEF Writes, ResponseUnits
<1> DEFINE rest(n) == [w EXCEPT !.next = @ + n]
<1>4. PICK n \in 0..(w.to - drained) :
        \/ UNCHANGED writes /\ Completed(Append(Tail(ready), Sent(n)))
        \/ writes' = Append(writes, rest(n)) /\ Completed(Tail(ready))
  BY DEF PostSendResponse
<1>5. n \in Int /\ rest(n) \in Writes
  BY <1>2, <1>3, <1>4 DEF Writes
<1>6. writes' \in Seq(Writes)
  <2> HIDE DEF rest
  <2>1. writes \in Seq(Writes)
    BY DEF Types
  <2> QED BY <1>4, <1>5, <2>1, Pushed
<1>7. answers' \in Seq(Nat)
  BY <1>1, Pushed DEF Types
<1>8. \E queue \in Seq(Ops) : NoRead(queue) /\ Completed(queue)
  BY <1>4, <1>5, ReadTaken
<1> QED BY <1>1, <1>6, <1>7, <1>8, CompletedReads DEF NoRead, AtMostOneRead

LEMMA ProcessTypes ==
  ASSUME Types, CutInv, HandlerOf("read"), NEW i \in DOMAIN messages, NEW from, NEW to,
         Process(i, from, to)
  PROVE  /\ writes' \in Seq(Writes) /\ answers' \in Seq(Nat) /\ drained' = drained
         /\ ready' \in Seq(Ops) /\ AtMostOneRead(ready') /\ (ReadPending' => ReadIsDone')
         /\ \E handler \in Handlers :
              /\ processed' = Append(processed,
                                [msg |-> i, from |-> from, to |-> to, handler |-> handler])
              /\ reversed => reversed' = TRUE
              /\ ~reversed => /\ handler = QueryHandler(RouteTable, messages[i].line)
                              /\ reversed' = (handler = "post_reverse_handler")
<1>1. i \in Nat /\ messages[i] \in Messages
  BY LenProperties DEF Types
<1>2. \E queue \in Seq(Ops) : NoRead(queue) /\ queue = Tail(ready)
  BY ReadTaken
<1>3. CASE reversed /\ ProcessResponse(i, from, to)
  <2>1. ready' \in Seq(Ops) /\ AtMostOneRead(ready') /\ (ReadPending' => ReadIsDone')
    BY <1>2, <1>3, CompletedReads DEF ProcessResponse, NoRead, AtMostOneRead
  <2>2. "none" \in Handlers
    BY DEF Handlers
  <2> QED BY <1>3, <2>1, <2>2 DEF ProcessResponse, outVars, Types
<1>4. CASE ~reversed /\ ProcessRequest(i, from, to)
  <2> DEFINE handler == QueryHandler(RouteTable, messages[i].line)
  <2>1. handler \in Handlers
    BY <1>1 DEF Handlers, Messages
  <2>2. /\ processed' = Append(processed,
                          [msg |-> i, from |-> from, to |-> to, handler |-> handler])
        /\ reversed' = (handler = "post_reverse_handler")
        /\ \/ UNCHANGED outVars /\ Completed(Tail(ready))
           \/ PostSendResponse(i)
    BY <1>4 DEF ProcessRequest
  <2> HIDE DEF handler
  <2> DEFINE posted == /\ writes' \in Seq(Writes) /\ answers' \in Seq(Nat) /\ drained' = drained
                       /\ ready' \in Seq(Ops) /\ AtMostOneRead(ready')
                       /\ ReadPending' => ReadIsDone'
  <2>3. ASSUME UNCHANGED outVars, Completed(Tail(ready)) PROVE posted
    <3>1. ready' \in Seq(Ops) /\ AtMostOneRead(ready') /\ (ReadPending' => ReadIsDone')
      BY <1>2, <2>3, CompletedReads DEF NoRead, AtMostOneRead
    <3> QED BY <2>3, <3>1 DEF outVars, Types
  <2>4. ASSUME PostSendResponse(i) PROVE posted
    BY <1>1, <2>4, PostTypes
  <2>5. posted
    BY <2>2, <2>3, <2>4
  <2> QED BY <1>4, <2>1, <2>2, <2>5 DEF handler
<1> QED BY <1>3, <1>4 DEF Process

-----------------------------------------------------------------------------
(* The sender. *)

(* The bounds of a message. *)
LEMMA MessageBounds ==
  ASSUME Types
  PROVE  /\ DOMAIN messages = 1..Len(messages) /\ Len(messages) \in Nat
         /\ \A i \in DOMAIN messages :
              /\ i \in Nat /\ i # 0
              /\ messages[i].head \in Nat /\ messages[i].len \in Nat
              /\ messages[i].line \in Lines
              /\ HeadOf(i) = messages[i].head
              /\ EndOf(i) = messages[i].head + messages[i].len
<1>1. DOMAIN messages = 1..Len(messages) /\ Len(messages) \in Nat
  BY LenProperties DEF Types
<1>2. ASSUME NEW i \in DOMAIN messages
      PROVE  /\ i \in Nat /\ i # 0
             /\ messages[i].head \in Nat /\ messages[i].len \in Nat
             /\ messages[i].line \in Lines
  <2>1. i \in Nat /\ i # 0
    BY <1>1
  <2>2. messages[i] \in Messages
    BY <1>1, LenProperties DEF Types
  <2> QED BY <2>1, <2>2 DEF Messages
<1> QED BY <1>1, <1>2 DEF HeadOf, EndOf

(* A message that is written goes behind all others. *)
LEMMA WriteStep ==
  ASSUME Types, CutInv, NEW line \in Lines, NEW len \in Nat, Write(line, len),
         line = ReverseLine => len = 0,
         line = ResponseLine => reversed,
         line # ResponseLine => \A i \in DOMAIN messages : messages[i].line # ReverseLine
  PROVE  Types' /\ CutInv'
<1> DEFINE new == [line |-> line, head |-> written + 1, len |-> len]
<1>0. PICK last \in Nat : last = Len(messages) + 1
  BY LenProperties DEF Types
<1>1. /\ messages' = Append(messages, new)
      /\ written' = written + 1 + len
      /\ ~hungUp
      /\ UNCHANGED <<hungUp, stopped, received, consumed, phase, current, requestLen, reversed,
                     processed, answers, drained, writes, ready>>
  BY DEF Write, streamVars, readVars, outVars
<1>2. new \in Messages
  BY DEF Messages, Types
<1>3. /\ messages' \in Seq(Messages)
      /\ Len(messages') = last
      /\ DOMAIN messages' = DOMAIN messages \cup {last} /\ last \notin DOMAIN messages
      /\ \A i \in DOMAIN messages : messages'[i] = messages[i]
      /\ messages'[last] = new
      /\ DOMAIN messages = 1..Len(messages) /\ Len(messages) \in Nat
      /\ last \in Nat \ {0} /\ last - 1 = Len(messages)
  BY <1>0, <1>1, <1>2, Pushed, LenProperties DEF Types
<1>4. \A i \in DOMAIN messages : /\ messages[i].head \in Nat /\ messages[i].len \in Nat
                                 /\ EndOf(i) = messages[i].head + messages[i].len
  BY MessageBounds
<1>5. Types'
  BY <1>1, <1>3 DEF Types
<1> HIDE DEF new
<1>6. new.line = line /\ new.head = written + 1 /\ new.len = len
  BY DEF new
<1>7. \A i \in 0..Len(messages) : EndOf(i)' = EndOf(i) /\ HeadOf(i)' = HeadOf(i)
  BY <1>3 DEF EndOf, HeadOf
<1>8. written = EndOf(Len(messages)) /\ EndOf(last)' = written'
  <2>1. EndOf(last)' = messages'[last].head + messages'[last].len
    BY <1>3 DEF EndOf
  <2> QED BY <1>1, <1>3, <1>6, <2>1 DEF CutInv, StreamInv, Types
<1>9. StreamInv'
  <2>1. \A i \in DOMAIN messages' : messages'[i].head = EndOf(i - 1)' + 1
    <3>1. ASSUME NEW i \in DOMAIN messages PROVE messages'[i].head = EndOf(i - 1)' + 1
      BY <1>3, <1>7 DEF CutInv, StreamInv
    <3>2. messages'[last].head = EndOf(last - 1)' + 1
      BY <1>0, <1>3, <1>6, <1>7, <1>8
    <3> QED BY <1>3, <3>1, <3>2
  <2>2. ASSUME NEW i \in DOMAIN messages', NEW j \in DOMAIN messages', i < j
        PROVE  messages'[i].head + messages'[i].len < messages'[j].head
    <3>1. CASE j \in DOMAIN messages
      BY <1>3, <2>2, <3>1 DEF CutInv, StreamInv
    <3>2. CASE j = last
      <4>1. i \in DOMAIN messages
        BY <1>3, <2>2, <3>2
      <4>2. messages[i].head + messages[i].len <= written
        <5>1. CASE i = Len(messages)
          BY <1>4, <1>8, <4>1, <5>1 DEF Types
        <5>2. CASE i < Len(messages)
          <6>1. Len(messages) \in DOMAIN messages
            BY <1>3, <4>1
          <6>2. messages[i].head + messages[i].len < messages[Len(messages)].head
            BY <4>1, <5>2, <6>1 DEF CutInv, StreamInv
          <6>3. messages[Len(messages)].head <= EndOf(Len(messages))
            BY <1>4, <6>1
          <6> QED BY <1>4, <1>8, <4>1, <6>1, <6>2, <6>3 DEF Types
        <5> QED BY <1>3, <4>1, <5>1, <5>2
      <4>3. /\ messages'[i] = messages[i] /\ messages'[j].head = written + 1
            /\ messages[i].head \in Nat /\ messages[i].len \in Nat /\ written \in Nat
        BY <1>3, <1>4, <1>6, <3>2, <4>1 DEF Types
      <4> QED BY <4>2, <4>3
    <3> QED BY <1>3, <3>1, <3>2
  <2>3. ASSUME NEW j \in DOMAIN messages', messages'[j].line = ReverseLine
        PROVE  /\ messages'[j].len = 0
               /\ \A i \in DOMAIN messages' : i > j => messages'[i].line = ResponseLine
    <3>1. CASE j = last
      BY <1>3, <1>6, <2>3, <3>1
    <3>2. CASE j \in DOMAIN messages
      <4>1. line = ResponseLine
        BY <1>3, <2>3, <3>2
      <4> QED BY <1>3, <1>6, <2>3, <3>2, <4>1 DEF CutInv, StreamInv
    <3> QED BY <1>3, <3>1, <3>2
  <2>4. ~reversed' => \A i \in DOMAIN messages' : messages'[i].line # ResponseLine
    BY <1>1, <1>3, <1>6 DEF CutInv, StreamInv
  <2>5. ~hungUp' => written' = EndOf(Len(messages))'
    BY <1>0, <1>3, <1>8
  <2> QED BY <2>1, <2>2, <2>3, <2>4, <2>5 DEF StreamInv
<1>10. ReadInv'
  BY <1>1 DEF CutInv, ReadInv, ReadPending, Missing, Buffered
<1>11. PositionInv'
  <2>1. current \in 0..Len(messages) /\ (current # 0 => current \in DOMAIN messages)
    BY <1>3 DEF CutInv, PositionInv
  <2>2. HeadOf(current)' = HeadOf(current) /\ EndOf(current)' = EndOf(current)
    BY <1>1, <1>3, <2>1 DEF HeadOf, EndOf
  <2>3. phase = "content" => messages'[current] = messages[current]
    <3>1. phase = "content" => current # 0
      <4>1. Len(processed) \in Nat
        BY LenProperties DEF Types
      <4> QED BY <4>1 DEF CutInv, PositionInv
    <3> QED BY <1>3, <2>1, <3>1
  <2>4. current \in 0..Len(messages')
    BY <1>3, <2>1
  <2>5. reversed' => requestLen' = 0 /\ \E j \in 1..Len(processed') :
                       j \in DOMAIN messages' /\ messages'[j].line = ReverseLine
    BY <1>1, <1>3 DEF CutInv, PositionInv
  <2> QED BY <1>1, <2>2, <2>3, <2>4, <2>5 DEF CutInv, PositionInv
<1>12. ProcessedInv'
  BY <1>1, <1>3 DEF CutInv, ProcessedInv
<1> QED BY <1>5, <1>9, <1>10, <1>11, <1>12 DEF CutInv

LEMMA SenderSteps ==
  ASSUME Types, CutInv, SendRequest \/ SendResponse
  PROVE  Types' /\ CutInv'
<1>1. CASE SendRequest
  <2>1. PICK line \in {Setup, ReverseLine} \cup HeadOnlyLines, len \in Nat :
          Write(line, len) /\ (line = ReverseLine => len = 0)
    BY <1>1, LinesDiffer, ConstantsAssumption DEF SendRequest
  <2>2. line \in Lines /\ line # ResponseLine
    BY <2>1, LinesDiffer DEF Lines
  <2>3. \A i \in DOMAIN messages : messages[i].line # ReverseLine
    BY <1>1 DEF SendRequest
  <2> QED BY <2>1, <2>2, <2>3, WriteStep
<1>2. CASE SendResponse
  <2>1. PICK len \in Nat : Write(ResponseLine, len)
    BY <1>2, ConstantsAssumption DEF SendResponse
  <2>2. ResponseLine \in Lines /\ reversed
    BY <1>2 DEF Lines, SendResponse
  <2> QED BY <2>1, <2>2, LinesDiffer, WriteStep
<1> QED BY <1>1, <1>2

-----------------------------------------------------------------------------
(* The socket. *)

(* A step that takes nothing from in_stream_ and hands nothing over. *)
LEMMA SameCut ==
  ASSUME Types, CutInv,
         UNCHANGED <<messages, consumed, phase, current, requestLen, reversed, processed>>,
         received' \in Nat, received <= received',
         (written' = written /\ hungUp' = hungUp) \/ hungUp',
         AtMostOneRead(ready'),
         phase = "content" /\ ReadPending' => Missing' = 0
  PROVE  CutInv'
<1>1. StreamInv'
  BY MessageBounds DEF CutInv, StreamInv, EndOf
<1>2. ReadInv'
  BY DEF ReadInv, AtMostOneRead
<1>3. PositionInv'
  BY DEF Types, CutInv, PositionInv, HeadOf, EndOf
<1>4. ProcessedInv'
  BY DEF CutInv, ProcessedInv
<1> QED BY <1>1, <1>2, <1>3, <1>4 DEF CutInv

(* The queue after a step that may complete the read. *)
LEMMA QueueStep ==
  ASSUME Types, CutInv, Completed(ready),
         phase' = "content" => phase = "content" /\ (ReadPending => Missing' = 0)
  PROVE  /\ ready' \in Seq(Ops)
         /\ AtMostOneRead(ready')
         /\ phase' = "content" /\ ReadPending' => Missing' = 0
<1>1. ready \in Seq(Ops) /\ AtMostOneRead(ready)
  BY DEF Types, CutInv, ReadInv, AtMostOneRead
<1>2. /\ ready' \in Seq(Ops) /\ AtMostOneRead(ready')
      /\ NoRead(ready) /\ ReadPending' => ReadIsDone'
  BY <1>1, CompletedReads
<1>3. ~NoRead(ready) => ReadPending
  BY DEF NoRead, ReadPending
<1> QED BY <1>2, <1>3, DoneIsPrecise

LEMMA SocketSteps ==
  ASSUME Types, CutInv, HangUp \/ Disconnect \/ Arrival
  PROVE  Types' /\ CutInv'
<1>1. CASE HangUp
  <2>1. /\ UNCHANGED <<messages, received, consumed, phase, current, requestLen, reversed,
                       processed, answers, drained, writes>>
        /\ Completed(ready) /\ hungUp' /\ written' \in Nat
    BY <1>1 DEF HangUp, streamVars, readVars, outVars, Types
  <2>2. Missing' = Missing
    BY <2>1 DEF Missing, Buffered
  <2>3. /\ ready' \in Seq(Ops) /\ AtMostOneRead(ready')
        /\ phase' = "content" /\ ReadPending' => Missing' = 0
    BY <2>1, <2>2, QueueStep DEF CutInv, ReadInv
  <2>4. CutInv'
    BY <2>1, <2>3, SameCut DEF Types
  <2> QED BY <2>1, <2>3, <2>4 DEF Types
<1>2. CASE Disconnect
  <2>1. /\ UNCHANGED <<messages, written, hungUp, received, consumed, phase, current, requestLen,
                       reversed, processed, answers, drained, writes>>
        /\ Completed(ready)
    BY <1>2 DEF Disconnect, senderVars, readVars, outVars
  <2>2. Missing' = Missing
    BY <2>1 DEF Missing, Buffered
  <2>3. /\ ready' \in Seq(Ops) /\ AtMostOneRead(ready')
        /\ phase' = "content" /\ ReadPending' => Missing' = 0
    BY <2>1, <2>2, QueueStep DEF CutInv, ReadInv
  <2>4. CutInv'
    BY <2>1, <2>3, SameCut DEF Types
  <2> QED BY <2>1, <2>3, <2>4 DEF Types
<1>3. ASSUME NEW n \in 1..(written - received), Receive(n) PROVE Types' /\ CutInv'
  <2>1. /\ UNCHANGED <<messages, written, hungUp, consumed, phase, current, requestLen,
                       reversed, processed, answers, drained, writes>>
        /\ received' = received + n
        /\ Completed(ready)
    BY <1>3 DEF Receive, senderVars, readVars, outVars
  <2>2. n \in Nat /\ n > 0 /\ received' \in Nat /\ received <= received'
    BY <1>3, <2>1 DEF Types
  <2>3. phase = "content" => ~ReadPending
    BY <1>3, <2>2 DEF Receive, Wants, CutInv, ReadInv
  <2>4. /\ ready' \in Seq(Ops) /\ AtMostOneRead(ready')
        /\ phase' = "content" /\ ReadPending' => Missing' = 0
    BY <2>1, <2>3, QueueStep
  <2>5. CutInv'
    BY <2>1, <2>2, <2>4, SameCut
  <2> QED BY <2>1, <2>2, <2>4, <2>5 DEF Types
<1> QED BY <1>1, <1>2, <1>3 DEF Arrival

(* A write that is complete, or has failed, joins the queue. *)
LEMMA SentJoins ==
  ASSUME Types, CutInv, NEW n \in Int, ready' = Append(ready, Sent(n)),
         UNCHANGED <<messages, written, hungUp, received, consumed, phase, current, requestLen,
                     reversed, processed, answers, drained>>,
         writes' \in Seq(Writes)
  PROVE  Types' /\ CutInv'
<1>1. /\ ready' \in Seq(Ops)
      /\ DOMAIN ready' = DOMAIN ready \cup {Len(ready) + 1}
      /\ \A i \in DOMAIN ready : ready'[i] = ready[i]
      /\ ready'[Len(ready) + 1] # Read
  BY Pushed, OpTypes DEF Types
<1>2. AtMostOneRead(ready') /\ (ReadPending' => ReadPending)
  BY <1>1 DEF CutInv, ReadInv, AtMostOneRead, ReadPending
<1>3. Missing' = Missing
  BY DEF Missing, Buffered
<1>4. phase = "content" /\ ReadPending' => Missing' = 0
  BY <1>2, <1>3 DEF CutInv, ReadInv
<1>5. CutInv'
  BY <1>2, <1>4, SameCut DEF Types
<1> QED BY <1>1, <1>5 DEF Types

LEMMA WriteSteps ==
  ASSUME Types, CutInv, Transmit \/ WriteFails
  PROVE  Types' /\ CutInv'
<1>1. CASE Transmit
  <2>1. UNCHANGED <<messages, written, hungUp, received, consumed, phase, current, requestLen,
                    reversed, processed, answers, drained>>
    BY <1>1 DEF Transmit, senderVars, streamVars, readVars
  <2>2. PICK i \in DOMAIN writes :
          \E n \in 1..(writes[i].to - writes[i].next + 1) :
            \/ /\ writes' = RemoveAt(writes, i)
               /\ ready' = Append(ready, Sent(writes[i].to - writes[i].first + 1))
            \/ /\ writes' = [writes EXCEPT ![i].next = @ + n]
               /\ UNCHANGED ready
    BY <1>1 DEF Transmit
  <2>3. writes \in Seq(Writes) /\ writes[i] \in Writes /\ i \in DOMAIN writes
    BY <2>2, LenProperties DEF Types
  <2>4. writes[i].to - writes[i].first + 1 \in Int
    BY <2>3 DEF Writes
  <2>5. CASE /\ writes' = RemoveAt(writes, i)
             /\ ready' = Append(ready, Sent(writes[i].to - writes[i].first + 1))
    BY <2>1, <2>3, <2>4, <2>5, RemoveType, SentJoins
  <2>6. ASSUME NEW n \in Int, writes' = [writes EXCEPT ![i].next = @ + n], UNCHANGED ready
        PROVE  Types' /\ CutInv'
    <3>1. writes \in [1..Len(writes) -> Writes] /\ Len(writes) \in Nat
      BY <2>3, LenProperties
    <3>2. [writes EXCEPT ![i].next = @ + n] \in [1..Len(writes) -> Writes]
      <4>1. \A w \in Writes : [w EXCEPT !.next = @ + n] \in Writes
        BY <2>6 DEF Writes
      <4> QED BY <2>3, <3>1, <4>1
    <3>3. writes' \in Seq(Writes)
      BY <2>6, <3>1, <3>2, IsASeq
    <3>4. CutInv'
      <4>1. /\ UNCHANGED <<messages, consumed, phase, current, requestLen, reversed, processed,
                            received, written, hungUp, ready>>
            /\ received \in Nat
        BY <2>1, <2>6 DEF Types
      <4>2. AtMostOneRead(ready')
        BY <4>1 DEF CutInv, ReadInv, AtMostOneRead
      <4>3. phase = "content" /\ ReadPending' => Missing' = 0
        <5>1. ReadPending' = ReadPending
          BY <4>1 DEF ReadPending
        <5>2. Missing' = Missing
          BY <4>1 DEF Missing, Buffered
        <5> QED BY <5>1, <5>2 DEF CutInv, ReadInv
      <4> QED BY <4>1, <4>2, <4>3, SameCut
    <3> QED BY <2>1, <2>6, <3>3, <3>4 DEF Types
  <2> QED BY <2>2, <2>5, <2>6
<1>2. CASE WriteFails
  <2>1. /\ UNCHANGED <<messages, written, hungUp, received, consumed, phase, current, requestLen,
                       reversed, processed, answers, drained>>
        /\ writes # <<>> /\ writes' = Tail(writes)
        /\ ready' = Append(ready, Sent(Head(writes).next - Head(writes).first))
    BY <1>2 DEF WriteFails, senderVars, streamVars, readVars
  <2>2. writes' \in Seq(Writes) /\ Head(writes) \in Writes
    BY <2>1, Popped DEF Types
  <2>3. Head(writes).next - Head(writes).first \in Int
    BY <2>2 DEF Writes
  <2> QED BY <2>1, <2>2, <2>3, SentJoins
<1> QED BY <1>1, <1>2

-----------------------------------------------------------------------------
(* The handlers. *)

LEMMA SentStep ==
  ASSUME Types, CutInv, OnResponseSent
  PROVE  Types' /\ CutInv'
<1>1. /\ UNCHANGED <<messages, written, hungUp, received, consumed, phase, current, requestLen,
                     reversed, processed, answers, writes>>
      /\ Completed(Tail(ready)) /\ HandlerOf("sent")
  BY DEF OnResponseSent, senderVars, streamVars, readVars
<1>2. drained' \in Int
  <2>1. ResponseUnits * Len(answers) \in Int /\ drained + Head(ready).units \in Int
    BY <1>1, SentTaken, LenProperties DEF Types, ResponseUnits
  <2> QED BY <2>1 DEF OnResponseSent
<1>3. /\ Tail(ready) \in Seq(Ops) /\ AtMostOneRead(Tail(ready))
      /\ ~NoRead(Tail(ready)) => ReadPending
  BY <1>1, SentTaken
<1>4. /\ ready' \in Seq(Ops) /\ AtMostOneRead(ready')
      /\ NoRead(Tail(ready)) /\ ReadPending' => ReadIsDone'
  BY <1>1, <1>3, CompletedReads
<1>5. Missing' = Missing
  BY <1>1 DEF Missing, Buffered
<1>6. phase = "content" /\ ReadPending' => Missing' = 0
  BY <1>1, <1>3, <1>4, <1>5, DoneIsPrecise DEF CutInv, ReadInv
<1>7. CutInv'
  BY <1>1, <1>4, <1>6, SameCut DEF Types
<1> QED BY <1>1, <1>2, <1>4, <1>7 DEF Types

LEMMA FailsStep ==
  ASSUME Types, CutInv, ReadFails
  PROVE  Types' /\ CutInv'
<1>1. /\ UNCHANGED <<messages, written, hungUp, received, consumed, current, requestLen,
                     reversed, processed, answers, drained, writes>>
      /\ ready' = Tail(ready) /\ phase' = "closed" /\ HandlerOf("read")
  BY DEF ReadFails, senderVars, readVars, outVars
<1>2. ready' \in Seq(Ops) /\ NoRead(ready')
  BY <1>1, ReadTaken
<1>3. Types'
  BY <1>1, <1>2 DEF Types
<1>4. StreamInv'
  BY <1>1 DEF CutInv, StreamInv, EndOf
<1>5. ReadInv'
  BY <1>1, <1>2 DEF ReadInv, NoRead
<1>6. PositionInv'
  BY <1>1 DEF CutInv, PositionInv
<1>7. ProcessedInv'
  BY <1>1 DEF CutInv, ProcessedInv
<1> QED BY <1>3, <1>4, <1>5, <1>6, <1>7 DEF CutInv

(* A head that begins where in_stream_ does is that of the next message. *)
LEMMA HeadIsNext ==
  ASSUME Types, CutInv, phase = "head", NEW i \in DOMAIN messages, consumed + 1 = messages[i].head
  PROVE  i = current + 1 /\ i = Len(processed) + 1
<1>1. /\ Len(processed) = current
      /\ HeadOf(current) <= consumed /\ consumed <= EndOf(current)
      /\ current \in 0..Len(messages)
  BY DEF CutInv, PositionInv
<1>2. i > current
  <2>1. ASSUME i <= current PROVE FALSE
    <3>1. current \in DOMAIN messages /\ i \in DOMAIN messages
      BY <1>1, <2>1, MessageBounds
    <3>2. messages[i].head <= messages[current].head
      <4>1. CASE i = current
        BY <3>1, <4>1, MessageBounds
      <4>2. CASE i < current
        <5>1. messages[i].head + messages[i].len < messages[current].head
          BY <3>1, <4>2 DEF CutInv, StreamInv
        <5> QED BY <3>1, <5>1, MessageBounds
      <4> QED BY <2>1, <3>1, <4>1, <4>2, MessageBounds
    <3>3. messages[current].head <= consumed
      BY <1>1, <3>1, MessageBounds
    <3>4. consumed + 1 = messages[i].head
      OBVIOUS
    <3>5. messages[i].head \in Nat /\ messages[current].head \in Nat /\ consumed \in Nat
      BY <3>1, MessageBounds DEF Types
    <3> QED BY <3>2, <3>3, <3>4, <3>5
  <2> QED BY <1>1, <2>1, MessageBounds
<1>3. current + 1 \in DOMAIN messages
  BY <1>1, <1>2, MessageBounds
<1>4. messages[current + 1].head = EndOf(current) + 1
  <2>1. PICK next \in DOMAIN messages : next = current + 1
    BY <1>3
  <2>2. messages[next].head = EndOf(next - 1) + 1
    BY DEF CutInv, StreamInv
  <2>3. next - 1 = current
    BY <1>1, <2>1
  <2> QED BY <2>1, <2>2, <2>3
<1>5. ~(current + 1 < i)
  <2>1. ASSUME current + 1 < i PROVE FALSE
    <3>1. messages[current + 1].head + messages[current + 1].len < messages[i].head
      BY <1>3, <2>1 DEF CutInv, StreamInv
    <3>2. EndOf(current) \in Nat /\ messages[current + 1].len \in Nat /\ consumed \in Nat
      <4>1. current = 0 \/ current \in DOMAIN messages
        BY <1>1, MessageBounds
      <4>2. EndOf(current) \in Nat
        BY <4>1, MessageBounds DEF EndOf
      <4> QED BY <1>3, <4>2, MessageBounds DEF Types
    <3>3. messages[current + 1].head <= consumed
      BY <1>4, <3>1, <3>2
    <3> QED BY <1>1, <1>4, <3>2, <3>3
  <2> QED BY <2>1
<1> QED BY <1>1, <1>2, <1>5, MessageBounds

(* On a reversed connection only responses follow. *)
LEMMA ResponsesFollow ==
  ASSUME Types, CutInv, reversed, NEW i \in DOMAIN messages, i = Len(processed) + 1
  PROVE  messages[i].line = ResponseLine
<1>1. PICK j \in 1..Len(processed) : j \in DOMAIN messages /\ messages[j].line = ReverseLine
  BY DEF CutInv, PositionInv
<1>2. i > j
  BY <1>1, LenProperties DEF Types
<1> QED BY <1>1, <1>2 DEF CutInv, StreamInv

(* A request reverses the connection if it is POST /reverse. *)
LEMMA RequestsReverse ==
  ASSUME Types, CutInv, ~reversed, NEW i \in DOMAIN messages
  PROVE  /\ messages[i].line # ResponseLine
         /\ QueryHandler(RouteTable, messages[i].line) = "post_reverse_handler" =>
              messages[i].line = ReverseLine /\ messages[i].len = 0
<1>1. messages[i].line # ResponseLine
  BY DEF CutInv, StreamInv
<1>2. messages[i].line \in {Setup, ReverseLine} \cup HeadOnlyLines
  BY <1>1, MessageBounds DEF Lines
<1>3. QueryHandler(RouteTable, messages[i].line) = "post_reverse_handler" =>
        messages[i].line = ReverseLine
  BY <1>2, RoutesAssumption
<1> QED BY <1>1, <1>3 DEF CutInv, StreamInv

(* The next message is processed, and the read of a head is posted. *)
LEMMA ProcessStep ==
  ASSUME Types, CutInv, HandlerOf("read"), NEW i \in DOMAIN messages, i = Len(processed) + 1,
         NEW to \in Int, Process(i, messages[i].head + 1, to),
         UNCHANGED <<messages, written, hungUp, received>>,
         consumed' \in Nat, consumed' <= received,
         messages[i].head <= consumed', consumed' <= messages[i].head + messages[i].len,
         ~reversed => to = messages[i].head + messages[i].len /\ requestLen' = messages[i].len,
         reversed => requestLen' = requestLen,
         current' = i, phase' = "head"
  PROVE  Types' /\ CutInv'
<1> DEFINE record(handler) == [msg |-> i, from |-> messages[i].head + 1, to |-> to,
                               handler |-> handler]
<1>1. PICK handler \in Handlers :
        /\ processed' = Append(processed, record(handler))
        /\ reversed => reversed' = TRUE
        /\ ~reversed => /\ handler = QueryHandler(RouteTable, messages[i].line)
                        /\ reversed' = (handler = "post_reverse_handler")
  BY ProcessTypes
<1>2. /\ writes' \in Seq(Writes) /\ answers' \in Seq(Nat) /\ drained' = drained
      /\ ready' \in Seq(Ops) /\ AtMostOneRead(ready')
  BY ProcessTypes
<1>3. /\ i \in Nat /\ i # 0 /\ i \in 1..Len(messages)
      /\ messages[i].head \in Nat /\ messages[i].len \in Nat
  BY MessageBounds
<1>4. record(handler) \in Records
  BY <1>3 DEF Records
<1>5. /\ record(handler).msg = i /\ record(handler).from = messages[i].head + 1
      /\ record(handler).to = to /\ record(handler).handler = handler
  OBVIOUS
<1> HIDE DEF record
<1>6. /\ processed' \in Seq(Records)
      /\ Len(processed') = i
      /\ DOMAIN processed' = DOMAIN processed \cup {i}
      /\ \A k \in DOMAIN processed : processed'[k] = processed[k]
      /\ processed'[i] = record(handler)
      /\ Len(processed) \in Nat
  BY <1>1, <1>4, Pushed, LenProperties DEF Types
<1>7. requestLen' \in Nat /\ reversed' \in BOOLEAN
  BY <1>1, <1>3 DEF Types
<1>8. Types'
  BY <1>2, <1>3, <1>6, <1>7 DEF Types
<1>9. ~reversed' => ~reversed
  BY <1>1
<1>10. StreamInv'
  BY <1>9 DEF CutInv, StreamInv, EndOf
<1>11. ReadInv'
  BY <1>2 DEF ReadInv, AtMostOneRead
<1>12. PositionInv'
  <2>1. HeadOf(i)' = messages[i].head /\ EndOf(i)' = messages[i].head + messages[i].len
    BY <1>3 DEF HeadOf, EndOf
  <2>2. reversed' => requestLen' = 0
    <3>1. CASE reversed
      BY <3>1 DEF CutInv, PositionInv
    <3>2. CASE ~reversed
      BY <1>1, <3>2, RequestsReverse
    <3> QED BY <3>1, <3>2
  <2>3. reversed' => \E j \in 1..Len(processed') : j \in DOMAIN messages /\ messages[j].line = ReverseLine
    <3>1. CASE reversed
      BY <1>6, <3>1 DEF CutInv, PositionInv
    <3>2. CASE ~reversed
      <4>1. reversed' => messages[i].line = ReverseLine
        BY <1>1, <3>2, RequestsReverse
      <4> QED BY <1>3, <1>6, <4>1
    <3> QED BY <3>1, <3>2
  <2> QED BY <1>3, <1>6, <2>1, <2>2, <2>3 DEF PositionInv
<1>13. ProcessedInv'
  <2>1. ASSUME NEW k \in DOMAIN processed'
        PROVE  /\ k \in DOMAIN messages
               /\ processed'[k].msg = k
               /\ processed'[k].from = messages[k].head + 1
               /\ messages[k].line # ResponseLine =>
                    /\ processed'[k].to = messages[k].head + messages[k].len
                    /\ processed'[k].handler = QueryHandler(RouteTable, messages[k].line)
    <3>1. CASE k \in DOMAIN processed
      BY <1>6, <3>1 DEF CutInv, ProcessedInv
    <3>2. CASE k = i
      <4>1. messages[i].line # ResponseLine => ~reversed
        BY ResponsesFollow
      <4> QED BY <1>1, <1>5, <1>6, <3>2, <4>1
    <3> QED BY <1>6, <2>1, <3>1, <3>2
  <2>2. messages' = messages /\ RouteTable' = RouteTable /\ ResponseLine' = ResponseLine
    OBVIOUS
  <2> QED BY <2>1, <2>2 DEF ProcessedInv
<1> QED BY <1>8, <1>10, <1>11, <1>12, <1>13 DEF CutInv

LEMMA HeadSteps ==
  ASSUME Types, CutInv, OnMessageHeadReceived
  PROVE  Types' /\ CutInv'
<1>1. PICK i \in HeadsBuffered :
        BadHead(i) \/ HeadOnly(i) \/ ContentToRead(i) \/ ContentBuffered(i)
  BY DEF OnMessageHeadReceived
<1>2. /\ HandlerOf("read") /\ phase = "head"
      /\ UNCHANGED <<messages, written, hungUp, received>>
  BY DEF OnMessageHeadReceived, senderVars
<1>3. /\ i \in DOMAIN messages
      /\ messages[i].head \in Nat /\ messages[i].len \in Nat
      /\ messages[i].head <= received
  <2>1. i \in DOMAIN messages /\ messages[i].head \in (consumed + 1)..received
    BY <1>1 DEF HeadsBuffered
  <2>2. consumed \in Nat /\ received \in Nat
    BY DEF Types
  <2> QED BY <2>1, <2>2, MessageBounds
<1>4. ASSUME GoodHead(i)
      PROVE  /\ i = current + 1 /\ i = Len(processed) + 1
             /\ current' = i /\ consumed + 1 = messages[i].head
             /\ requestLen' = IF reversed THEN requestLen ELSE messages[i].len
  BY <1>2, <1>3, <1>4, HeadIsNext DEF GoodHead
<1>5. CASE BadHead(i)
  <2>1. /\ UNCHANGED <<current, requestLen, reversed, processed, answers, drained, writes>>
        /\ consumed' = messages[i].head /\ phase' = "closed" /\ ready' = Tail(ready)
    BY <1>5 DEF BadHead, readVars, outVars
  <2>2. ready' \in Seq(Ops) /\ NoRead(ready')
    BY <1>2, <2>1, ReadTaken
  <2>3. Types'
    BY <1>2, <1>3, <2>1, <2>2 DEF Types
  <2>4. StreamInv'
    BY <1>2, <2>1 DEF CutInv, StreamInv, EndOf
  <2>5. ReadInv'
    BY <2>1, <2>2 DEF ReadInv, NoRead
  <2>6. PositionInv'
    BY <1>2, <1>3, <2>1 DEF CutInv, PositionInv
  <2>7. ProcessedInv'
    BY <1>2, <2>1 DEF CutInv, ProcessedInv
  <2> QED BY <2>3, <2>4, <2>5, <2>6, <2>7 DEF CutInv
<1>6. CASE HeadOnly(i)
  <2>1. /\ GoodHead(i) /\ messages[i].len = 0
        /\ consumed' = messages[i].head /\ phase' = "head"
        /\ Process(i, messages[i].head + 1, messages[i].head)
    BY <1>2, <1>6 DEF HeadOnly
  <2> QED BY <1>2, <1>3, <1>4, <2>1, ProcessStep
<1>7. CASE ContentBuffered(i)
  <2>1. /\ GoodHead(i) /\ messages[i].len = received - messages[i].head
        /\ consumed' = received /\ phase' = "head"
        /\ Process(i, messages[i].head + 1, received)
    BY <1>2, <1>7 DEF ContentBuffered
  <2>2. received \in Nat /\ received = messages[i].head + messages[i].len
    BY <1>3, <2>1 DEF Types
  <2> QED BY <1>2, <1>3, <1>4, <2>1, <2>2, ProcessStep
<1>8. CASE ContentToRead(i)
  <2>1. /\ GoodHead(i) /\ UNCHANGED <<reversed, processed, answers, drained, writes>>
        /\ consumed' = messages[i].head /\ phase' = "content"
        /\ Completed(Tail(ready))
    BY <1>8 DEF ContentToRead, outVars
  <2>2. /\ i = current + 1 /\ i = Len(processed) + 1 /\ current' = i
        /\ requestLen' = IF reversed THEN requestLen ELSE messages[i].len
    BY <1>4, <2>1
  <2>3. /\ ready' \in Seq(Ops) /\ AtMostOneRead(ready')
        /\ ReadPending' => ReadIsDone'
    BY <1>2, <2>1, ReadTaken, CompletedReads DEF NoRead, AtMostOneRead
  <2>4. Types'
    BY <1>2, <1>3, <2>1, <2>2, <2>3, MessageBounds DEF Types
  <2>5. StreamInv'
    BY <1>2, <2>1 DEF CutInv, StreamInv, EndOf
  <2>6. ReadInv'
    BY <2>3, DoneIsPrecise DEF ReadInv, AtMostOneRead
  <2>7. PositionInv'
    <3>1. HeadOf(i)' = messages[i].head /\ i \in 0..Len(messages)
      BY <1>2, <1>3, MessageBounds DEF HeadOf
    <3>2. reversed => requestLen' = 0
      BY <2>2 DEF CutInv, PositionInv
    <3>3. reversed' => \E j \in 1..Len(processed') :
                         j \in DOMAIN messages' /\ messages'[j].line = ReverseLine
      BY <1>2, <2>1 DEF CutInv, PositionInv
    <3> QED BY <1>2, <1>3, <2>1, <2>2, <3>1, <3>2, <3>3 DEF PositionInv
  <2>8. ProcessedInv'
    BY <1>2, <2>1 DEF CutInv, ProcessedInv
  <2> QED BY <2>4, <2>5, <2>6, <2>7, <2>8 DEF CutInv
<1> QED BY <1>1, <1>5, <1>6, <1>7, <1>8

LEMMA ContentStep ==
  ASSUME Types, CutInv, OnMessageContentReceived
  PROVE  Types' /\ CutInv'
<1>1. /\ HandlerOf("read") /\ phase = "content"
      /\ UNCHANGED <<messages, written, hungUp, received, current, requestLen>>
      /\ consumed' = received /\ phase' = "head"
      /\ Process(current, consumed + 1, received)
  BY DEF OnMessageContentReceived, senderVars
<1>2. PICK i \in DOMAIN messages : i = current /\ i = Len(processed) + 1
  <2>1. current \in 0..Len(messages) /\ current = Len(processed) + 1 /\ Len(processed) \in Nat
    BY <1>1, LenProperties DEF CutInv, PositionInv, Types
  <2> QED BY <2>1, MessageBounds
<1>3. /\ messages[i].head \in Nat /\ messages[i].len \in Nat
      /\ received \in Nat /\ consumed \in Nat /\ requestLen \in Nat
  BY MessageBounds DEF Types
<1>4. consumed = messages[i].head /\ received = consumed + requestLen
  <2>1. Missing = 0
    BY <1>1, ReadTaken DEF CutInv, ReadInv
  <2>2. consumed = HeadOf(i)
    BY <1>1, <1>2 DEF CutInv, PositionInv
  <2>3. HeadOf(i) = messages[i].head
    BY MessageBounds
  <2>4. requestLen - (received - consumed) = 0
    BY <2>1 DEF Missing, Buffered
  <2> QED BY <1>3, <2>2, <2>3, <2>4
<1>5. /\ ~reversed => requestLen = messages[i].len
      /\ reversed => requestLen = 0
  BY <1>1, <1>2 DEF CutInv, PositionInv
<1>6. Process(i, messages[i].head + 1, received)
  BY <1>1, <1>2, <1>4
<1>7. current' = i
  BY <1>1, <1>2
<1> QED BY <1>1, <1>2, <1>3, <1>4, <1>5, <1>6, <1>7, ProcessStep

-----------------------------------------------------------------------------
LEMMA CutInit == Init => Types /\ CutInv
<1> SUFFICES ASSUME Init PROVE Types /\ CutInv
  OBVIOUS
<1>1. \A S : <<>> \in Seq(S) /\ DOMAIN <<>> = {} /\ Len(<<>>) = 0
  BY EmptySeq
<1>2. Types
  <2>1. /\ messages \in Seq(Messages) /\ processed \in Seq(Records) /\ writes \in Seq(Writes)
        /\ ready \in Seq(Ops) /\ answers \in Seq(Nat)
    BY <1>1, Zenon DEF Init
  <2>2. /\ written \in Nat /\ received \in Nat /\ consumed \in Nat /\ current \in Nat
        /\ requestLen \in Nat /\ drained \in Int
    BY DEF Init
  <2>3. reversed \in BOOLEAN /\ phase \in {"head", "content", "closed"}
    BY Zenon DEF Init
  <2> QED BY <2>1, <2>2, <2>3, Zenon DEF Types
<1>3. StreamInv
  BY <1>1 DEF Init, StreamInv, EndOf
<1>4. ReadInv
  BY <1>1 DEF Init, ReadInv
<1>5. PositionInv
  BY <1>1 DEF Init, PositionInv, HeadOf, EndOf
<1>6. ProcessedInv
  BY <1>1 DEF Init, ProcessedInv
<1> QED BY <1>2, <1>3, <1>4, <1>5, <1>6 DEF CutInv

LEMMA CutNext == Types /\ CutInv /\ [Next]_vars => Types' /\ CutInv'
<1> SUFFICES ASSUME Types, CutInv, [Next]_vars PROVE Types' /\ CutInv'
  OBVIOUS
<1>1. CASE SendRequest \/ SendResponse
  BY <1>1, SenderSteps
<1>2. CASE HangUp \/ Disconnect \/ Arrival
  BY <1>2, SocketSteps
<1>3. CASE Transmit \/ WriteFails
  BY <1>3, WriteSteps
<1>4. CASE Handler
  BY <1>4, HeadSteps, FailsStep, ContentStep, SentStep DEF Handler
<1>5. CASE UNCHANGED vars
  <2>1. UNCHANGED <<messages, written, hungUp, received, consumed, phase, current, requestLen,
                    reversed, processed, answers, drained, writes, ready>>
    BY <1>5 DEF vars, senderVars, streamVars, readVars, outVars
  <2>2. Types'
    BY <2>1 DEF Types
  <2>3. AtMostOneRead(ready') /\ Missing' = Missing /\ (ReadPending' => ReadPending)
    BY <2>1 DEF CutInv, ReadInv, AtMostOneRead, Missing, Buffered, ReadPending
  <2>4. CutInv'
    BY <2>1, <2>3, SameCut DEF Types, CutInv, ReadInv
  <2> QED BY <2>2, <2>4
<1> QED BY <1>1, <1>2, <1>3, <1>4, <1>5 DEF Next

(* What is processed is served as its line says. *)
LEMMA CutIsIntact == Types /\ CutInv => MessagesIntact
<1> SUFFICES ASSUME Types, CutInv, NEW k \in DOMAIN processed
             PROVE  /\ processed[k].msg = k
                    /\ processed[k].from = messages[k].head + 1
                    /\ messages[k].line # ResponseLine =>
                         /\ processed[k].to = messages[k].head + messages[k].len
                         /\ ServedBy(messages[k].line, processed[k].handler)
  BY DEF MessagesIntact
<1>1. /\ k \in DOMAIN messages
      /\ processed[k].msg = k
      /\ processed[k].from = messages[k].head + 1
      /\ messages[k].line # ResponseLine =>
           /\ processed[k].to = messages[k].head + messages[k].len
           /\ processed[k].handler = QueryHandler(RouteTable, messages[k].line)
  BY DEF CutInv, ProcessedInv
<1>2. messages[k].line # ResponseLine =>
        messages[k].line \in {Setup, ReverseLine} \cup HeadOnlyLines
  BY <1>1, MessageBounds DEF Lines
<1>3. \A line \in {Setup, ReverseLine} \cup HeadOnlyLines :
        ServedBy(line, QueryHandler(RouteTable, line))
  BY RoutesAssumption
<1> QED BY <1>1, <1>2, <1>3

(* However long the stream is and wherever TCP cuts it, every message is
   processed in its turn, each request with exactly its own content and by the
   handler that initialize_request_handlers registered for it. *)
THEOREM MessagesStayIntact == Spec => []MessagesIntact
<1>1. Spec => [](Types /\ CutInv)
  BY CutInit, CutNext, PTL DEF Spec
<1> QED BY <1>1, CutIsIntact, PTL
-----------------------------------------------------------------------------
(***************************************************************************)
(* The responses.                                                          *)
(*                                                                         *)
(* A response that is posted during the write of the one before makes both *)
(* writes send what that has not sent yet.  It is not, when the sender is  *)
(* patient or the socket roomy: whenever a message is there to be          *)
(* processed, all the units of the responses before have been sent, and if *)
(* their write has still to be handled it is so before the read of the     *)
(* message.                                                                *)
(***************************************************************************)

(* A read that is in the queue is still complete. *)
DoneInv == ReadPending => ReadIsDone

(* The messages up to the nth that are answered. *)
KnownUpTo(n) == {i \in 1..n : messages[i].line # Foreign}

(* Which message each response answers. *)
AnswersInv ==
  /\ Len(answers) <= Len(processed)
  /\ \A k \in DOMAIN answers :
       answers[k] \in DOMAIN messages /\ Cardinality(KnownUpTo(answers[k])) = k
  /\ ~reversed => Cardinality(KnownUpTo(Len(processed))) = Len(answers)

(* A patient sender has at most one request that is not processed. *)
PatientInv == patient /\ ~reversed => Len(messages) <= Len(processed) + 1

Unprocessed == ~reversed /\ Len(processed) < Len(messages)

Posted == ResponseUnits * Len(answers)
Unsunk == Sent(intact - drained)

(* The write of all that is in out_stream_, when it has sent what is sent. *)
OnlyWrite == [first |-> drained + 1, next |-> intact + 1, to |-> Posted]

(* What is in out_stream_ has been sent and taken out of it; or it has been sent,
   or as much as could be, and is still to be taken out; or it is being sent. *)
OutInv ==
  /\ drained \in 0..intact
  /\ \/ drained = intact /\ writes = <<>> /\ ready \in {<<>>, <<Read>>}
     \/ writes = <<>> /\ ready \in {<<Unsunk>>, <<Unsunk, Read>>, <<Read, Unsunk>>}
     \/ intact < Posted /\ writes = <<OnlyWrite>> /\ ready \in {<<>>, <<Read>>}
  /\ roomy \/ Unprocessed => intact = Posted /\ ready # <<Read, Unsunk>>

SentInv ==
  patient \/ roomy => /\ garbled = FALSE
                      /\ intact \in 0..Posted
                      /\ stopped \/ OutInv

ResponseInv == DoneInv /\ AnswersInv /\ PatientInv /\ SentInv

(* What becomes of the short queues of OutInv when a read may complete. *)
LEMMA ShortQueues ==
  ASSUME NEW sent, sent # Read
  PROVE  /\ Completed(<<>>) => ready' \in {<<>>, <<Read>>}
         /\ Completed(<<Read>>) => ready' = <<Read>>
         /\ Completed(<<sent>>) => ready' \in {<<sent>>, <<sent, Read>>}
         /\ Completed(<<sent, Read>>) => ready' = <<sent, Read>>
         /\ Completed(<<Read, sent>>) => ready' = <<Read, sent>>
<1> DEFINE more(queue) == ReadIsDone' /\ \A i \in DOMAIN queue : queue[i] # Read
<1>1. \A queue : Completed(queue) => ready' = IF more(queue) THEN Append(queue, Read) ELSE queue
  BY DEF Completed
<1>2. ~more(<<Read>>) /\ ~more(<<sent, Read>>) /\ ~more(<<Read, sent>>)
  <2>1. /\ 1 \in DOMAIN <<Read>> /\ <<Read>>[1] = Read
        /\ 2 \in DOMAIN <<sent, Read>> /\ <<sent, Read>>[2] = Read
        /\ 1 \in DOMAIN <<Read, sent>> /\ <<Read, sent>>[1] = Read
    OBVIOUS
  <2> QED BY <2>1, Zenon
<1> HIDE DEF more
<1> QED BY <1>1, <1>2

(* The next message is answered, unless it comes on a reversed connection or has
   a scheme of its own. *)
LEMMA ProcessKinds ==
  ASSUME Types, CutInv, NEW i \in DOMAIN messages, NEW from, NEW to, Process(i, from, to)
  PROVE  /\ Len(processed') = Len(processed) + 1
         /\ \/ reversed /\ reversed' = reversed /\ UNCHANGED outVars /\ Completed(Tail(ready))
            \/ ~reversed /\ messages[i].line = Foreign /\ UNCHANGED outVars /\ Completed(Tail(ready))
            \/ ~reversed /\ messages[i].line # Foreign /\ PostSendResponse(i)
<1>1. CASE reversed /\ ProcessResponse(i, from, to)
  BY <1>1, LenProperties DEF ProcessResponse, Types
<1>2. CASE ~reversed /\ ProcessRequest(i, from, to)
  <2>1. messages[i].line \in {Setup, ReverseLine} \cup HeadOnlyLines
    BY <1>2, RequestsReverse, MessageBounds DEF Lines
  <2>2. QueryHandler(RouteTable, messages[i].line) = "UNKNOWN_SCHEME" <=> messages[i].line = Foreign
    BY <2>1, RoutesAssumption
  <2>3. Len(processed') = Len(processed) + 1
    BY <1>2, LenProperties DEF ProcessRequest, Types
  <2> QED BY <1>2, <2>2, <2>3 DEF ProcessRequest
<1> QED BY <1>1, <1>2 DEF Process

(* What the handlers of a read come to. *)
Processes(i) ==
  /\ i = Len(processed) + 1
  /\ UNCHANGED stopped
  /\ \E from, to : Process(i, from, to)

LEMMA ReadKinds ==
  ASSUME Types, CutInv, OnMessageHeadReceived \/ ReadFails \/ OnMessageContentReceived
  PROVE  /\ HandlerOf("read") /\ UNCHANGED senderVars
         /\ \/ /\ UNCHANGED <<reversed, processed, outVars>>
               /\ ready' = Tail(ready) /\ (stopped' = stopped \/ stopped' = TRUE)
            \/ /\ UNCHANGED <<reversed, processed, outVars, stopped>>
               /\ Completed(Tail(ready))
            \/ \E i \in DOMAIN messages : Processes(i)
<1>1. CASE ReadFails
  BY <1>1 DEF ReadFails, readVars
<1>2. CASE OnMessageHeadReceived
  <2>1. PICK i \in HeadsBuffered :
          BadHead(i) \/ HeadOnly(i) \/ ContentToRead(i) \/ ContentBuffered(i)
    BY <1>2 DEF OnMessageHeadReceived
  <2>2. HandlerOf("read") /\ phase = "head" /\ UNCHANGED senderVars /\ i \in DOMAIN messages
    BY <1>2, <2>1 DEF OnMessageHeadReceived, HeadsBuffered
  <2>3. GoodHead(i) => i = Len(processed) + 1 /\ UNCHANGED stopped
    BY <2>2, HeadIsNext DEF GoodHead
  <2>4. BadHead(i) => /\ UNCHANGED <<reversed, processed, outVars>>
                      /\ ready' = Tail(ready) /\ stopped' = TRUE
    BY DEF BadHead, readVars
  <2>5. ContentToRead(i) => /\ UNCHANGED <<reversed, processed, outVars, stopped>>
                            /\ Completed(Tail(ready))
    BY <2>3 DEF ContentToRead
  <2>6. HeadOnly(i) \/ ContentBuffered(i) => Processes(i)
    BY <2>3, Zenon DEF HeadOnly, ContentBuffered, Processes
  <2> QED BY <2>1, <2>2, <2>4, <2>5, <2>6
<1>3. CASE OnMessageContentReceived
  <2>1. /\ HandlerOf("read") /\ phase = "content" /\ UNCHANGED senderVars /\ UNCHANGED stopped
        /\ Process(current, consumed + 1, received)
    BY <1>3 DEF OnMessageContentReceived
  <2>2. current \in 0..Len(messages) /\ current = Len(processed) + 1 /\ Len(processed) \in Nat
    BY <2>1, LenProperties DEF CutInv, PositionInv, Types
  <2>3. current \in DOMAIN messages
    BY <2>2, MessageBounds
  <2>4. Processes(current)
    BY <2>1, <2>2, Zenon DEF Processes
  <2> QED BY <2>1, <2>3, <2>4
<1> QED BY <1>1, <1>2, <1>3

-----------------------------------------------------------------------------
(* A read that is in the queue. *)

(* The read of a message that is not there is not in the queue. *)
LEMMA NothingToRead ==
  ASSUME Types, CutInv, DoneInv, ~hungUp, ~stopped, Len(processed) = Len(messages)
  PROVE  ~ReadPending
<1>1. ~(phase = "content")
  BY MessageBounds DEF CutInv, PositionInv
<1>2. ASSUME phase = "head", NEW i \in DOMAIN messages PROVE messages[i].head <= consumed
  <2>1. current = Len(messages) /\ HeadOf(current) <= consumed /\ current \in DOMAIN messages
    BY <1>2, MessageBounds DEF CutInv, PositionInv
  <2>2. messages[i].head <= messages[current].head
    <3>1. CASE i = current
      BY <2>1, <3>1, MessageBounds
    <3>2. CASE i < current
      <4>1. messages[i].head + messages[i].len < messages[current].head
        BY <2>1, <3>2 DEF CutInv, StreamInv
      <4> QED BY <2>1, <4>1, MessageBounds
    <3> QED BY <2>1, <3>1, <3>2, MessageBounds
  <2>3. messages[i].head \in Nat /\ messages[current].head <= consumed
    BY <1>2, <2>1, MessageBounds
  <2>4. messages[current].head \in Nat /\ consumed \in Nat
    BY <2>1, MessageBounds DEF Types
  <2>5. \A x, y, z \in Nat : x <= y /\ y <= z => x <= z
    OBVIOUS
  <2> QED BY <2>2, <2>3, <2>4, <2>5
<1>3. phase = "head" => HeadsBuffered = {}
  BY <1>2, MessageBounds DEF HeadsBuffered, Types
<1> QED BY <1>1, <1>3 DEF DoneInv, ReadIsDone, Over

LEMMA DoneNext ==
  ASSUME Types, Types', CutInv, DoneInv, [Next]_vars
  PROVE  DoneInv'
<1>1. ready \in Seq(Ops) /\ AtMostOneRead(ready) /\ (~NoRead(ready) => ReadPending)
  BY DEF Types, CutInv, ReadInv, AtMostOneRead, NoRead, ReadPending
<1>2. ASSUME Completed(ready), ReadIsDone => ReadIsDone' PROVE DoneInv'
  BY <1>1, <1>2, CompletedReads DEF DoneInv
<1>3. CASE SendRequest \/ SendResponse
  <2>1. PICK line, len : Write(line, len)
    BY <1>3, Zenon DEF SendRequest, SendResponse
  <2>2. /\ UNCHANGED <<hungUp, stopped, received, consumed, phase, requestLen, ready>> /\ ~hungUp
        /\ messages' = Append(messages, [line |-> line, head |-> written + 1, len |-> len])
    BY <2>1 DEF Write, streamVars, readVars
  <2>3. HeadsBuffered \subseteq HeadsBuffered'
    <3>1. \A i \in DOMAIN messages : i \in DOMAIN messages' /\ messages'[i] = messages[i]
      BY <2>2, MessageBounds DEF Types
    <3> QED BY <2>2, <3>1 DEF HeadsBuffered
  <2> QED BY <2>2, <2>3 DEF DoneInv, ReadPending, ReadIsDone, Over, Missing, Buffered
<1>4. CASE HangUp
  <2>1. UNCHANGED <<messages, stopped, received, consumed, phase, requestLen>> /\ ~hungUp
    BY <1>4 DEF HangUp, streamVars, readVars
  <2>2. ReadIsDone => ReadIsDone'
    BY <2>1 DEF ReadIsDone, Over, Missing, Buffered, HeadsBuffered
  <2> QED BY <1>2, <1>4, <2>2 DEF HangUp
<1>5. CASE Disconnect
  <2>1. UNCHANGED <<messages, received, consumed, phase, requestLen>> /\ stopped' = TRUE
    BY <1>5 DEF Disconnect, senderVars, readVars
  <2>2. ReadIsDone => ReadIsDone'
    BY <2>1 DEF ReadIsDone, Over, Missing, Buffered, HeadsBuffered
  <2> QED BY <1>2, <1>5, <2>2 DEF Disconnect
<1>6. ASSUME NEW n \in 1..(written - received), Receive(n) PROVE DoneInv'
  <2>1. n \in Nat /\ n > 0 /\ received < written /\ Missing \in Int
    BY DEF Types, Missing, Buffered
  <2>2. ~ReadIsDone
    BY <1>6, <2>1 DEF Receive, Wants, ReadIsDone, Over, Types
  <2> QED BY <1>2, <1>6, <2>2 DEF Receive
<1>7. CASE Transmit \/ WriteFails
  <2>1. UNCHANGED <<messages, written, hungUp, stopped, received, consumed, phase, requestLen>>
    BY <1>7 DEF Transmit, WriteFails, senderVars, streamVars, readVars
  <2>2. ReadIsDone' <=> ReadIsDone
    BY <2>1 DEF ReadIsDone, Over, Missing, Buffered, HeadsBuffered
  <2>3. \E n : ready' = Append(ready, Sent(n)) \/ ready' = ready
    BY <1>7, Zenon DEF Transmit, WriteFails
  <2>4. ReadPending' => ReadPending
    <3>1. PICK n : ready' = Append(ready, Sent(n)) \/ ready' = ready
      BY <2>3
    <3>2. Sent(n) # Read
      <4>1. Sent(n).op = "sent" /\ Read.op = "read"
        BY DEF Sent, Read
      <4> QED BY <4>1
    <3>3. ready' = Append(ready, Sent(n)) =>
            \A i \in DOMAIN ready' : ready'[i] = Sent(n) \/ (i \in DOMAIN ready /\ ready'[i] = ready[i])
      BY <1>1, LenProperties
    <3> QED BY <3>1, <3>2, <3>3 DEF ReadPending
  <2> QED BY <2>2, <2>4 DEF DoneInv
<1>8. CASE OnResponseSent
  <2>1. /\ UNCHANGED <<messages, written, hungUp, stopped, received, consumed, phase, requestLen>>
        /\ HandlerOf("sent") /\ Completed(Tail(ready))
    BY <1>8 DEF OnResponseSent, senderVars, streamVars, readVars
  <2>2. ReadIsDone' <=> ReadIsDone
    BY <2>1 DEF ReadIsDone, Over, Missing, Buffered, HeadsBuffered
  <2> QED BY <2>1, <2>2, SentTaken, CompletedReads DEF DoneInv
<1>9. CASE OnMessageHeadReceived \/ ReadFails \/ OnMessageContentReceived
  <2>1. HandlerOf("read")
    BY <1>9, ReadKinds
  <2>2. Tail(ready) \in Seq(Ops) /\ NoRead(Tail(ready))
    BY <2>1, ReadTaken
  <2>3. ready' = Tail(ready) => DoneInv'
    BY <2>2 DEF NoRead, DoneInv, ReadPending
  <2>4. Completed(Tail(ready)) => DoneInv'
    BY <2>2, CompletedReads DEF NoRead, AtMostOneRead, DoneInv
  <2>5. ASSUME NEW i \in DOMAIN messages, PostSendResponse(i) PROVE DoneInv'
    BY <2>1, <2>5, PostTypes, MessageBounds DEF DoneInv
  <2>6. ASSUME NEW i \in DOMAIN messages, Processes(i) PROVE DoneInv'
    BY <2>4, <2>5, <2>6, ProcessKinds DEF Processes
  <2> QED BY <1>9, <2>3, <2>4, <2>6, ReadKinds
<1>10. CASE UNCHANGED vars
  BY <1>10 DEF vars, senderVars, streamVars, readVars, DoneInv, ReadPending, ReadIsDone, Over,
               Missing, Buffered, HeadsBuffered
<1> QED
  BY <1>3, <1>4, <1>5, <1>6, <1>7, <1>8, <1>9, <1>10 DEF Next, Arrival, Handler
-----------------------------------------------------------------------------
(* Which message each response answers. *)

LEMMA OneMoreKnown ==
  ASSUME NEW n \in Nat
  PROVE  /\ IsFiniteSet(KnownUpTo(n))
         /\ messages[n + 1].line = Foreign => KnownUpTo(n + 1) = KnownUpTo(n)
         /\ messages[n + 1].line # Foreign =>
              Cardinality(KnownUpTo(n + 1)) = Cardinality(KnownUpTo(n)) + 1
<1>1. IsFiniteSet(1..n) /\ KnownUpTo(n) \in SUBSET (1..n)
  BY FS_Interval DEF KnownUpTo
<1>2. IsFiniteSet(KnownUpTo(n))
  BY <1>1, FS_Subset
<1>3. 1..(n + 1) = (1..n) \cup {n + 1} /\ n + 1 \notin 1..n
  OBVIOUS
<1>4. messages[n + 1].line = Foreign => KnownUpTo(n + 1) = KnownUpTo(n)
  BY <1>3 DEF KnownUpTo
<1>5. messages[n + 1].line # Foreign =>
        KnownUpTo(n + 1) = KnownUpTo(n) \cup {n + 1} /\ n + 1 \notin KnownUpTo(n)
  BY <1>3 DEF KnownUpTo
<1> QED BY <1>2, <1>4, <1>5, FS_AddElement

LEMMA AnswersNext ==
  ASSUME Types, Types', CutInv, CutInv', AnswersInv, [Next]_vars
  PROVE  AnswersInv'
<1>1. ASSUME UNCHANGED <<processed, reversed, answers>>,
             \A i \in DOMAIN messages : i \in DOMAIN messages' /\ messages'[i] = messages[i]
      PROVE  AnswersInv'
  <2>1. \A n \in 0..Len(messages) : KnownUpTo(n)' = KnownUpTo(n)
    BY <1>1, MessageBounds DEF KnownUpTo
  <2>2. Len(processed) \in 0..Len(messages)
    <3>1. Len(processed) \in Nat /\ DOMAIN processed = 1..Len(processed)
      BY LenProperties DEF Types
    <3>2. Len(processed) # 0 => Len(processed) \in DOMAIN messages
      BY <3>1 DEF CutInv, ProcessedInv
    <3> QED BY <3>1, <3>2, MessageBounds
  <2>3. \A k \in DOMAIN answers : answers[k] \in 0..Len(messages)
    BY MessageBounds DEF AnswersInv
  <2> QED BY <1>1, <2>1, <2>2, <2>3 DEF AnswersInv
<1>2. CASE SendRequest \/ SendResponse
  <2>1. PICK line, len : Write(line, len)
    BY <1>2, Zenon DEF SendRequest, SendResponse
  <2>2. /\ UNCHANGED <<processed, reversed, answers>>
        /\ messages' = Append(messages, [line |-> line, head |-> written + 1, len |-> len])
    BY <2>1 DEF Write, readVars, outVars
  <2>3. \A i \in DOMAIN messages : i \in DOMAIN messages' /\ messages'[i] = messages[i]
    <3>1. messages \in Seq(Messages)
      BY DEF Types
    <3> DEFINE new == [line |-> line, head |-> written + 1, len |-> len]
    <3>2. messages' = Append(messages, new)
      BY <2>2
    <3> HIDE DEF new
    <3> QED BY <3>1, <3>2, Prefixed
  <2> QED BY <1>1, <2>2, <2>3
<1>3. ASSUME NEW i \in DOMAIN messages, Processes(i), UNCHANGED messages PROVE AnswersInv'
  <2>1. PICK n \in Nat : n = Len(processed) /\ i = n + 1 /\ Len(processed') = n + 1
    BY <1>3, ProcessKinds, LenProperties DEF Processes, Types
  <2>2. \A m : KnownUpTo(m)' = KnownUpTo(m)
    BY <1>3 DEF KnownUpTo
  <2>3. Len(answers) \in Nat /\ DOMAIN answers = 1..Len(answers)
    BY LenProperties DEF Types
  <2>4. CASE reversed /\ reversed' = reversed /\ answers' = answers
    BY <1>3, <2>1, <2>2, <2>3, <2>4 DEF AnswersInv
  <2>5. CASE ~reversed /\ messages[i].line = Foreign /\ answers' = answers
    BY <1>3, <2>1, <2>2, <2>3, <2>5, OneMoreKnown DEF AnswersInv
  <2>6. CASE ~reversed /\ messages[i].line # Foreign /\ answers' = Append(answers, i)
    <3>1. i \in Nat /\ answers \in Seq(Nat)
      BY MessageBounds DEF Types
    <3>2. /\ Len(answers') = Len(answers) + 1
          /\ DOMAIN answers' = DOMAIN answers \cup {Len(answers) + 1}
          /\ \A k \in DOMAIN answers : answers'[k] = answers[k]
          /\ answers'[Len(answers) + 1] = i
      BY <2>6, <3>1, Pushed
    <3>3. Cardinality(KnownUpTo(i)) = Len(answers) + 1
      BY <2>1, <2>6, OneMoreKnown DEF AnswersInv
    <3>4. \A k \in DOMAIN answers' :
            answers'[k] \in DOMAIN messages /\ Cardinality(KnownUpTo(answers'[k])) = k
      BY <3>2, <3>3 DEF AnswersInv
    <3> QED BY <1>3, <2>1, <2>2, <2>3, <3>2, <3>3, <3>4 DEF AnswersInv
  <2> QED
    BY <1>3, <2>4, <2>5, <2>6, ProcessKinds DEF Processes, outVars, PostSendResponse
<1>4. CASE OnMessageHeadReceived \/ ReadFails \/ OnMessageContentReceived
  BY <1>1, <1>3, <1>4, ReadKinds DEF senderVars, outVars
<1>5. CASE HangUp \/ Arrival \/ Transmit \/ WriteFails \/ OnResponseSent \/ Disconnect \/ UNCHANGED vars
  BY <1>1, <1>5
  DEF HangUp, Arrival, Receive, Transmit, WriteFails, OnResponseSent, Disconnect, vars,
      senderVars, readVars, outVars
<1> QED BY <1>2, <1>4, <1>5 DEF Next, Handler

(* A patient sender waits until all has been processed. *)
LEMMA AnsweredIsProcessed ==
  ASSUME Types, CutInv, AnswersInv, AllAnswered
  PROVE  Len(processed) = Len(messages) /\ intact = Posted
<1>1. Len(processed) \in Nat /\ DOMAIN processed = 1..Len(processed) /\ Len(messages) \in Nat
  BY LenProperties DEF Types
<1>2. Len(processed) # 0 => Len(processed) \in DOMAIN messages
  BY <1>1 DEF CutInv, ProcessedInv
<1> QED BY <1>1, <1>2, MessageBounds DEF AnswersInv, AllAnswered, Posted

LEMMA PatientNext ==
  ASSUME Types, CutInv, AnswersInv, PatientInv, [Next]_vars
  PROVE  PatientInv'
<1>1. Len(processed) \in Nat /\ Len(messages) \in Nat
  BY LenProperties DEF Types
<1>2. CASE SendRequest \/ SendResponse
  <2>1. PICK line, len : Write(line, len)
    BY <1>2, Zenon DEF SendRequest, SendResponse
  <2>2. UNCHANGED <<patient, processed, reversed>> /\ Len(messages') = Len(messages) + 1
    BY <2>1 DEF Write, readVars, Types
  <2>3. patient /\ ~reversed => Len(processed) = Len(messages)
    BY <1>2, AnsweredIsProcessed DEF SendRequest, SendResponse
  <2> QED BY <1>1, <2>2, <2>3 DEF PatientInv
<1>3. CASE OnMessageHeadReceived \/ ReadFails \/ OnMessageContentReceived
  <2>1. UNCHANGED <<patient, messages>>
    BY <1>3, ReadKinds DEF senderVars
  <2>2. ASSUME NEW i \in DOMAIN messages, Processes(i)
        PROVE  Len(processed') = Len(processed) + 1 /\ i = Len(processed) + 1
    BY <2>2, ProcessKinds DEF Processes
  <2>3. ASSUME NEW i \in DOMAIN messages, Processes(i) PROVE ~reversed' => ~reversed
    BY <2>3, ReadKinds, ProcessKinds, ProcessTypes, <1>3 DEF Processes
  <2>4. ASSUME NEW i \in DOMAIN messages, Processes(i) PROVE PatientInv'
    BY <1>1, <2>1, <2>2, <2>3, <2>4 DEF PatientInv
  <2>5. UNCHANGED <<reversed, processed>> => PatientInv'
    BY <2>1 DEF PatientInv
  <2> QED BY <1>3, <2>4, <2>5, ReadKinds
<1>4. CASE HangUp \/ Arrival \/ Transmit \/ WriteFails \/ OnResponseSent \/ Disconnect \/ UNCHANGED vars
  BY <1>4
  DEF HangUp, Arrival, Receive, Transmit, WriteFails, OnResponseSent, Disconnect, vars,
      senderVars, readVars, PatientInv
<1> QED BY <1>2, <1>3, <1>4 DEF Next, Handler

-----------------------------------------------------------------------------
(* What has been sent. *)

(* A write that goes on where the last has ended. *)
LEMMA InOrderTransfer ==
  ASSUME garbled = FALSE, intact \in Int, NEW w, NEW n \in Nat, Transfer(w, n),
         w.next = intact + 1 \/ n = 0
  PROVE  intact' = intact + n /\ garbled' = FALSE
<1>1. intact' = intact + n
  <2>1. CASE w.next = intact + 1
    BY <2>1, Zenon DEF Transfer
  <2>2. CASE n = 0
    BY <2>2 DEF Transfer
  <2> QED BY <2>1, <2>2
<1>2. garbled' = (garbled \/ (n > 0 /\ w.next # intact + 1))
  BY Zenon DEF Transfer
<1>3. ~(n > 0 /\ w.next # intact + 1)
  OBVIOUS
<1> QED BY <1>1, <1>2, <1>3, Zenon

LEMMA SentUnits ==
  /\ \A n : Sent(n) # Read /\ Sent(n).op = "sent" /\ Sent(n).units = n
  /\ Read.op = "read"
BY DEF Sent, Read

(* A queue of one that grows to two. *)
LEMMA SecondInQueue ==
  ASSUME NEW a, NEW b
  PROVE  Append(<<a>>, b) = <<a, b>>
<1>1. <<a>> \in Seq({a,b}) /\ Len(<<a>>) = 1 /\ <<a>>[1] = a /\ b \in {a,b}
  OBVIOUS
<1>2. <<a,b>> \in Seq({a,b}) /\ Len(<<a,b>>) = 2 /\ <<a,b>>[1] = a /\ <<a,b>>[2] = b
  OBVIOUS
<1>3. PICK s \in Seq({a, b}) : s = <<a>> /\ Len(s) = 1 /\ s[1] = a
  BY <1>1
<1>4. /\ Append(s, b) \in Seq({a,b}) /\ Len(Append(s, b)) = 2
      /\ Append(s,b)[1] = a /\ Append(s,b)[2] = b
  BY <1>1, <1>3, AppendProperties
<1>5. PICK t \in Seq({a, b}) : t = <<a,b>> /\ Len(t) = 2 /\ t[1] = a /\ t[2] = b
  BY <1>2
<1>6. Append(s, b) = t
  <2>1. PICK u \in Seq({a, b}) : u = Append(s, b) /\ Len(u) = 2 /\ u[1] = a /\ u[2] = b
    BY <1>4
  <2>2. Len(u) = Len(t) /\ \A i \in 1..Len(u) : u[i] = t[i]
    BY <1>5, <2>1
  <2>3. u = t
    BY <2>2, SeqEqual
  <2> QED BY <2>1, <2>3
<1> QED BY <1>3, <1>5, <1>6

(* A queue whose head is a read, or not. *)
LEMMA ShortHeads ==
  ASSUME NEW sent, sent # Read, sent.op = "sent"
  PROVE  /\ Tail(<<Read>>) = <<>> /\ Head(<<Read>>).op = "read"
         /\ Tail(<<sent>>) = <<>> /\ Head(<<sent>>) = sent
         /\ Tail(<<sent, Read>>) = <<Read>> /\ Head(<<sent, Read>>) = sent
         /\ Tail(<<Read, sent>>) = <<sent>> /\ Head(<<Read, sent>>).op = "read"
         /\ <<sent>> # <<Read, sent>> /\ <<sent, Read>> # <<Read, sent>>
         /\ <<Read>> # <<Read, sent>> /\ <<>> # <<Read, sent>>
         /\ Append(<<>>, sent) = <<sent>> /\ Append(<<Read>>, sent) = <<Read, sent>>
         /\ <<sent>> # <<>> /\ <<Read>> # <<>>
<1>1. Read.op = "read"
  BY SentUnits
<1>2. /\ Tail(<<Read>>) = <<>> /\ Tail(<<sent>>) = <<>>
      /\ Tail(<<sent, Read>>) = <<Read>> /\ Tail(<<Read, sent>>) = <<sent>>
  OBVIOUS
<1>3. /\ Head(<<Read>>) = Read /\ Head(<<sent>>) = sent
      /\ Head(<<sent, Read>>) = sent /\ Head(<<Read, sent>>) = Read
  OBVIOUS
<1>4. Append(<<>>, sent) = <<sent>> /\ Append(<<Read>>, sent) = <<Read, sent>>
  <2>1. Append(<<>>, sent) = <<sent>>
    OBVIOUS
  <2> QED BY <2>1, SecondInQueue
<1>5. /\ <<sent>> # <<Read, sent>> /\ <<sent, Read>> # <<Read, sent>>
      /\ <<Read>> # <<Read, sent>> /\ <<>> # <<Read, sent>>
      /\ <<sent>> # <<>> /\ <<Read>> # <<>>
  OBVIOUS
<1> QED BY <1>1, <1>2, <1>3, <1>4, <1>5

(* A step that only may complete the read. *)
LEMMA OutKept ==
  ASSUME OutInv, Completed(ready), UNCHANGED <<roomy, drained, intact, answers, writes>>,
         Unprocessed' => Unprocessed
  PROVE  OutInv'
<1> DEFINE sent == Unsunk
<1>1. sent # Read /\ sent.op = "sent"
  BY SentUnits DEF Unsunk
<1>2. Unsunk' = sent /\ Posted' = Posted /\ OnlyWrite' = OnlyWrite /\ Read' = Read
  BY DEF Unsunk, Posted, OnlyWrite
<1>3. ready \in {<<>>, <<Read>>} => ready' \in {<<>>, <<Read>>}
  <2>1. CASE ready = <<>>
    BY <1>1, <2>1, ShortQueues
  <2>2. CASE ready = <<Read>>
    BY <1>1, <2>2, ShortQueues
  <2> QED BY <2>1, <2>2
<1>4. ready \in {<<sent>>, <<sent, Read>>} => ready' \in {<<sent>>, <<sent, Read>>}
  BY <1>1, ShortQueues
<1>5. ready = <<Read, sent>> => ready' = <<Read, sent>>
  BY <1>1, ShortQueues
<1>6. ready # <<Read, sent>> => ready' # <<Read, sent>>
  <2>1. ready \in {<<>>, <<Read>>, <<sent>>, <<sent, Read>>, <<Read, sent>>}
    BY DEF OutInv
  <2> HIDE DEF sent
  <2> QED BY <1>1, <1>3, <1>4, <2>1, ShortHeads
<1> QED BY <1>2, <1>3, <1>4, <1>5, <1>6 DEF OutInv
(* The shape of a queue tells which handler is next. *)
LEMMA ShortHandlers ==
  ASSUME OutInv
  PROVE  /\ Unsunk # Read /\ Unsunk.op = "sent"
         /\ HandlerOf("read") => ready \in {<<Read>>, <<Read, Unsunk>>}
         /\ HandlerOf("sent") => ready \in {<<Unsunk>>, <<Unsunk, Read>>}
<1>1. Unsunk # Read /\ Unsunk.op = "sent"
  BY SentUnits DEF Unsunk
<1>2. ready \in {<<>>, <<Read>>, <<Unsunk>>, <<Unsunk, Read>>, <<Read, Unsunk>>}
  BY DEF OutInv
<1>3. /\ Head(<<Read>>).op = "read" /\ Head(<<Unsunk>>).op = "sent"
      /\ Head(<<Unsunk, Read>>).op = "sent" /\ Head(<<Read, Unsunk>>).op = "read"
  BY <1>1, ShortHeads
<1> HIDE DEF Unsunk
<1>4. HandlerOf("read") => ready \in {<<Read>>, <<Read, Unsunk>>}
  BY <1>2, <1>3 DEF HandlerOf
<1>5. HandlerOf("sent") => ready \in {<<Unsunk>>, <<Unsunk, Read>>}
  BY <1>2, <1>3 DEF HandlerOf
<1> QED BY <1>1, <1>4, <1>5

(* A step that takes a read from the queue and posts no response. *)
LEMMA ReadKept ==
  ASSUME OutInv, HandlerOf("read"), Completed(Tail(ready)),
         UNCHANGED <<roomy, drained, intact, answers, writes>>,
         Unprocessed' => Unprocessed
  PROVE  OutInv'
<1>1. PICK sent : sent = Unsunk /\ sent # Read /\ sent.op = "sent"
  BY ShortHandlers
<1>2. Unsunk' = sent /\ Posted' = Posted
  BY <1>1 DEF Unsunk, Posted
<1>3. ready = <<Read>> \/ (ready = <<Read, sent>> /\ writes = <<>>)
  <2>1. ready \in {<<Read>>, <<Read, sent>>}
    BY <1>1, ShortHandlers
  <2>2. ready = <<Read, sent>> => writes = <<>>
    BY <1>1, ShortHeads DEF OutInv
  <2> QED BY <2>1, <2>2
<1>4. CASE ready = <<Read>>
  <2>1. ready' \in {<<>>, <<Read>>}
    BY <1>1, <1>4, ShortHeads, ShortQueues
  <2>2. drained = intact \/ writes = <<OnlyWrite>>
    <3>1. ready \notin {<<sent>>, <<sent, Read>>, <<Read, sent>>}
      BY <1>1, <1>4, ShortHeads, ShortHandlers
    <3> QED BY <1>1, <3>1 DEF OutInv
  <2>3. OnlyWrite' = OnlyWrite
    BY <1>2 DEF OnlyWrite
  <2>4. ready' # <<Read, sent>>
    BY <1>1, <2>1, ShortHeads
  <2>5. \/ drained' = intact' /\ writes' = <<>>
        \/ intact' < Posted' /\ writes' = <<OnlyWrite'>>
    <3>1. ready \notin {<<sent>>, <<sent, Read>>, <<Read, sent>>}
      BY <1>1, <1>4, ShortHeads, ShortHandlers
    <3> QED BY <1>1, <1>2, <2>3, <3>1 DEF OutInv
  <2> QED BY <1>2, <2>1, <2>4, <2>5 DEF OutInv
<1>5. CASE ready = <<Read, sent>> /\ writes = <<>>
  <2>1. ready' \in {<<sent>>, <<sent, Read>>}
    BY <1>1, <1>5, ShortHeads, ShortQueues
  <2>2. ready' # <<Read, sent>>
    BY <1>1, <2>1, ShortHeads
  <2> QED BY <1>2, <1>5, <2>1, <2>2 DEF OutInv
<1> QED BY <1>3, <1>4, <1>5

(* A response is posted. *)
LEMMA PostKept ==
  ASSUME Types, CutInv, PatientInv, patient \/ roomy,
         garbled = FALSE, intact \in 0..Posted, stopped \/ OutInv,
         HandlerOf("read"), ~reversed, NEW i \in DOMAIN messages, i = Len(processed) + 1,
         Len(processed') = Len(processed) + 1, UNCHANGED <<patient, roomy, messages, stopped>>,
         PostSendResponse(i)
  PROVE  garbled' = FALSE /\ intact' \in 0..Posted' /\ (stopped' \/ OutInv')
<1>0. PICK to \in Nat : to = Posted + ResponseUnits /\ to = Posted' /\ Posted \in Nat
  <2>1. Len(answers) \in Nat /\ Len(answers') = Len(answers) + 1
    BY LenProperties DEF Types, PostSendResponse
  <2> QED BY <2>1 DEF Posted, ResponseUnits
<1> DEFINE w == [first |-> drained + 1, next |-> drained + 1,
                 to |-> ResponseUnits * (Len(answers) + 1)]
<1>1. w.to = to /\ w.next = drained + 1 /\ drained \in Int /\ intact \in Int
  <2>1. Len(answers) \in Nat
    BY LenProperties DEF Types
  <2> QED BY <1>0, <2>1 DEF Posted, ResponseUnits, Types
<1>2. PICK n \in 0..(w.to - drained) :
        /\ writes # <<>> \/ stopped => n = 0
        /\ roomy /\ writes = <<>> /\ ~stopped => n = w.to - drained
        /\ Transfer(w, n)
        /\ IF n = w.to - drained
           THEN UNCHANGED writes /\ Completed(Append(Tail(ready), Sent(n)))
           ELSE writes' = Append(writes, [w EXCEPT !.next = @ + n]) /\ Completed(Tail(ready))
        /\ UNCHANGED drained
  BY DEF PostSendResponse
<1> HIDE DEF w
<1>3. n \in Nat /\ n <= to - drained
  BY <1>1, <1>2
<1>4. CASE stopped
  <2>1. n = 0
    BY <1>2, <1>4
  <2>2. intact' = intact + n /\ garbled' = FALSE
    BY <1>1, <1>2, <1>3, <2>1, InOrderTransfer
  <2> QED BY <1>0, <1>4, <2>1, <2>2 DEF ResponseUnits
<1>5. CASE ~stopped
  <2>1. OutInv /\ Unprocessed
    BY <1>5, LenProperties, MessageBounds DEF Unprocessed, Types
  <2>2. intact = Posted /\ ready # <<Read, Unsunk>> /\ Unsunk # Read /\ Unsunk.op = "sent"
    BY <2>1, ShortHandlers DEF OutInv
  <2>3. ready = <<Read>>
    BY <2>1, <2>2, ShortHandlers
  <2>4. drained = intact /\ writes = <<>>
    <3>1. ready \notin {<<Unsunk>>, <<Unsunk, Read>>, <<Read, Unsunk>>}
      <4>1. PICK sent : sent = Unsunk
        OBVIOUS
      <4> QED BY <2>1, <2>2, <2>3, <4>1, ShortHeads, ShortHandlers
    <3> QED BY <1>0, <2>1, <2>2, <3>1 DEF OutInv
  <2>5. intact' = intact + n /\ garbled' = FALSE
    BY <1>1, <1>2, <1>3, <2>4, InOrderTransfer
  <2>6. Tail(ready) = <<>>
    BY <2>2, <2>3, ShortHeads
  <2>7. drained' = drained /\ intact' \in 0..Posted' /\ drained' \in 0..intact'
    BY <1>0, <1>1, <1>2, <1>3, <2>4, <2>5
  <2>8. CASE n = to - drained
    <3>1. writes' = <<>> /\ Completed(Append(<<>>, Sent(n)))
      BY <1>1, <1>2, <2>4, <2>6, <2>8
    <3>2. PICK sent : sent = Sent(n) /\ sent # Read /\ sent.op = "sent"
      BY SentUnits
    <3>3. ready' \in {<<sent>>, <<sent, Read>>} /\ ready' # <<Read, sent>>
      BY <3>1, <3>2, ShortHeads, ShortQueues
    <3>4. Unsunk' = sent
      <4>1. intact' - drained' = n
        BY <1>1, <1>3, <2>4, <2>5, <2>7
      <4> QED BY <3>2, <4>1 DEF Unsunk
    <3>5. intact' = Posted'
      <4>1. intact' = drained + n
        BY <2>4, <2>5
      <4>2. drained + n = to
        BY <1>0, <1>1, <2>8
      <4> QED BY <1>0, <4>1, <4>2
    <3> QED BY <2>5, <2>7, <3>1, <3>3, <3>4, <3>5 DEF OutInv
  <2>9. CASE n # to - drained
    <3>1. writes' = Append(<<>>, [w EXCEPT !.next = @ + n]) /\ Completed(<<>>)
      BY <1>1, <1>2, <2>4, <2>6, <2>9
    <3>2. [w EXCEPT !.next = @ + n] = OnlyWrite'
      <4>1. OnlyWrite' = [first |-> drained' + 1, next |-> intact' + 1, to |-> Posted']
        BY DEF OnlyWrite
      <4>2. [w EXCEPT !.next = @ + n] = [first |-> drained + 1, next |-> w.next + n, to |-> w.to]
        BY DEF w
      <4>3. w.next + n = intact' + 1
        BY <1>1, <1>3, <2>4, <2>5
      <4> QED BY <1>0, <1>1, <2>7, <4>1, <4>2, <4>3
    <3>3. writes' = <<OnlyWrite'>>
      <4>1. \A x : Append(<<>>, x) = <<x>>
        OBVIOUS
      <4> QED BY <3>1, <3>2, <4>1
    <3>4. ready' \in {<<>>, <<Read>>}
      <4>1. Sent(0) # Read
        BY SentUnits
      <4> QED BY <3>1, <4>1, ShortQueues
    <3>5. intact' < Posted'
      BY <1>0, <1>1, <1>3, <2>4, <2>5, <2>9
    <3>6. ~roomy
      BY <1>1, <1>2, <1>5, <2>4, <2>9
    <3>7. ~(roomy' \/ Unprocessed')
      <4>1. Len(messages) <= Len(processed) + 1 /\ Len(messages) \in Nat /\ Len(processed) \in Nat
        BY <3>6, LenProperties DEF PatientInv, Types
      <4> QED BY <3>6, <4>1 DEF Unprocessed
    <3> QED BY <2>5, <2>7, <3>3, <3>4, <3>5, <3>7 DEF OutInv
  <2> QED BY <2>8, <2>9
<1> QED BY <1>4, <1>5
(* A write goes on, and is complete or fails in the end. *)
LEMMA WriteKept ==
  ASSUME Types, patient \/ roomy, garbled = FALSE, intact \in 0..Posted, stopped \/ OutInv,
         Transmit \/ WriteFails
  PROVE  garbled' = FALSE /\ intact' \in 0..Posted' /\ (stopped' \/ OutInv')
<1>1. /\ UNCHANGED <<patient, roomy, messages, stopped, reversed, processed, answers, drained>>
      /\ Posted' = Posted /\ Posted \in Nat
  <2>1. UNCHANGED <<patient, roomy, messages, stopped, reversed, processed, answers, drained>>
    BY DEF Transmit, WriteFails, senderVars, streamVars, readVars
  <2>2. Len(answers) \in Nat
    BY LenProperties DEF Types
  <2> QED BY <2>1, <2>2 DEF Posted, ResponseUnits
<1>2. writes # <<>>
  BY DEF Transmit, WriteFails
<1>3. CASE stopped
  BY <1>1, <1>3 DEF Transmit, WriteFails
<1>4. CASE ~stopped
  <2>1. OutInv
    BY <1>4
  <2>2. intact < Posted /\ writes = <<OnlyWrite>> /\ ready \in {<<>>, <<Read>>}
    BY <1>2, <2>1 DEF OutInv
  <2>3. ~(roomy' \/ Unprocessed')
    BY <1>1, <2>1, <2>2 DEF OutInv, Unprocessed
  <2>4. drained \in 0..intact /\ intact \in Nat
    BY <1>1, <2>1 DEF OutInv
  <2>5. ASSUME ready' = Append(ready, Sent(intact' - drained)), writes' = <<>>,
               intact' \in 0..Posted, drained <= intact', garbled' = FALSE
        PROVE  garbled' = FALSE /\ intact' \in 0..Posted' /\ OutInv'
    <3>1. PICK sent : sent = Unsunk' /\ ready' = Append(ready, sent) /\ sent # Read /\ sent.op = "sent"
      BY <1>1, <2>5, SentUnits DEF Unsunk
    <3>2. ready' \in {<<sent>>, <<Read, sent>>}
      BY <2>2, <3>1, ShortHeads
    <3> QED BY <1>1, <2>3, <2>4, <2>5, <3>1, <3>2 DEF OutInv
  <2>6. CASE WriteFails
    <3>1. writes' = <<>> /\ Head(writes) = OnlyWrite
      BY <2>2, <2>6 DEF WriteFails
    <3>2. Head(writes).next - Head(writes).first = intact - drained
      BY <2>4, <3>1 DEF OnlyWrite
    <3>3. /\ UNCHANGED <<intact, garbled>>
          /\ ready' = Append(ready, Sent(Head(writes).next - Head(writes).first))
      BY <2>6 DEF WriteFails
    <3>4. ready' = Append(ready, Sent(intact' - drained))
      BY <3>2, <3>3
    <3>5. garbled' = FALSE
      BY <1>1, <3>3, Zenon
    <3>6. intact' \in 0..Posted /\ drained <= intact'
      BY <1>1, <2>4, <3>3
    <3>7. writes' = <<>>
      BY <3>1
    <3> QED BY <2>5, <3>4, <3>5, <3>6, <3>7
  <2>7. CASE Transmit
    <3>0. PICK j \in DOMAIN writes : \E n \in 1..(writes[j].to - writes[j].next + 1) :
            /\ Transfer(writes[j], n)
            /\ IF writes[j].next + n > writes[j].to
               THEN /\ writes' = RemoveAt(writes, j)
                    /\ ready' = Append(ready, Sent(writes[j].to - writes[j].first + 1))
               ELSE /\ writes' = [writes EXCEPT ![j].next = @ + n]
                    /\ UNCHANGED ready
      BY <2>7 DEF Transmit
    <3>1. PICK n \in 1..(writes[j].to - writes[j].next + 1) :
            /\ Transfer(writes[j], n)
            /\ IF writes[j].next + n > writes[j].to
               THEN /\ writes' = RemoveAt(writes, j)
                    /\ ready' = Append(ready, Sent(writes[j].to - writes[j].first + 1))
               ELSE /\ writes' = [writes EXCEPT ![j].next = @ + n]
                    /\ UNCHANGED ready
      BY <3>0
    <3>2. j = 1 /\ writes[j] = OnlyWrite
      BY <2>2
    <3>3. OnlyWrite.first = drained + 1 /\ OnlyWrite.next = intact + 1 /\ OnlyWrite.to = Posted
      BY DEF OnlyWrite
    <3>4. n \in Nat /\ n > 0 /\ n <= Posted - intact
      <4>1. n \in 1..(Posted - (intact + 1) + 1)
        BY <3>1, <3>2, <3>3
      <4>2. intact \in Int /\ Posted \in Int
        BY <1>1, <2>4
      <4> QED BY <4>1, <4>2
    <3>5. intact' = intact + n /\ garbled' = FALSE
      <4>1. writes[j].next = intact + 1 /\ Transfer(writes[j], n)
        BY <3>1, <3>2, <3>3
      <4>2. intact \in Int
        BY <2>4
      <4>3. garbled = FALSE
        BY <1>1, Zenon
      <4> QED BY <3>4, <4>1, <4>2, <4>3, InOrderTransfer
    <3>6. CASE writes[j].next + n > writes[j].to
      <4>1. intact' = Posted
        BY <1>1, <2>4, <3>2, <3>3, <3>4, <3>5, <3>6
      <4>2. writes' = <<>>
        BY <2>2, <3>1, <3>2, <3>6 DEF RemoveAt
      <4>3. writes[j].to - writes[j].first + 1 = intact' - drained
        BY <1>1, <2>4, <3>2, <3>3, <4>1
      <4>4. ready' = Append(ready, Sent(intact' - drained))
        BY <3>1, <3>6, <4>3
      <4>5. intact' \in 0..Posted /\ drained <= intact'
        BY <1>1, <2>4, <3>4, <3>5, <4>1
      <4> QED BY <1>1, <2>5, <3>5, <4>2, <4>4, <4>5
    <3>7. CASE ~(writes[j].next + n > writes[j].to)
      <4>1. intact' < Posted /\ intact' \in Nat
        BY <1>1, <2>4, <3>2, <3>3, <3>4, <3>5, <3>7
      <4>2. writes' = [<<OnlyWrite>> EXCEPT ![1].next = @ + n] /\ ready' = ready
        BY <2>2, <3>1, <3>2, <3>7
      <4>3. writes' = <<[OnlyWrite EXCEPT !.next = @ + n]>>
        BY <4>2
      <4>4. [OnlyWrite EXCEPT !.next = @ + n] = OnlyWrite'
        <5>1. [OnlyWrite EXCEPT !.next = @ + n]
                = [first |-> drained + 1, next |-> intact + 1 + n, to |-> Posted]
          BY DEF OnlyWrite
        <5>2. intact + 1 + n = intact' + 1
          BY <2>4, <3>4, <3>5
        <5> QED BY <1>1, <5>1, <5>2 DEF OnlyWrite
      <4>5. drained' \in 0..intact'
        BY <1>1, <2>4, <3>4, <3>5
      <4> QED BY <1>1, <2>2, <2>3, <3>5, <4>1, <4>2, <4>3, <4>4, <4>5 DEF OutInv
    <3> QED BY <3>6, <3>7
  <2> QED BY <2>6, <2>7
<1> QED BY <1>3, <1>4

(* out_stream_ is rid of what has been sent. *)
LEMMA SinkKept ==
  ASSUME Types, intact \in 0..Posted, OutInv, OnResponseSent
  PROVE  OutInv'
<1>1. /\ UNCHANGED <<patient, roomy, messages, stopped, reversed, processed, answers, writes,
                     intact, garbled>>
      /\ HandlerOf("sent") /\ Completed(Tail(ready))
      /\ drained' = IF drained + Head(ready).units > Posted THEN Posted
                                                           ELSE drained + Head(ready).units
  BY DEF OnResponseSent, senderVars, streamVars, readVars, Posted
<1>2. PICK sent : sent = Unsunk /\ sent # Read /\ sent.op = "sent" /\ sent.units = intact - drained
  BY SentUnits DEF Unsunk
<1>3. ready \in {<<sent>>, <<sent, Read>>}
  BY <1>1, <1>2, ShortHandlers
<1>4. Head(ready) = sent /\ ready' \in {<<>>, <<Read>>}
  <2>1. CASE ready = <<sent>>
    <3>1. Head(ready) = sent /\ Tail(ready) = <<>>
      BY <2>1, ShortHeads
    <3>2. Completed(<<>>)
      BY <1>1, <3>1
    <3> QED BY <1>2, <3>1, <3>2, ShortQueues
  <2>2. CASE ready = <<sent, Read>>
    <3>1. Head(ready) = sent /\ Tail(ready) = <<Read>>
      BY <2>2, ShortHeads
    <3>2. Completed(<<Read>>)
      BY <1>1, <3>1
    <3> QED BY <1>2, <3>1, <3>2, ShortQueues
  <2> QED BY <1>3, <2>1, <2>2
<1>5. writes = <<>>
  BY <1>2, <1>3, ShortHeads DEF OutInv
<1>6. Posted \in Nat /\ drained \in 0..intact
  <2>1. Len(answers) \in Nat
    BY LenProperties DEF Types
  <2> QED BY <2>1 DEF Posted, ResponseUnits, OutInv
<1>7. drained' = intact
  BY <1>1, <1>2, <1>4, <1>6
<1>8. Posted' = Posted /\ (Unprocessed' <=> Unprocessed)
  BY <1>1 DEF Posted, Unprocessed
<1>9. ready' # <<Read, Unsunk'>>
  <2>1. PICK other : other = Unsunk' /\ other # Read /\ other.op = "sent"
    BY SentUnits DEF Unsunk
  <2> QED BY <1>4, <2>1, ShortHeads
<1> QED BY <1>1, <1>4, <1>5, <1>6, <1>7, <1>8, <1>9 DEF OutInv

(* The sender writes when nothing of what it waits for is still to come. *)
LEMMA RequestKept ==
  ASSUME Types, CutInv, DoneInv, AnswersInv, patient \/ roomy, ~stopped, OutInv,
         SendRequest \/ SendResponse
  PROVE  OutInv'
<1>1. PICK line, len : Write(line, len)
  BY Zenon DEF SendRequest, SendResponse
<1>2. UNCHANGED <<patient, roomy, stopped, reversed, processed, answers, drained, writes, intact,
                  ready>> /\ ~hungUp
  BY <1>1 DEF Write, streamVars, readVars, outVars
<1>3. Posted' = Posted /\ Unsunk' = Unsunk /\ OnlyWrite' = OnlyWrite
  BY <1>2 DEF Posted, Unsunk, OnlyWrite
<1>4. CASE patient /\ SendRequest
  <2>1. Len(processed) = Len(messages) /\ intact = Posted
    BY <1>4, AnsweredIsProcessed DEF SendRequest
  <2>2. ~ReadPending
    BY <1>2, <2>1, NothingToRead
  <2>3. ready # <<Read, Unsunk>>
    <3>1. PICK sent : sent = Unsunk
      OBVIOUS
    <3>2. 1 \in DOMAIN <<Read, sent>> /\ <<Read, sent>>[1] = Read
      OBVIOUS
    <3> QED BY <2>2, <3>1, <3>2, Zenon DEF ReadPending
  <2> QED BY <1>2, <1>3, <2>1, <2>3 DEF OutInv
<1>5. CASE roomy \/ SendResponse
  <2>1. roomy' \/ Unprocessed' => roomy
    BY <1>2, <1>5 DEF SendResponse, Unprocessed
  <2> QED BY <1>2, <1>3, <2>1 DEF OutInv
<1> QED BY <1>4, <1>5

LEMMA SentNext ==
  ASSUME Types, Types', CutInv, DoneInv, AnswersInv, PatientInv, SentInv, [Next]_vars
  PROVE  SentInv'
<1>1. UNCHANGED <<patient, roomy>>
  BY ReadKinds
  DEF Next, SendRequest, SendResponse, Write, HangUp, Arrival, Receive, Transmit, WriteFails,
      Handler, OnResponseSent, Disconnect, vars, senderVars
<1> SUFFICES ASSUME patient \/ roomy
             PROVE  garbled' = FALSE /\ intact' \in 0..Posted' /\ (stopped' \/ OutInv')
  BY <1>1 DEF SentInv
<1>2. garbled = FALSE /\ intact \in 0..Posted /\ (stopped \/ OutInv)
  BY DEF SentInv
<1>3. UNCHANGED <<garbled, intact, answers>> => garbled' = FALSE /\ intact' \in 0..Posted'
  BY <1>2 DEF Posted
<1>4. CASE SendRequest \/ SendResponse
  <2>1. UNCHANGED <<garbled, intact, answers, stopped>>
    BY <1>4 DEF SendRequest, SendResponse, Write, outVars, streamVars
  <2> QED BY <1>2, <1>3, <1>4, <2>1, RequestKept
<1>5. CASE HangUp \/ Arrival \/ Disconnect
  <2>1. /\ UNCHANGED <<roomy, messages, reversed, processed, drained, intact, garbled, answers, writes>>
        /\ Completed(ready) /\ (stopped => stopped')
    BY <1>5 DEF HangUp, Arrival, Receive, Disconnect, senderVars, readVars, outVars, streamVars
  <2>2. Unprocessed' => Unprocessed
    BY <2>1 DEF Unprocessed
  <2>3. CASE OutInv
    BY <1>3, <2>1, <2>2, <2>3, OutKept
  <2> QED BY <1>2, <1>3, <2>1, <2>3
<1>6. CASE Transmit \/ WriteFails
  BY <1>2, <1>6, WriteKept
<1>7. CASE OnResponseSent
  <2>1. UNCHANGED <<garbled, intact, answers, stopped>>
    BY <1>7 DEF OnResponseSent, streamVars
  <2> QED BY <1>2, <1>3, <1>7, <2>1, SinkKept
<1>8. CASE OnMessageHeadReceived \/ ReadFails \/ OnMessageContentReceived
  <2>1. HandlerOf("read") /\ UNCHANGED <<patient, roomy, messages>>
    BY <1>8, ReadKinds DEF senderVars
  <2>2. ASSUME UNCHANGED outVars, Completed(Tail(ready)), UNCHANGED stopped,
               Unprocessed' => Unprocessed
        PROVE  garbled' = FALSE /\ intact' \in 0..Posted' /\ (stopped' \/ OutInv')
    BY <1>2, <1>3, <2>1, <2>2, ReadKept DEF outVars
  <2>3. ASSUME UNCHANGED <<reversed, processed, outVars>>, ready' = Tail(ready), stopped' = TRUE
        PROVE  garbled' = FALSE /\ intact' \in 0..Posted' /\ (stopped' \/ OutInv')
    BY <1>3, <2>3 DEF outVars
  <2>4. ASSUME UNCHANGED <<reversed, processed, outVars>>, ready' = Tail(ready), stopped' = stopped
        PROVE  garbled' = FALSE /\ intact' \in 0..Posted' /\ (stopped' \/ OutInv')
    <3>1. OutInv => OutInv'
      <4>1. ASSUME OutInv PROVE OutInv'
        <5>1. PICK sent : sent = Unsunk /\ sent = Unsunk' /\ sent # Read /\ sent.op = "sent"
          BY <2>4, <4>1, ShortHandlers DEF Unsunk, outVars
        <5>2. \/ ready = <<Read>> /\ ready' = <<>>
              \/ ready = <<Read, sent>> /\ ready' = <<sent>> /\ writes = <<>>
          <6>1. ready \in {<<Read>>, <<Read, sent>>}
            BY <2>1, <4>1, <5>1, ShortHandlers
          <6>2. ready = <<Read, sent>> => writes = <<>>
            BY <4>1, <5>1, ShortHeads DEF OutInv
          <6> QED BY <2>4, <5>1, <6>1, <6>2, ShortHeads
        <5>3. Posted' = Posted /\ OnlyWrite' = OnlyWrite /\ (Unprocessed' <=> Unprocessed)
          BY <2>1, <2>4 DEF outVars, Posted, OnlyWrite, Unprocessed
        <5>4. ready' # <<Read, sent>>
          BY <5>1, <5>2, ShortHeads
        <5>5. ready = <<Read>> => ready \notin {<<sent>>, <<sent, Read>>, <<Read, sent>>}
          BY <2>1, <4>1, <5>1, ShortHeads, ShortHandlers
        <5> QED BY <2>1, <2>4, <4>1, <5>1, <5>2, <5>3, <5>4, <5>5 DEF OutInv, outVars
      <4> QED BY <4>1
    <3> QED BY <1>2, <1>3, <2>4, <3>1 DEF outVars
  <2>5. ASSUME NEW i \in DOMAIN messages, Processes(i)
        PROVE  garbled' = FALSE /\ intact' \in 0..Posted' /\ (stopped' \/ OutInv')
    <3>1. /\ i = Len(processed) + 1 /\ UNCHANGED stopped
          /\ Len(processed') = Len(processed) + 1 /\ Len(processed) \in Nat
      BY <2>5, ProcessKinds, LenProperties DEF Processes, Types
    <3>2. ~reversed => Unprocessed
      BY <3>1, MessageBounds DEF Unprocessed
    <3>3. ~reversed' => ~reversed
      BY <2>1, <2>5, ProcessTypes DEF Processes
    <3>4. Unprocessed' => Unprocessed
      BY <3>2, <3>3 DEF Unprocessed
    <3>5. CASE PostSendResponse(i) /\ ~reversed
      BY <1>2, <2>1, <3>1, <3>5, PostKept
    <3>6. CASE UNCHANGED outVars /\ Completed(Tail(ready))
      BY <2>2, <3>1, <3>4, <3>6
    <3> QED BY <2>5, <3>5, <3>6, ProcessKinds DEF Processes
  <2> QED
    BY <1>8, <2>1, <2>2, <2>3, <2>4, <2>5, ReadKinds DEF Unprocessed
<1>9. CASE UNCHANGED vars
  <2>1. UNCHANGED <<stopped, garbled, intact, answers, drained, writes, ready, roomy, messages,
                    reversed, processed>>
    BY <1>9 DEF vars, senderVars, streamVars, readVars, outVars
  <2> QED BY <1>2, <1>3, <2>1 DEF OutInv, Posted, Unsunk, OnlyWrite, Unprocessed
<1> QED BY <1>4, <1>5, <1>6, <1>7, <1>8, <1>9 DEF Next, Handler

(* A sender that waits for each answer, or whose socket always has room, reads the
   responses to its requests in their order, each whole and once, however long
   the stream is, wherever TCP cuts it and however the writes are cut. *)
THEOREM ResponsesStayIntact == Spec => []ResponsesIntact
<1>1. Init => ResponseInv
  <2> SUFFICES ASSUME Init PROVE ResponseInv
    OBVIOUS
  <2>1. /\ messages = <<>> /\ processed = <<>> /\ answers = <<>> /\ writes = <<>> /\ ready = <<>>
        /\ drained = 0 /\ intact = 0 /\ garbled = FALSE
    BY DEF Init
  <2>2. /\ Len(messages) = 0 /\ Len(processed) = 0 /\ Len(answers) = 0
        /\ DOMAIN answers = {} /\ DOMAIN ready = {}
    BY <2>1
  <2>3. DoneInv /\ PatientInv
    BY <2>2 DEF DoneInv, ReadPending, PatientInv
  <2>4. AnswersInv
    <3>1. KnownUpTo(0) = {}
      BY DEF KnownUpTo
    <3> QED BY <2>2, <3>1, FS_EmptySet DEF AnswersInv
  <2>5. SentInv
    <3>1. Posted = 0
      BY <2>2 DEF Posted, ResponseUnits
    <3>2. ready # <<Read, Unsunk>>
      <4>1. PICK sent : sent = Unsunk
        OBVIOUS
      <4>2. 1 \in DOMAIN <<Read, sent>>
        OBVIOUS
      <4> QED BY <2>2, <4>1, <4>2, Zenon
    <3> QED BY <2>1, <3>1, <3>2 DEF SentInv, OutInv
  <2> QED BY <2>3, <2>4, <2>5 DEF ResponseInv
<1>2. Types /\ CutInv /\ ResponseInv /\ [Next]_vars => ResponseInv'
  BY CutNext, DoneNext, AnswersNext, PatientNext, SentNext DEF ResponseInv
<1>3. Types /\ ResponseInv => ResponsesIntact
  <2> SUFFICES ASSUME Types, AnswersInv, SentInv, patient \/ roomy
               PROVE  /\ ~garbled
                      /\ \A k \in 1..(intact \div ResponseUnits) : Cardinality(KnownUpTo(answers[k])) = k
    BY DEF ResponseInv, ResponsesIntact, KnownUpTo
  <2>1. garbled = FALSE /\ intact \in 0..Posted
    BY DEF SentInv
  <2>2. Len(answers) \in Nat /\ DOMAIN answers = 1..Len(answers)
    BY LenProperties DEF Types
  <2>3. 1..(intact \div ResponseUnits) \subseteq DOMAIN answers
    BY <2>1, <2>2 DEF Posted, ResponseUnits
  <2> QED BY <2>1, <2>3 DEF AnswersInv
<1>4. Spec => []((Types /\ CutInv) /\ ResponseInv)
  BY CutInit, CutNext, <1>1, <1>2, PTL DEF Spec
<1> QED BY <1>3, <1>4, PTL
=============================================================================
