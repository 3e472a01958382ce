-------------------------- MODULE XtxpParserProofs --------------------------
(***************************************************************************)
(* The parser and async_read_until agree on the end of every head, however *)
(* long and of whatever characters, and what the parser reads of a head    *)
(* that arrives as it was written is what was written.                     *)
(*                                                                         *)
(* For the ends, two automata run over the same characters.  The invariant *)
(* relates their states: within a line nothing of the empty line has been  *)
(* found, between lines as much as the parser has seen of it.              *)
(***************************************************************************)
EXTENDS XtxpParser, SequenceTheorems, TLAPS

WithinLine == {"start", "method", "uri", "code", "text", "name", "space", "value"}

(* Where the search for the empty line stands in each state of the parser.  The
   version of a response may hold any part of an empty line. *)
InStep ==
  \/ state \in WithinLine /\ matched = 0
  \/ state = "version" /\ (matched = 0 \/ (reversed /\ matched \in 0..3))
  \/ state = "new_line" /\ matched = 1
  \/ state = "line_start" /\ matched = 2
  \/ state = "last_line" /\ matched = 3

Inv ==
  /\ at = "idle" => state = "start"
  /\ at = "reading" => ends = 0 /\ InStep
  /\ at = "parsed" => \/ ends = 1 /\ state = "start"
                      \/ reversed /\ ends = 0 /\ state = "version"

(* One character of a request line or a status line. *)
LEMMA FirstLineStep ==
  ASSUME InStep, NEW c, state \in FirstLineStates, After(c) # "fail"
  PROVE  \/ After(c) \in WithinLine \ {"start"} /\ MatchedAfter(c) = 0
         \/ After(c) = "version" /\ MatchedAfter(c) = 0
         \/ After(c) = "version" /\ reversed /\ MatchedAfter(c) \in 0..4
         \/ After(c) = "new_line" /\ MatchedAfter(c) = 1
<1> USE DEF InStep, WithinLine, FirstLineStates, After, MatchedAfter, IsToken, IsChar, IsCtl, IsDigit
<1>1. CASE reversed
  BY <1>1 DEF StatusLine
<1>2. CASE ~reversed
  BY <1>2 DEF RequestLine
<1> QED BY <1>1, <1>2

(* One character of a header, or of the line breaks around it. *)
LEMMA HeaderStep ==
  ASSUME InStep, NEW c, state \notin FirstLineStates, After(c) # "fail"
  PROVE  \/ state = "last_line" /\ After(c) = "start" /\ MatchedAfter(c) = 4
         \/ /\ state # "last_line"
            /\ \/ After(c) \in WithinLine \ {"start"} /\ MatchedAfter(c) = 0
               \/ After(c) = "new_line" /\ MatchedAfter(c) = 1
               \/ After(c) = "line_start" /\ MatchedAfter(c) = 2
               \/ After(c) = "last_line" /\ MatchedAfter(c) = 3
BY DEF InStep, WithinLine, FirstLineStates, After, HeaderState, MatchedAfter, IsToken, IsChar, IsCtl

(* The parser accepts a character. *)
LEMMA ConsumeStep ==
  ASSUME Inv, Consume
  PROVE  Inv'
<1> DEFINE c == Head(script)
<1>1. /\ at = "reading" /\ InStep /\ ends = 0
      /\ After(c) # "fail" /\ state' = After(c)
      /\ matched' = MatchedAfter(c)
      /\ ends' = IF state = "last_line" THEN 1 ELSE 0
      /\ at' = IF matched' = 4 THEN "parsed" ELSE "reading"
      /\ reversed' = reversed
  BY DEF Inv, Consume
<1> HIDE DEF c
<1>2. CASE state \in FirstLineStates
  <2>1. ends' = 0
    BY <1>1, <1>2 DEF FirstLineStates
  <2> QED BY <1>1, <1>2, <2>1, FirstLineStep DEF Inv, InStep, WithinLine
<1>3. CASE state \notin FirstLineStates
  BY <1>1, <1>3, HeaderStep DEF Inv, InStep, WithinLine
<1> QED BY <1>2, <1>3

(* Every step preserves the invariant. *)
LEMMA InvInductive ==
  ASSUME Inv, [HeadsNext]_headsVars
  PROVE  Inv'
<1> USE DEF Inv, senderVars, parserVars, messageVars
<1>1. CASE Write \/ WriteForeign \/ Distort \/ Reverse \/ UNCHANGED headsVars
  BY <1>1 DEF Write, WriteForeign, Distort, Reverse, headsVars, InStep
<1>2. CASE Begin
  BY <1>2 DEF Begin, InStep, WithinLine
<1>3. CASE Consume
  BY <1>3, ConsumeStep
<1>4. CASE Refuse
  BY <1>4 DEF Refuse
<1> QED BY <1>1, <1>2, <1>3, <1>4 DEF HeadsNext

(* For every sender and every sequence of heads: async_read_until and the
   parser find the same end, so that each message is parsed from its own head
   and the parser is ready for the next. *)
THEOREM EndsAgree == HeadsSpec => []HeadsEndTogether
<1>1. HeadsInit => Inv
  BY DEF HeadsInit, Inv
<1>2. Inv /\ [HeadsNext]_headsVars => Inv'
  BY InvInductive
<1>3. Inv => HeadsEndTogether
  BY DEF Inv, HeadsEndTogether
<1> QED BY <1>1, <1>2, <1>3, PTL DEF HeadsSpec

-----------------------------------------------------------------------------
(***************************************************************************)
(* What the parser reads is what was written.                              *)
(*                                                                         *)
(* The invariant follows the parser through the head that is written: in   *)
(* each of its states, which part it is in, how much of the part is in the *)
(* parser's text for it, and that the rest of the part and of the head is  *)
(* what is left in the stream.                                             *)
(***************************************************************************)

(* What follows on a part of the head, up to its end. *)
LineEnd(rest) == <<"CR">> \o (<<"LF">> \o rest)

AfterName(value, rest)  == <<":">> \o (<<"SP">> \o (value \o LineEnd(rest)))
Line(name, value, rest) == name \o AfterName(value, rest)

(* The headers in the order in which they are written, from 0; all but the
   length may be absent. *)
Name(m, k)    == IF k = 0 THEN m.header ELSE IF k = 1 THEN ContentLength ELSE ContentType
Value(m, k)   == IF k = 0 THEN m.value ELSE IF k = 1 THEN Unary(m.length) ELSE m.type
Present(m, k) == (k = 0 => m.header # <<>>) /\ (k = 2 => m.type # <<>>)

(* The head from its kth header on. *)
Empty         == LineEnd(<<>>)
FromType(m)   == IF Present(m, 2) THEN Line(Name(m, 2), Value(m, 2), Empty) ELSE Empty
FromLength(m) == Line(Name(m, 1), Value(m, 1), FromType(m))
FromHeader(m) == IF Present(m, 0) THEN Line(Name(m, 0), Value(m, 0), FromLength(m))
                                  ELSE FromLength(m)
From(m, k) ==
  IF k = 0 THEN FromHeader(m) ELSE IF k = 1 THEN FromLength(m)
  ELSE IF k = 2 THEN FromType(m) ELSE Empty

AfterUri(m)    == <<"SP">> \o (m.version \o LineEnd(From(m, 0)))
AfterMethod(m) == <<"SP">> \o (m.uri \o AfterUri(m))
AfterCode(m)    == <<"SP">> \o (m.text \o LineEnd(From(m, 0)))
AfterVersion(m) == <<"SP">> \o (Unary(m.code) \o AfterCode(m))

Written(m) == IF m.kind = "request" THEN m.method \o AfterMethod(m)
                                    ELSE m.version \o AfterVersion(m)

(* Of a text, part is read and the rest is still to come. *)
ReadIn(part, stream, full, rest) ==
  \E n \in 0..Len(full) : /\ part = SubSeq(full, 1, n)
                          /\ stream = SubSeq(full, n + 1, Len(full)) \o rest

Reading(t, full, rest) == ReadIn(text[t], script, full, rest)

RequestLineInv ==
  /\ contentLength = 0
  /\ headers = {}
  /\ \/ /\ state = "start"
        /\ text["method"] = <<>> /\ text["uri"] = <<>> /\ text["version"] = <<>>
        /\ script = Written(written)
     \/ /\ state = "method"
        /\ text["uri"] = <<>> /\ text["version"] = <<>>
        /\ Reading("method", written.method, AfterMethod(written))
     \/ /\ state = "uri"
        /\ text["method"] = written.method /\ text["version"] = <<>>
        /\ Reading("uri", written.uri, AfterUri(written))
     \/ /\ state = "version"
        /\ text["method"] = written.method /\ text["uri"] = written.uri
        /\ Reading("version", written.version, LineEnd(From(written, 0)))

StatusLineInv ==
  /\ contentType = <<>>
  /\ \/ /\ state = "start"
        /\ text["version"] = <<>> /\ text["text"] = <<>>
        /\ script = Written(written)
     \/ /\ state = "version"
        /\ text["text"] = <<>>
        /\ Reading("version", written.version, AfterVersion(written))
     \/ /\ state = "code"
        /\ text["version"] = written.version /\ text["text"] = <<>>
        /\ Reading("code", Unary(written.code), AfterCode(written))
     \/ /\ state = "text"
        /\ text["version"] = written.version /\ statusCode = written.code
        /\ Reading("text", written.text, LineEnd(From(written, 0)))

FirstLineInv ==
  /\ matched = 0
  /\ IF reversed THEN StatusLineInv ELSE RequestLineInv

(* The headers before the kth have been stored. *)
HeadersBefore(m, k) == {<<Name(m, j), Value(m, j)>> : j \in {i \in 0..(k - 1) : Present(m, i)}}

FirstLineRead(m) ==
  IF m.kind = "request"
  THEN text["method"] = m.method /\ text["uri"] = m.uri /\ text["version"] = m.version
  ELSE text["version"] = m.version /\ text["text"] = m.text /\ statusCode = m.code

StoredBefore(m, k) ==
  /\ FirstLineRead(m)
  /\ IF m.kind = "request" THEN headers = HeadersBefore(m, k)
                           ELSE HeadersBefore(m, k) \subseteq headers
  /\ k > 1 => contentLength = m.length
  /\ k > 2 /\ m.type # <<>> => contentType = m.type
  /\ m.kind = "response" => contentType = IF k > 2 THEN m.type ELSE <<>>

InHeader(m, k) ==
  /\ Present(m, k)
  /\ \/ /\ state = "name"
        /\ Reading("name", Name(m, k), AfterName(Value(m, k), From(m, k + 1)))
     \/ /\ state = "space"
        /\ text["name"] = Name(m, k) /\ text["value"] = <<>>
        /\ script = <<"SP">> \o (Value(m, k) \o LineEnd(From(m, k + 1)))
     \/ /\ state = "value"
        /\ text["name"] = Name(m, k)
        /\ Reading("value", Value(m, k), LineEnd(From(m, k + 1)))

HeadersAt(k) ==
  /\ StoredBefore(written, k)
  /\ \/ state = "new_line" /\ script = <<"LF">> \o From(written, k)
     \/ /\ state = "line_start" /\ text["name"] = <<>>
        /\ k # 3 => Present(written, k)
        /\ script = From(written, k)
     \/ state = "last_line" /\ k = 3 /\ script = <<"LF">>
     \/ k # 3 /\ InHeader(written, k)

HeadersInv == \E k \in 0..3 : HeadersAt(k)

SmallTypes == noise \in Nat /\ reversed \in BOOLEAN

(* Of a sender that writes heads as xtxp_message does. *)
HeadInv ==
  noise = 0 =>
    /\ text \in [Tokens -> Texts]
    /\ script # <<>> \/ at = "reading" =>
         written \in Messages /\ written.kind = IF reversed THEN "response" ELSE "request"
    /\ \/ at = "idle" /\ script \in {<<>>, Written(written)}
       \/ /\ at = "parsed" /\ state = "start"
          /\ script = <<>> => written \in Messages /\ StoredBefore(written, 3)
          /\ script # <<>> => script = Written(written)
       \/ /\ at = "reading"
          /\ IF state \in FirstLineStates THEN FirstLineInv ELSE HeadersInv

(* A text has a first character and a rest. *)
LEMMA HeadOfConcat ==
  ASSUME NEW c \in Chars, NEW rest \in Texts
  PROVE  /\ <<c>> \o rest \in Texts /\ <<c>> \o rest # <<>>
         /\ Head(<<c>> \o rest) = c /\ Tail(<<c>> \o rest) = rest
<1>1. <<c>> \in Texts /\ Len(<<c>>) = 1 /\ <<c>>[1] = c
  BY DEF Texts
<1>2. PICK one \in Texts : one = <<c>> /\ Len(one) = 1 /\ one[1] = c
  BY <1>1
<1>3. PICK all \in Texts : all = one \o rest
  BY ConcatProperties DEF Texts
<1>4. Len(rest) \in Nat /\ Len(all) = 1 + Len(rest)
      /\ \A i \in 1..(1 + Len(rest)) : all[i] = IF i <= 1 THEN one[i] ELSE rest[i - 1]
  BY <1>2, <1>3, ConcatProperties, LenProperties DEF Texts
<1>5. all # <<>> /\ Head(all) = c
  BY <1>2, <1>4 DEF Texts
<1>6. Tail(all) = rest
  <2>1. /\ Tail(all) \in Seq(Chars) /\ Len(Tail(all)) = Len(all) - 1
        /\ \A i \in 1..Len(Tail(all)) : Tail(all)[i] = all[i + 1]
    BY <1>5, HeadTailProperties DEF Texts
  <2>2. Len(Tail(all)) = Len(rest)
    BY <1>4, <2>1
  <2>3. \A i \in 1..Len(Tail(all)) : Tail(all)[i] = rest[i]
    BY <1>4, <2>1, <2>2
  <2> QED BY <2>1, <2>2, <2>3, SeqEqual DEF Texts
<1> QED BY <1>2, <1>3, <1>5, <1>6

(* A part of the head of which nothing has been read. *)
LEMMA ReadingBegins ==
  ASSUME NEW S, NEW full \in Seq(S), NEW rest
  PROVE  ReadIn(<<>>, full \o rest, full, rest)
<1>1. Len(full) \in Nat /\ 0 \in 0..Len(full)
  BY LenProperties
<1>2. SubSeq(full, 1, 0) = <<>>
  BY SubSeqEmpty
<1>3. SubSeq(full, 0 + 1, Len(full)) = full
  BY SubSeqFull
<1> QED BY <1>1, <1>2, <1>3 DEF ReadIn

(* The next character of a part, or of what follows on it when it has been read. *)
LEMMA NextChar ==
  ASSUME NEW S, S \subseteq Chars, NEW full \in Seq(S), NEW sep \in Chars, NEW rest \in Texts,
         NEW part, NEW stream, ReadIn(part, stream, full, <<sep>> \o rest)
  PROVE  /\ stream \in Texts /\ stream # <<>>
         /\ \/ Head(stream) = sep /\ Tail(stream) = rest /\ part = full
            \/ /\ Head(stream) \in S
               /\ part = <<>> => Head(stream) = Head(full)
               /\ ReadIn(Append(part, Head(stream)), Tail(stream), full, <<sep>> \o rest)
<1>1. PICK n \in 0..Len(full) : /\ part = SubSeq(full, 1, n)
                                /\ stream = SubSeq(full, n + 1, Len(full)) \o (<<sep>> \o rest)
  BY DEF ReadIn
<1>2. Len(full) \in Nat /\ full \in Seq(Chars) /\ \A i \in 1..Len(full) : full[i] \in S
  BY LenProperties, SeqMonotonic, ElementOfSeq
<1>3. PICK after \in Texts :
         after = <<sep>> \o rest /\ after # <<>> /\ Head(after) = sep /\ Tail(after) = rest
  BY HeadOfConcat
<1>4. CASE n = Len(full)
  <2>1. SubSeq(full, n + 1, Len(full)) = <<>> /\ SubSeq(full, 1, n) = full
    BY <1>2, <1>4, SubSeqEmpty, SubSeqFull
  <2>2. stream = after
    BY <1>1, <1>3, <2>1, ConcatEmptySeq DEF Texts
  <2> QED BY <1>1, <1>3, <2>1, <2>2
<1>5. CASE n < Len(full)
  <2>1. n + 1 \in 1..Len(full) /\ n \in Nat
    BY <1>2, <1>5
  <2> DEFINE left == SubSeq(full, n + 2, Len(full))
  <2>2. SubSeq(full, n + 1, Len(full)) = <<full[n + 1]>> \o left
    BY <1>2, <2>1, SubSeqRecursiveFirst
  <2>3. left \in Texts
    BY <1>2, <2>1, SubSeqProperties DEF Texts
  <2>4. PICK c \in S : c = full[n + 1]
    BY <1>2, <2>1
  <2> HIDE DEF left
  <2>5. PICK one \in Texts : one = <<c>>
    <3>1. <<c>> \in Texts
      BY <2>4 DEF Texts
    <3> QED BY <3>1
  <2>6. left \o after \in Texts
    BY <2>3, ConcatProperties DEF Texts
  <2>7. stream = <<c>> \o (left \o after)
    <3>1. stream = (one \o left) \o after
      BY <1>1, <1>3, <2>2, <2>4, <2>5
    <3>2. (one \o left) \o after = one \o (left \o after)
      BY <1>3, <2>3, <2>5, ConcatAssociative DEF Texts
    <3> QED BY <2>5, <3>1, <3>2
  <2>8. stream \in Texts /\ stream # <<>> /\ Head(stream) = c /\ Tail(stream) = left \o after
    BY <2>4, <2>6, <2>7, HeadOfConcat
  <2>9. Append(part, c) = SubSeq(full, 1, n + 1)
    <3>1. SubSeq(full, 1, n + 1) = SubSeq(full, 1, n) \o <<full[n + 1]>>
      BY <1>2, <2>1, SubSeqRecursiveSecond
    <3>2. SubSeq(full, 1, n) \in Seq(S)
      BY <1>2, <2>1, SubSeqProperties
    <3>3. Append(SubSeq(full, 1, n), c) = SubSeq(full, 1, n) \o <<c>>
      BY <2>4, <3>2, AppendIsConcat
    <3> QED BY <1>1, <2>4, <3>1, <3>3
  <2>10. Tail(stream) = SubSeq(full, (n + 1) + 1, Len(full)) \o after
    <3>1. (n + 1) + 1 = n + 2
      BY <2>1
    <3> QED BY <2>8, <3>1 DEF left
  <2>11. part = <<>> => Head(stream) = Head(full)
    <3>1. SubSeq(full, 1, n) \in Seq(S) /\ Len(SubSeq(full, 1, n)) = n
      BY <1>2, <2>1, SubSeqProperties
    <3>2. part = <<>> => n = 0
      BY <1>1, <3>1, EmptySeq
    <3>3. Head(full) = full[1]
      BY <2>1
    <3> QED BY <2>4, <2>8, <3>2, <3>3
  <2>12. n + 1 \in 0..Len(full)
    BY <1>2, <2>1
  <2>13. ReadIn(Append(part, Head(stream)), Tail(stream), full, <<sep>> \o rest)
    BY <1>3, <2>8, <2>9, <2>10, <2>12 DEF ReadIn
  <2> QED BY <2>4, <2>8, <2>11, <2>13
<1>6. n = Len(full) \/ n < Len(full)
  BY <1>2
<1> QED BY <1>4, <1>5, <1>6, Zenon

(* A number is read as it was written. *)
LEMMA TextIsRead ==
  ASSUME NEW n \in Nat
  PROVE  Unary(n) \in Seq({"1"}) /\ Len(Unary(n)) = n /\ Number(Unary(n)) = n
<1>1. Unary(n) \in Seq({"1"}) /\ Len(Unary(n)) = n /\ \A i \in 1..n : Unary(n)[i] = "1"
  BY DEF Unary
<1>2. PICK t \in Seq({"1"}) : t = Unary(n) /\ Len(t) = n /\ \A i \in 1..n : t[i] = "1"
  BY <1>1
<1>3. \A k \in 0..n : (\A i \in 1..k : t[i] = "SP") /\ (k = n \/ t[k + 1] # "SP") <=> k = 0
  <2>1. \A k \in 0..n : k # 0 => 1 \in 1..k /\ t[1] # "SP"
    BY <1>2
  <2>2. n # 0 => t[0 + 1] # "SP"
    BY <1>2
  <2> QED BY <2>1, <2>2
<1>4. Leading(t, "SP") = 0
  BY <1>2, <1>3 DEF Leading
<1>5. SubSeq(t, Leading(t, "SP") + 1, Len(t)) = t
  BY <1>4, SubSeqFull
<1>6. \A k \in 0..n : (\A i \in 1..k : t[i] = "1") /\ (k = n \/ t[k + 1] # "1") <=> k = n
  <2>1. \A k \in 0..n : k # n => k + 1 \in 1..n
    OBVIOUS
  <2> QED BY <1>2, <2>1
<1>7. Leading(t, "1") = n
  BY <1>2, <1>6 DEF Leading
<1> QED BY <1>1, <1>2, <1>5, <1>7 DEF Number

(* The characters of a part are characters, and not the one that ends it. *)
LEMMA PartChars ==
  /\ TokenChars \subseteq Chars /\ ValueChars \subseteq Chars /\ LineChars \subseteq Chars
  /\ UriChars \subseteq Chars /\ LineChars \ {"SP"} \subseteq Chars /\ {"1"} \subseteq Chars
  /\ \A c \in TokenChars : IsToken(c)
  /\ {"CR", "LF", "SP", ":"} \subseteq Chars
BY DEF TokenChars, ValueChars, LineChars, UriChars, Chars, Letters

(* What the messages are made of. *)
LEMMA Parts ==
  ASSUME NEW m \in Messages
  PROVE  /\ m.kind \in {"request", "response"}
         /\ m.kind = "request" => /\ m.method \in Seq(TokenChars) /\ m.method # <<>>
                                  /\ m.uri \in Seq(UriChars) /\ m.version \in Seq(LineChars)
         /\ m.kind = "response" => /\ m.version \in Seq(LineChars \ {"SP"}) /\ m.version # <<>>
                                   /\ Head(m.version) \in TokenChars
                                   /\ m.text \in Seq(LineChars)
         /\ m.code \in Nat /\ m.length \in Nat
         /\ m.method \in Texts /\ m.uri \in Texts /\ m.version \in Texts /\ m.text \in Texts
         /\ \A k \in 0..2 : /\ Name(m, k) \in Seq(TokenChars) /\ Value(m, k) \in Seq(ValueChars)
                            /\ Name(m, k) \in Texts /\ Value(m, k) \in Texts
                            /\ Present(m, k) => Name(m, k) # <<>>
         /\ Unary(m.code) \in Texts /\ Unary(m.code) \in Seq({"1"})
<1>1. m \in MessageType /\ WellFormed(m)
  BY ConstantsAssumption, WellFormedAssumption
<1>2. Unary(m.length) \in Seq({"1"}) /\ Unary(m.code) \in Seq({"1"})
  BY <1>1, TextIsRead DEF MessageType
<1>3. Unary(m.length) \in Seq(ValueChars) /\ Unary(m.length) \in Texts /\ Unary(m.code) \in Texts
  <2>1. {"1"} \subseteq ValueChars /\ {"1"} \subseteq Chars
    BY DEF ValueChars, IsCtl, Chars
  <2> QED BY <1>2, <2>1, SeqMonotonic DEF Texts
<1>4. ContentLength \in Seq(TokenChars) /\ ContentType \in Seq(TokenChars)
  BY DEF ContentLength, ContentType, TokenChars, Chars, Letters, IsToken, IsChar, IsCtl
<1>5. ContentLength # <<>> /\ ContentType # <<>>
  BY DEF ContentLength, ContentType
<1>6. m.header \in Seq(TokenChars) /\ m.value \in Seq(ValueChars) /\ m.type \in Seq(ValueChars)
  BY <1>1 DEF WellFormed
<1>7. ASSUME NEW k \in 0..2
      PROVE  /\ Name(m, k) \in Seq(TokenChars) /\ Value(m, k) \in Seq(ValueChars)
             /\ Name(m, k) \in Texts /\ Value(m, k) \in Texts
             /\ Present(m, k) => Name(m, k) # <<>>
  <2>1. Name(m, k) \in Seq(TokenChars) /\ Value(m, k) \in Seq(ValueChars)
    BY <1>3, <1>4, <1>6 DEF Name, Value
  <2>2. Name(m, k) \in Seq(Chars) /\ Value(m, k) \in Seq(Chars)
    BY <2>1, PartChars, SeqMonotonic
  <2>3. Present(m, k) => Name(m, k) # <<>>
    BY <1>5 DEF Name, Present
  <2> QED BY <2>1, <2>2, <2>3 DEF Texts
<1> QED BY <1>1, <1>2, <1>3, <1>7 DEF MessageType, WellFormed

(* A line of the head, and what is left of one, are texts. *)
LEMMA LineType ==
  ASSUME NEW name \in Texts, NEW value \in Texts, NEW rest \in Texts
  PROVE  /\ LineEnd(rest) \in Texts /\ AfterName(value, rest) \in Texts
         /\ Line(name, value, rest) \in Texts
         /\ <<"LF">> \o rest \in Texts
         /\ <<"SP">> \o rest \in Texts
         /\ value \o LineEnd(rest) \in Texts
         /\ <<"SP">> \o (value \o LineEnd(rest)) \in Texts
<1>1. \A c \in {"CR", "LF", "SP", ":"} : \A t \in Texts : <<c>> \o t \in Texts
  BY PartChars, HeadOfConcat
<1>2. \A s, t \in Texts : s \o t \in Texts
  BY ConcatProperties DEF Texts
<1>3. LineEnd(rest) \in Texts
  BY <1>1 DEF LineEnd
<1>4. value \o LineEnd(rest) \in Texts
  BY <1>2, <1>3
<1>5. AfterName(value, rest) \in Texts
  BY <1>1, <1>4 DEF AfterName
<1> QED BY <1>1, <1>2, <1>3, <1>4, <1>5 DEF Line

(* So is the empty line that ends the head. *)
LEMMA EmptyType == Empty \in Texts /\ <<>> \in Texts
<1>1. <<>> \in Texts
  BY EmptySeq DEF Texts
<1> QED BY <1>1, LineType DEF Empty

(* What is left of the head at the end of each part is a text. *)
LEMMA FromTypes ==
  ASSUME NEW m \in Messages
  PROVE  /\ \A k \in 0..3 : From(m, k) \in Texts
         /\ AfterUri(m) \in Texts /\ m.version \o LineEnd(From(m, 0)) \in Texts
         /\ AfterMethod(m) \in Texts /\ m.uri \o AfterUri(m) \in Texts
         /\ AfterCode(m) \in Texts /\ m.text \o LineEnd(From(m, 0)) \in Texts
         /\ AfterVersion(m) \in Texts /\ Unary(m.code) \o AfterCode(m) \in Texts
<1>1. \A s, t \in Texts : s \o t \in Texts /\ <<"SP">> \o t \in Texts /\ LineEnd(t) \in Texts
  BY LineType, ConcatProperties DEF Texts
<1>2. \A k \in 0..2 : \A t \in Texts : Line(Name(m, k), Value(m, k), t) \in Texts
  BY Parts, LineType
<1>3. FromType(m) \in Texts
  BY <1>2, EmptyType DEF FromType
<1>4. FromLength(m) \in Texts
  BY <1>2, <1>3 DEF FromLength
<1>5. FromHeader(m) \in Texts
  BY <1>2, <1>4 DEF FromHeader
<1>6. \A k \in 0..3 : From(m, k) \in Texts
  BY <1>3, <1>4, <1>5, EmptyType DEF From
<1>7. m.version \o LineEnd(From(m, 0)) \in Texts /\ m.text \o LineEnd(From(m, 0)) \in Texts
  BY <1>1, <1>6, Parts
<1>8. AfterUri(m) \in Texts /\ AfterCode(m) \in Texts
  BY <1>1, <1>7 DEF AfterUri, AfterCode
<1>9. m.uri \o AfterUri(m) \in Texts /\ Unary(m.code) \o AfterCode(m) \in Texts
  BY <1>1, <1>8, Parts
<1> QED BY <1>1, <1>6, <1>7, <1>8, <1>9 DEF AfterMethod, AfterVersion

(* The kth header is written, or it is not there. *)
LEMMA FromUnfolds ==
  ASSUME NEW m, NEW k \in 0..2
  PROVE  From(m, k) = IF Present(m, k) THEN Line(Name(m, k), Value(m, k), From(m, k + 1))
                                       ELSE From(m, k + 1)
<1>1. CASE k = 0
  BY <1>1 DEF From, FromHeader
<1>2. CASE k = 1
  BY <1>2 DEF From, FromLength, Present
<1>3. CASE k = 2
  BY <1>3 DEF From, FromType
<1> QED BY <1>1, <1>2, <1>3

(* serialize, with its parts to the right of each other. *)
LEMMA TwoChars ==
  ASSUME NEW a \in Chars, NEW b \in Chars, NEW rest \in Texts
  PROVE  <<a, b>> \in Texts /\ <<a, b>> \o rest = <<a>> \o (<<b>> \o rest)
<1>1. PICK one \in Texts : one = <<a>> /\ Len(one) = 1 /\ one[1] = a
  <2>1. <<a>> \in Texts /\ Len(<<a>>) = 1 /\ <<a>>[1] = a
    BY DEF Texts
  <2> QED BY <2>1
<1>2. PICK other \in Texts : other = <<b>> /\ Len(other) = 1 /\ other[1] = b
  <2>1. <<b>> \in Texts /\ Len(<<b>>) = 1 /\ <<b>>[1] = b
    BY DEF Texts
  <2> QED BY <2>1
<1>3. PICK both \in Texts : both = <<a, b>> /\ Len(both) = 2 /\ both[1] = a /\ both[2] = b
  <2>1. <<a, b>> \in Texts /\ Len(<<a, b>>) = 2 /\ <<a, b>>[1] = a /\ <<a, b>>[2] = b
    BY DEF Texts
  <2> QED BY <2>1
<1>4. both = one \o other
  <2>1. PICK cat \in Texts : cat = one \o other /\ Len(cat) = 2 /\ cat[1] = a /\ cat[2] = b
    <3>1. /\ one \o other \in Texts /\ Len(one \o other) = 2
          /\ (one \o other)[1] = a /\ (one \o other)[2] = b
      BY <1>1, <1>2, ConcatProperties DEF Texts
    <3> QED BY <3>1
  <2>2. Len(both) = Len(cat) /\ \A i \in 1..Len(both) : both[i] = cat[i]
    BY <1>3, <2>1
  <2>3. both = cat
    BY <2>2, SeqEqual DEF Texts
  <2> QED BY <2>1, <2>3
<1>5. (one \o other) \o rest = one \o (other \o rest)
  BY <1>1, <1>2, ConcatAssociative DEF Texts
<1> QED BY <1>1, <1>2, <1>3, <1>4, <1>5

(* Concatenation, of which the provers know no more than what is proved here. *)
Cat(s, t) == s \o t

(* Parts put together, behind an operator of their own so that a prover does not
   regroup them without end. *)
LEMMA CatType ==
  ASSUME NEW s \in Texts, NEW t \in Texts
  PROVE  Cat(s, t) \in Texts
BY ConcatProperties DEF Texts, Cat

(* Where the parts are put together does not matter. *)
LEMMA Regroup ==
  ASSUME NEW s \in Texts, NEW t \in Texts, NEW u \in Texts
  PROVE  Cat(Cat(s, t), u) = Cat(s, Cat(t, u))
BY ConcatAssociative DEF Texts, Cat

(* The same for the parts of a line of a header. *)
LEMMA FourParts ==
  ASSUME NEW a \in Texts, NEW b \in Texts, NEW c \in Texts, NEW d \in Texts
  PROVE  /\ Cat(Cat(Cat(a, b), c), d) \in Texts
         /\ Cat(Cat(Cat(a, b), c), d) = Cat(a, Cat(b, Cat(c, d)))
<1>1. Cat(a, b) \in Texts /\ Cat(c, d) \in Texts
  BY CatType
<1>2. Cat(Cat(a, b), c) \in Texts
  BY <1>1, CatType
<1>3. Cat(Cat(Cat(a, b), c), d) \in Texts
  BY <1>2, CatType
<1>4. Cat(Cat(Cat(a, b), c), d) = Cat(a, Cat(b, Cat(c, d)))
  BY <1>1, Regroup
<1> QED BY <1>3, <1>4

(* The same for five parts. *)
LEMMA FiveParts ==
  ASSUME NEW a \in Texts, NEW b \in Texts, NEW c \in Texts, NEW d \in Texts, NEW e \in Texts
  PROVE  Cat(Cat(Cat(Cat(a, b), c), d), e) = Cat(a, Cat(b, Cat(c, Cat(d, e))))
<1>1. Cat(a, b) \in Texts /\ Cat(d, e) \in Texts
  BY CatType
<1>2. Cat(Cat(Cat(Cat(a, b), c), d), e) = Cat(Cat(a, b), Cat(c, Cat(d, e)))
  BY <1>1, FourParts
<1> QED BY <1>1, <1>2, FourParts, Regroup

(* The same for the first line and what follows on it. *)
LEMMA FirstLineParts ==
  ASSUME NEW a \in Texts, NEW b \in Texts, NEW c \in Texts, NEW blank \in Texts, NEW end \in Texts,
         NEW rest \in Texts
  PROVE  Cat(Cat(Cat(Cat(Cat(Cat(a, blank), b), blank), c), end), rest)
           = Cat(a, Cat(blank, Cat(b, Cat(blank, Cat(c, Cat(end, rest))))))
<1>1. Cat(a, blank) \in Texts /\ Cat(end, rest) \in Texts
  BY CatType
<1>2. Cat(Cat(a, blank), b) \in Texts /\ Cat(c, Cat(end, rest)) \in Texts
  BY <1>1, CatType
<1>3. Cat(blank, Cat(c, Cat(end, rest))) \in Texts
  BY <1>2, CatType
<1>4. Cat(Cat(Cat(Cat(Cat(Cat(a, blank), b), blank), c), end), rest)
        = Cat(Cat(Cat(a, blank), b), Cat(blank, Cat(c, Cat(end, rest))))
  BY <1>2, FiveParts
<1>5. Cat(Cat(Cat(a, blank), b), Cat(blank, Cat(c, Cat(end, rest))))
        = Cat(a, Cat(blank, Cat(b, Cat(blank, Cat(c, Cat(end, rest))))))
  BY <1>3, FourParts
<1> QED BY <1>4, <1>5

(* What the literals of serialize put in front of a text. *)
LEMMA Literals ==
  /\ \E colon \in Texts : /\ colon = <<":", "SP">>
                          /\ \A t \in Texts : colon \o t = <<":">> \o (<<"SP">> \o t)
  /\ \E end \in Texts : /\ end = <<"CR", "LF">>
                        /\ \A t \in Texts : end \o t = LineEnd(t)
  /\ \E blank \in Texts : blank = <<"SP">>
<1>1. /\ <<":", "SP">> \in Texts
      /\ \A t \in Texts : <<":", "SP">> \o t = <<":">> \o (<<"SP">> \o t)
  <2>1. ":" \in Chars /\ "SP" \in Chars
    BY PartChars
  <2> QED BY <2>1, TwoChars, EmptyType, Zenon
<1>2. /\ <<"CR", "LF">> \in Texts
      /\ \A t \in Texts : <<"CR", "LF">> \o t = LineEnd(t)
  <2>1. "CR" \in Chars /\ "LF" \in Chars
    BY PartChars
  <2> QED BY <2>1, TwoChars, EmptyType, Zenon DEF LineEnd
<1>3. <<"SP">> \in Texts
  BY PartChars DEF Texts
<1> QED BY <1>1, <1>2, <1>3, Zenon

(* What serialize writes for a header is its line. *)
LEMMA HeaderLineIsLine ==
  ASSUME NEW name \in Texts, NEW value \in Texts, NEW rest \in Texts
  PROVE  HeaderLine(name, value) \in Texts /\ HeaderLine(name, value) \o rest = Line(name, value, rest)
<1>1. PICK colon \in Texts : colon = <<":", "SP">>
                             /\ \A t \in Texts : colon \o t = <<":">> \o (<<"SP">> \o t)
  BY Literals
<1>2. PICK end \in Texts : end = <<"CR", "LF">> /\ \A t \in Texts : end \o t = LineEnd(t)
  BY Literals
<1>3. HeaderLine(name, value) = ((name \o colon) \o value) \o end
  BY <1>1, <1>2, Zenon DEF HeaderLine
<1>4. /\ ((name \o colon) \o value) \o end \in Texts
      /\ (((name \o colon) \o value) \o end) \o rest = name \o (colon \o (value \o (end \o rest)))
  <2>1. Cat(Cat(Cat(name, colon), value), end) \in Texts
    BY FourParts
  <2>2. Cat(Cat(Cat(Cat(name, colon), value), end), rest)
          = Cat(name, Cat(colon, Cat(value, Cat(end, rest))))
    BY FiveParts
  <2> QED BY <2>1, <2>2, Zenon DEF Cat
<1>5. end \o rest = LineEnd(rest) /\ value \o LineEnd(rest) \in Texts
  BY <1>2, LineType, Zenon
<1>6. colon \o (value \o LineEnd(rest)) = AfterName(value, rest)
  BY <1>1, <1>5, Zenon DEF AfterName
<1> QED BY <1>3, <1>4, <1>5, <1>6, Zenon DEF Line

(* What serialize writes after the first line are the headers from the first one on. *)
LEMMA HeadersWritten ==
  ASSUME NEW m \in Messages
  PROVE  SerializeHeaders(m) = From(m, 0) /\ SerializeHeaders(m) \in Texts
<1>1. \A k \in 0..2 : Name(m, k) \in Texts /\ Value(m, k) \in Texts
  BY Parts
<1>0. \A n, v \in Texts : /\ HeaderLine(n, v) \in Texts
                          /\ \A t \in Texts : HeaderLine(n, v) \o t = Line(n, v, t)
  BY HeaderLineIsLine, EmptyType, Zenon
<1> DEFINE header == IF m.header = <<>> THEN <<>> ELSE HeaderLine(m.header, m.value)
           type   == IF m.type = <<>> THEN <<>> ELSE HeaderLine(ContentType, m.type)
           length == HeaderLine(ContentLength, Unary(m.length))
<1>2. header \in Texts /\ \A t \in Texts : header \o t = IF Present(m, 0)
                                                        THEN Line(Name(m, 0), Value(m, 0), t) ELSE t
  <2>1. Present(m, 0) <=> m.header # <<>>
    BY DEF Present
  <2>2. Name(m, 0) = m.header /\ Value(m, 0) = m.value
    BY DEF Name, Value
  <2>3. HeaderLine(m.header, m.value) \in Texts
        /\ \A t \in Texts : HeaderLine(m.header, m.value) \o t = Line(Name(m, 0), Value(m, 0), t)
    <3>1. PICK n \in Texts, v \in Texts : n = Name(m, 0) /\ v = Value(m, 0)
      BY <1>1
    <3>2. HeaderLine(n, v) \in Texts /\ \A t \in Texts : HeaderLine(n, v) \o t = Line(n, v, t)
      BY <1>0, Zenon
    <3> QED BY <2>2, <3>1, <3>2, Zenon
  <2>4. <<>> \in Texts /\ \A t \in Texts : <<>> \o t = t
    BY ConcatEmptySeq, EmptyType DEF Texts
  <2> QED BY <2>1, <2>3, <2>4
<1>3. type \in Texts /\ \A t \in Texts : type \o t = IF Present(m, 2)
                                                    THEN Line(Name(m, 2), Value(m, 2), t) ELSE t
  <2>1. Present(m, 2) <=> m.type # <<>>
    BY DEF Present
  <2>2. Name(m, 2) = ContentType /\ Value(m, 2) = m.type
    BY DEF Name, Value
  <2>3. HeaderLine(ContentType, m.type) \in Texts
        /\ \A t \in Texts : HeaderLine(ContentType, m.type) \o t = Line(Name(m, 2), Value(m, 2), t)
    <3>1. PICK n \in Texts, v \in Texts : n = Name(m, 2) /\ v = Value(m, 2)
      BY <1>1
    <3>2. HeaderLine(n, v) \in Texts /\ \A t \in Texts : HeaderLine(n, v) \o t = Line(n, v, t)
      BY <1>0, Zenon
    <3> QED BY <2>2, <3>1, <3>2, Zenon
  <2>4. <<>> \in Texts /\ \A t \in Texts : <<>> \o t = t
    BY ConcatEmptySeq, EmptyType DEF Texts
  <2> QED BY <2>1, <2>3, <2>4
<1>4. length \in Texts /\ \A t \in Texts : length \o t = Line(Name(m, 1), Value(m, 1), t)
  <2>1. Name(m, 1) = ContentLength /\ Value(m, 1) = Unary(m.length)
    BY DEF Name, Value
  <2>2. PICK n \in Texts, v \in Texts : n = Name(m, 1) /\ v = Value(m, 1)
    BY <1>1
  <2>3. HeaderLine(n, v) \in Texts /\ \A t \in Texts : HeaderLine(n, v) \o t = Line(n, v, t)
    BY <1>0, Zenon
  <2> QED BY <2>1, <2>2, <2>3, Zenon
<1>5. PICK end \in Texts : end = <<"CR", "LF">> /\ end = Empty
  <2>1. PICK end \in Texts : end = <<"CR", "LF">> /\ \A t \in Texts : end \o t = LineEnd(t)
    BY Literals
  <2>2. end \o <<>> = Empty
    BY <2>1, EmptyType, Zenon DEF Empty
  <2>3. end \o <<>> = end
    BY ConcatEmptySeq DEF Texts
  <2> QED BY <2>1, <2>2, <2>3, Zenon
<1>6. SerializeHeaders(m) = ((header \o length) \o type) \o end
  BY <1>5 DEF SerializeHeaders
<1> HIDE DEF header, type, length
<1>7. type \o end \in Texts /\ length \o (type \o end) \in Texts
  <2>1. Cat(type, end) \in Texts /\ Cat(length, Cat(type, end)) \in Texts
    BY <1>3, <1>4, CatType
  <2> QED BY <2>1, Zenon DEF Cat
<1>8. ((header \o length) \o type) \o end = header \o (length \o (type \o end))
  <2>1. header \in Texts /\ length \in Texts /\ type \in Texts
    BY <1>2, <1>3, <1>4
  <2>2. Cat(Cat(Cat(header, length), type), end) = Cat(header, Cat(length, Cat(type, end)))
    BY <2>1, FourParts
  <2> QED BY <2>2, Zenon DEF Cat
<1>10. type \o end = FromType(m)
  BY <1>3, <1>5 DEF FromType
<1>11. length \o (type \o end) = FromLength(m)
  BY <1>4, <1>7, <1>10 DEF FromLength
<1>12. header \o (length \o (type \o end)) = FromHeader(m)
  BY <1>2, <1>7, <1>11 DEF FromHeader
<1> QED BY <1>6, <1>8, <1>12, FromTypes DEF From

(* Text put before another stays there. *)
LEMMA NotEmptied ==
  ASSUME NEW s \in Texts, NEW t \in Texts, s # <<>>
  PROVE  s \o t # <<>>
BY ConcatEqualIffEmpty DEF Texts

(* What serialize writes is the head that the invariant follows. *)
LEMMA HeadWritten ==
  ASSUME NEW m \in Messages
  PROVE  /\ m.kind = "request" => SerializeRequest(m) = Written(m)
         /\ m.kind = "response" => SerializeResponse(m) = Written(m)
         /\ Written(m) \in Texts /\ Written(m) # <<>>
<1>1. PICK blank \in Texts : blank = <<"SP">>
  BY Literals
<1>2. PICK end \in Texts : end = <<"CR", "LF">> /\ \A t \in Texts : end \o t = LineEnd(t)
  BY Literals
<1>3. PICK h \in Texts : h = SerializeHeaders(m) /\ h = From(m, 0)
  BY HeadersWritten
<1>4. end \o h = LineEnd(h)
  BY <1>2
<1>5. /\ m.method \in Texts /\ m.uri \in Texts /\ m.version \in Texts /\ m.text \in Texts
      /\ Unary(m.code) \in Texts
  BY Parts
<1>6. CASE m.kind = "request"
  <2>1. PICK a \in Texts, b \in Texts, c \in Texts : a = m.method /\ b = m.uri /\ c = m.version
    BY <1>5
  <2>2. SerializeRequest(m) = a \o (blank \o (b \o (blank \o (c \o (end \o h)))))
    <3>1. SerializeRequest(m) = Cat(Cat(Cat(Cat(Cat(Cat(a, blank), b), blank), c), end), h)
      BY <1>1, <1>2, <1>3, <2>1, Zenon DEF SerializeRequest, Cat
    <3>2. Cat(Cat(Cat(Cat(Cat(Cat(a, blank), b), blank), c), end), h)
            = Cat(a, Cat(blank, Cat(b, Cat(blank, Cat(c, Cat(end, h))))))
      BY FirstLineParts
    <3> QED BY <3>1, <3>2, Zenon DEF Cat
  <2>3. Written(m) = m.method \o AfterMethod(m)
    BY <1>6 DEF Written
  <2>4. SerializeRequest(m) = Written(m)
    BY <1>1, <1>3, <1>4, <2>1, <2>2, <2>3, Zenon DEF AfterMethod, AfterUri
  <2>5. m.method # <<>> /\ AfterMethod(m) \in Texts
    BY <1>6, Parts, FromTypes
  <2>6. Written(m) \in Texts /\ Written(m) # <<>>
    <3>1. m.method \in Texts
      BY <1>5
    <3>2. m.method \o AfterMethod(m) \in Texts
      BY <2>5, <3>1, ConcatProperties DEF Texts
    <3>3. m.method \o AfterMethod(m) # <<>>
      BY <2>5, <3>1, NotEmptied
    <3> QED BY <2>3, <3>2, <3>3, Zenon
  <2> QED BY <1>6, <2>4, <2>6
<1>7. CASE m.kind = "response"
  <2>1. PICK a \in Texts, b \in Texts, c \in Texts : a = m.version /\ b = Unary(m.code) /\ c = m.text
    BY <1>5
  <2>2. SerializeResponse(m) = a \o (blank \o (b \o (blank \o (c \o (end \o h)))))
    <3>1. SerializeResponse(m) = Cat(Cat(Cat(Cat(Cat(Cat(a, blank), b), blank), c), end), h)
      BY <1>1, <1>2, <1>3, <2>1, Zenon DEF SerializeResponse, Cat
    <3>2. Cat(Cat(Cat(Cat(Cat(Cat(a, blank), b), blank), c), end), h)
            = Cat(a, Cat(blank, Cat(b, Cat(blank, Cat(c, Cat(end, h))))))
      BY FirstLineParts
    <3> QED BY <3>1, <3>2, Zenon DEF Cat
  <2>3. Written(m) = m.version \o AfterVersion(m)
    BY <1>7 DEF Written
  <2>4. SerializeResponse(m) = Written(m)
    BY <1>1, <1>3, <1>4, <2>1, <2>2, <2>3, Zenon DEF AfterVersion, AfterCode
  <2>5. m.version # <<>> /\ AfterVersion(m) \in Texts
    BY <1>7, Parts, FromTypes
  <2>6. Written(m) \in Texts /\ Written(m) # <<>>
    <3>1. m.version \in Texts
      BY <1>5
    <3>2. m.version \o AfterVersion(m) \in Texts
      BY <2>5, <3>1, ConcatProperties DEF Texts
    <3>3. m.version \o AfterVersion(m) # <<>>
      BY <2>5, <3>1, NotEmptied
    <3> QED BY <2>3, <3>2, <3>3, Zenon
  <2> QED BY <1>7, <2>4, <2>6
<1> QED BY <1>6, <1>7, Parts

(* What the text of each token becomes. *)
LEMMA TextStep ==
  ASSUME text \in [Tokens -> Texts], NEW c \in Chars, text' = TextAfter(c)
  PROVE  /\ text' \in [Tokens -> Texts]
         /\ \A t \in Clears(c) \cap Tokens : text'[t] = <<>>
         /\ \A t \in Tokens \ Clears(c) :
              text'[t] = IF After(c) = t /\ state \in {t, "start", "line_start"}
                         THEN Append(text[t], c) ELSE text[t]
<1>1. \A t \in Tokens : Append(text[t], c) \in Texts
  BY AppendProperties DEF Texts
<1>2. <<>> \in Texts
  BY EmptyType
<1>3. text' = [t \in Tokens |-> IF t \in Clears(c) THEN <<>>
                                ELSE IF Takes(t, c) THEN Append(text[t], c) ELSE text[t]]
  BY DEF TextAfter
<1>4. text' \in [Tokens -> Texts]
  BY <1>1, <1>2, <1>3
<1> QED BY <1>3, <1>4 DEF Takes

(* A character of the head has been accepted. *)
Taken ==
  LET c == Head(script) IN
  /\ state' = After(c)
  /\ text' = TextAfter(c)
  /\ script' = Tail(script)
  /\ matched' = MatchedAfter(c)
  /\ CASE state = "value" /\ After(c) = "new_line" -> StoreHeader
       [] state = "code" /\ After(c) = "text"      -> StoreStatus
       [] OTHER                                    -> UNCHANGED messageVars
  /\ UNCHANGED <<reversed, written>>

(* The request line. *)
LEMMA MethodStep ==
  ASSUME text \in [Tokens -> Texts], written \in Messages, written.kind = "request",
         reversed = FALSE, matched = 0, contentLength = 0, headers = {},
         state \in {"start", "method"}, text["uri"] = <<>>, text["version"] = <<>>,
         state = "start" => text["method"] = <<>>,
         Reading("method", written.method, AfterMethod(written))
  PROVE  /\ script \in Texts /\ script # <<>> /\ After(Head(script)) # "fail"
         /\ Taken => state' \in FirstLineStates /\ FirstLineInv'
<1> DEFINE c == Head(script)
<1>1. /\ written.method \in Seq(TokenChars) /\ written.method # <<>>
      /\ written.uri \in Seq(UriChars) /\ written.uri \o AfterUri(written) \in Texts
  BY Parts, FromTypes
<1>2. /\ script \in Texts /\ script # <<>>
      /\ \/ c = "SP" /\ Tail(script) = written.uri \o AfterUri(written) /\ text["method"] = written.method
         \/ /\ c \in TokenChars
            /\ ReadIn(Append(text["method"], c), Tail(script), written.method, AfterMethod(written))
  <2>1. PICK rest \in Texts : rest = written.uri \o AfterUri(written)
    BY <1>1
  <2>2. ReadIn(text["method"], script, written.method, <<"SP">> \o rest)
    BY <2>1 DEF Reading, AfterMethod
  <2>3. TokenChars \subseteq Chars /\ "SP" \in Chars
    BY PartChars
  <2>4. /\ script \in Texts /\ script # <<>>
        /\ \/ Head(script) = "SP" /\ Tail(script) = rest /\ text["method"] = written.method
           \/ /\ Head(script) \in TokenChars
              /\ ReadIn(Append(text["method"], Head(script)), Tail(script), written.method,
                         <<"SP">> \o rest)
    BY <1>1, <2>2, <2>3, NextChar
  <2> QED BY <2>1, <2>4 DEF AfterMethod
<1>3. c \in Chars
  BY <1>2, PartChars
<1> HIDE DEF c
<1>4. CASE /\ c \in TokenChars
           /\ ReadIn(Append(text["method"], c), Tail(script), written.method, AfterMethod(written))
  <2>1. After(c) = "method"
    BY <1>4, PartChars DEF After, FirstLineStates, RequestLine, IsToken
  <2>2. Clears(c) = {} /\ MatchedAfter(c) = 0
    BY <1>4, <2>1, PartChars DEF Clears, MatchedAfter, IsToken, IsCtl
  <2>3. ASSUME Taken
        PROVE  state' \in FirstLineStates /\ FirstLineInv'
    <3>1. /\ state' = "method" /\ text' = TextAfter(c) /\ script' = Tail(script) /\ matched' = 0
          /\ UNCHANGED <<reversed, written, headers, contentLength>>
      BY <2>1, <2>2, <2>3 DEF Taken, c, messageVars
    <3>2. /\ text'["method"] = Append(text["method"], c)
          /\ text'["uri"] = <<>> /\ text'["version"] = <<>>
      BY <1>3, <2>1, <2>2, <3>1, TextStep DEF Tokens
    <3>3. Reading("method", written.method, AfterMethod(written))'
      BY <1>4, <3>1, <3>2 DEF Reading
    <3> QED BY <3>1, <3>2, <3>3 DEF FirstLineStates, FirstLineInv, RequestLineInv
  <2> QED BY <1>2, <2>1, <2>3 DEF c
<1>5. CASE c = "SP" /\ Tail(script) = written.uri \o AfterUri(written) /\ text["method"] = written.method
  <2>1. state = "method" /\ After(c) = "uri"
    BY <1>1, <1>5 DEF After, FirstLineStates, RequestLine, IsToken
  <2>2. Clears(c) = {} /\ MatchedAfter(c) = 0
    BY <1>5, <2>1 DEF Clears, MatchedAfter
  <2>3. ASSUME Taken
        PROVE  state' \in FirstLineStates /\ FirstLineInv'
    <3>1. /\ state' = "uri" /\ text' = TextAfter(c) /\ script' = Tail(script) /\ matched' = 0
          /\ UNCHANGED <<reversed, written, headers, contentLength>>
      BY <2>1, <2>2, <2>3 DEF Taken, c, messageVars
    <3>2. /\ text'["method"] = written.method /\ text'["uri"] = <<>> /\ text'["version"] = <<>>
      BY <1>3, <1>5, <2>1, <2>2, <3>1, TextStep DEF Tokens
    <3>3. Reading("uri", written.uri, AfterUri(written))'
      BY <1>1, <1>5, <3>1, <3>2, ReadingBegins DEF Reading
    <3> QED BY <3>1, <3>2, <3>3 DEF FirstLineStates, FirstLineInv, RequestLineInv
  <2> QED BY <1>2, <2>1, <2>3 DEF c
<1> QED BY <1>2, <1>4, <1>5

(* The path of the request. *)
LEMMA UriStep ==
  ASSUME text \in [Tokens -> Texts], written \in Messages, written.kind = "request",
         reversed = FALSE, matched = 0, contentLength = 0, headers = {}, state = "uri",
         text["method"] = written.method, text["version"] = <<>>,
         Reading("uri", written.uri, AfterUri(written))
  PROVE  /\ script \in Texts /\ script # <<>> /\ After(Head(script)) # "fail"
         /\ Taken => state' \in FirstLineStates /\ FirstLineInv'
<1> DEFINE c == Head(script)
<1>1. written.uri \in Seq(UriChars) /\ written.version \in Seq(LineChars)
  BY Parts
<1>2. PICK rest \in Texts : rest = written.version \o LineEnd(From(written, 0))
  BY FromTypes
<1>3. /\ script \in Texts /\ script # <<>>
      /\ \/ c = "SP" /\ Tail(script) = rest /\ text["uri"] = written.uri
         \/ /\ c \in UriChars
            /\ ReadIn(Append(text["uri"], c), Tail(script), written.uri, <<"SP">> \o rest)
  <2>1. ReadIn(text["uri"], script, written.uri, <<"SP">> \o rest)
    BY <1>2 DEF Reading, AfterUri
  <2> QED BY <1>1, <2>1, PartChars, NextChar
<1>4. c \in Chars
  BY <1>3, PartChars
<1> HIDE DEF c
<1>5. CASE /\ c \in UriChars
           /\ ReadIn(Append(text["uri"], c), Tail(script), written.uri, <<"SP">> \o rest)
  <2>1. After(c) = "uri"
    BY <1>5 DEF After, FirstLineStates, RequestLine, UriChars, LineChars, IsCtl
  <2>2. Clears(c) = {} /\ MatchedAfter(c) = 0
    BY <1>5, <2>1 DEF Clears, MatchedAfter, UriChars, IsCtl
  <2>3. ASSUME Taken
        PROVE  state' \in FirstLineStates /\ FirstLineInv'
    <3>1. /\ state' = "uri" /\ text' = TextAfter(c) /\ script' = Tail(script) /\ matched' = 0
          /\ UNCHANGED <<reversed, written, headers, contentLength>>
      BY <2>1, <2>2, <2>3 DEF Taken, c, messageVars
    <3>2. /\ text'["uri"] = Append(text["uri"], c)
          /\ text'["method"] = written.method /\ text'["version"] = <<>>
      BY <1>4, <2>1, <2>2, <3>1, TextStep DEF Tokens
    <3>3. Reading("uri", written.uri, AfterUri(written))'
      BY <1>2, <1>5, <3>1, <3>2 DEF Reading, AfterUri
    <3> QED BY <3>1, <3>2, <3>3 DEF FirstLineStates, FirstLineInv, RequestLineInv
  <2> QED BY <1>3, <2>1, <2>3 DEF c
<1>6. CASE c = "SP" /\ Tail(script) = rest /\ text["uri"] = written.uri
  <2>1. After(c) = "version"
    BY <1>6 DEF After, FirstLineStates, RequestLine, IsToken
  <2>2. Clears(c) = {} /\ MatchedAfter(c) = 0
    BY <1>6, <2>1 DEF Clears, MatchedAfter
  <2>3. ASSUME Taken
        PROVE  state' \in FirstLineStates /\ FirstLineInv'
    <3>1. /\ state' = "version" /\ text' = TextAfter(c) /\ script' = Tail(script) /\ matched' = 0
          /\ UNCHANGED <<reversed, written, headers, contentLength>>
      BY <2>1, <2>2, <2>3 DEF Taken, c, messageVars
    <3>2. /\ text'["method"] = written.method /\ text'["uri"] = written.uri
          /\ text'["version"] = <<>>
      BY <1>4, <1>6, <2>1, <2>2, <3>1, TextStep DEF Tokens
    <3>3. Reading("version", written.version, LineEnd(From(written, 0)))'
      BY <1>1, <1>2, <1>6, <3>1, <3>2, ReadingBegins DEF Reading
    <3> QED BY <3>1, <3>2, <3>3 DEF FirstLineStates, FirstLineInv, RequestLineInv
  <2> QED BY <1>3, <2>1, <2>3 DEF c
<1> QED BY <1>3, <1>5, <1>6

(* At the end of the first line no header has been stored. *)
LEMMA NoHeaderYet == \A m : HeadersBefore(m, 0) = {}
BY DEF HeadersBefore

(* The version, with which the request line ends. *)
LEMMA VersionStep ==
  ASSUME text \in [Tokens -> Texts], written \in Messages, written.kind = "request",
         reversed = FALSE, matched = 0, contentLength = 0, headers = {}, state = "version",
         text["method"] = written.method, text["uri"] = written.uri,
         Reading("version", written.version, LineEnd(From(written, 0)))
  PROVE  /\ script \in Texts /\ script # <<>> /\ After(Head(script)) # "fail"
         /\ Taken => IF state' \in FirstLineStates THEN FirstLineInv' ELSE HeadersInv'
<1> DEFINE c == Head(script)
<1>1. written.version \in Seq(LineChars)
  BY Parts
<1>2. PICK rest \in Texts : rest = <<"LF">> \o From(written, 0)
  <2>1. From(written, 0) \in Texts
    BY FromTypes
  <2> QED BY <2>1, LineType, EmptyType
<1>3. /\ script \in Texts /\ script # <<>>
      /\ \/ c = "CR" /\ Tail(script) = rest /\ text["version"] = written.version
         \/ /\ c \in LineChars
            /\ ReadIn(Append(text["version"], c), Tail(script), written.version, <<"CR">> \o rest)
  <2>1. ReadIn(text["version"], script, written.version, <<"CR">> \o rest)
    BY <1>2 DEF Reading, LineEnd
  <2> QED BY <1>1, <2>1, PartChars, NextChar
<1>4. c \in Chars
  BY <1>3, PartChars
<1> HIDE DEF c
<1>5. CASE /\ c \in LineChars
           /\ ReadIn(Append(text["version"], c), Tail(script), written.version, <<"CR">> \o rest)
  <2>1. After(c) = "version"
    BY <1>5 DEF After, FirstLineStates, RequestLine, LineChars, IsToken
  <2>2. Clears(c) = {} /\ MatchedAfter(c) = 0
    BY <1>5, <2>1 DEF Clears, MatchedAfter, LineChars
  <2>3. ASSUME Taken
        PROVE  state' \in FirstLineStates /\ FirstLineInv'
    <3>1. /\ state' = "version" /\ text' = TextAfter(c) /\ script' = Tail(script) /\ matched' = 0
          /\ UNCHANGED <<reversed, written, headers, contentLength>>
      BY <2>1, <2>2, <2>3 DEF Taken, c, messageVars
    <3>2. /\ text'["version"] = Append(text["version"], c)
          /\ text'["method"] = written.method /\ text'["uri"] = written.uri
      BY <1>4, <2>1, <2>2, <3>1, TextStep DEF Tokens
    <3>3. Reading("version", written.version, LineEnd(From(written, 0)))'
      BY <1>2, <1>5, <3>1, <3>2 DEF Reading, LineEnd
    <3> QED BY <3>1, <3>2, <3>3 DEF FirstLineStates, FirstLineInv, RequestLineInv
  <2> QED BY <1>3, <2>1, <2>3 DEF c
<1>6. CASE c = "CR" /\ Tail(script) = rest /\ text["version"] = written.version
  <2>1. After(c) = "new_line"
    BY <1>6 DEF After, FirstLineStates, RequestLine, IsToken, IsCtl
  <2>2. Clears(c) = {}
    BY <1>6, <2>1 DEF Clears
  <2>3. ASSUME Taken
        PROVE  state' \notin FirstLineStates /\ HeadersInv'
    <3>1. /\ state' = "new_line" /\ text' = TextAfter(c) /\ script' = Tail(script)
          /\ UNCHANGED <<reversed, written, headers, contentLength>>
      BY <2>1, <2>2, <2>3 DEF Taken, c, messageVars
    <3>2. /\ text'["method"] = written.method /\ text'["uri"] = written.uri
          /\ text'["version"] = written.version
      BY <1>4, <1>6, <2>1, <2>2, <3>1, TextStep DEF Tokens
    <3>3. StoredBefore(written, 0)'
      BY <3>1, <3>2, NoHeaderYet DEF StoredBefore, FirstLineRead
    <3>4. script' = <<"LF">> \o From(written', 0)
      BY <1>2, <1>6, <3>1
    <3>5. state' = "new_line" /\ script' = <<"LF">> \o From(written, 0)'
      BY <3>1, <3>4
    <3>6. HeadersAt(0)'
      BY <3>3, <3>5, Zenon DEF HeadersAt
    <3>7. HeadersInv'
      BY <3>6 DEF HeadersInv
    <3> QED BY <3>1, <3>7 DEF FirstLineStates
  <2> QED BY <1>3, <2>1, <2>3 DEF c
<1> QED BY <1>3, <1>5, <1>6

(* The status line. *)
LEMMA StatusVersionStep ==
  ASSUME text \in [Tokens -> Texts], written \in Messages, written.kind = "response",
         reversed = TRUE, matched = 0, contentType = <<>>, state \in {"start", "version"},
         text["text"] = <<>>, state = "start" => text["version"] = <<>>,
         Reading("version", written.version, AfterVersion(written))
  PROVE  /\ script \in Texts /\ script # <<>> /\ After(Head(script)) # "fail"
         /\ Taken => state' \in FirstLineStates /\ FirstLineInv'
<1> DEFINE c == Head(script)
<1>1. /\ written.version \in Seq(LineChars \ {"SP"}) /\ written.version # <<>>
      /\ Head(written.version) \in TokenChars /\ Unary(written.code) \in Seq({"1"})
  BY Parts
<1>2. PICK rest \in Texts : rest = Unary(written.code) \o AfterCode(written)
  BY FromTypes
<1>3. /\ script \in Texts /\ script # <<>>
      /\ \/ c = "SP" /\ Tail(script) = rest /\ text["version"] = written.version
         \/ /\ c \in LineChars \ {"SP"}
            /\ text["version"] = <<>> => c = Head(written.version)
            /\ ReadIn(Append(text["version"], c), Tail(script), written.version, <<"SP">> \o rest)
  <2>1. ReadIn(text["version"], script, written.version, <<"SP">> \o rest)
    BY <1>2 DEF Reading, AfterVersion
  <2> QED BY <1>1, <2>1, PartChars, NextChar
<1>4. c \in Chars
  BY <1>3, PartChars
<1> HIDE DEF c
<1>5. CASE /\ c \in LineChars \ {"SP"}
           /\ text["version"] = <<>> => c = Head(written.version)
           /\ ReadIn(Append(text["version"], c), Tail(script), written.version, <<"SP">> \o rest)
  <2>1. state = "start" => c \in TokenChars
    BY <1>1, <1>5
  <2>2. After(c) = "version"
    BY <1>5, <2>1 DEF After, FirstLineStates, StatusLine, TokenChars, LineChars
  <2>3. Clears(c) = {} /\ MatchedAfter(c) = 0
    BY <1>5, <2>2 DEF Clears, MatchedAfter, LineChars
  <2>4. ASSUME Taken
        PROVE  state' \in FirstLineStates /\ FirstLineInv'
    <3>1. /\ state' = "version" /\ text' = TextAfter(c) /\ script' = Tail(script) /\ matched' = 0
          /\ UNCHANGED <<reversed, written, contentType>>
      BY <2>2, <2>3, <2>4 DEF Taken, c, messageVars
    <3>2. text'["version"] = Append(text["version"], c) /\ text'["text"] = <<>>
      BY <1>4, <2>2, <2>3, <3>1, TextStep DEF Tokens
    <3>3. Reading("version", written.version, AfterVersion(written))'
      BY <1>2, <1>5, <3>1, <3>2 DEF Reading, AfterVersion
    <3> QED BY <3>1, <3>2, <3>3 DEF FirstLineStates, FirstLineInv, StatusLineInv
  <2> QED BY <1>3, <2>2, <2>4 DEF c
<1>6. CASE c = "SP" /\ Tail(script) = rest /\ text["version"] = written.version
  <2>1. state = "version" /\ After(c) = "code"
    BY <1>1, <1>6 DEF After, FirstLineStates, StatusLine, IsToken
  <2>2. Clears(c) = {"code"} /\ MatchedAfter(c) = 0
    BY <1>6, <2>1 DEF Clears, MatchedAfter
  <2>3. ASSUME Taken
        PROVE  state' \in FirstLineStates /\ FirstLineInv'
    <3>1. /\ state' = "code" /\ text' = TextAfter(c) /\ script' = Tail(script) /\ matched' = 0
          /\ UNCHANGED <<reversed, written, contentType>>
      BY <2>1, <2>2, <2>3 DEF Taken, c, messageVars
    <3>2. /\ text'["version"] = written.version /\ text'["text"] = <<>>
          /\ text'["code"] = <<>>
      BY <1>4, <1>6, <2>1, <2>2, <3>1, TextStep DEF Tokens
    <3>3. Reading("code", Unary(written.code), AfterCode(written))'
      BY <1>1, <1>2, <1>6, <3>1, <3>2, ReadingBegins DEF Reading
    <3> QED BY <3>1, <3>2, <3>3 DEF FirstLineStates, FirstLineInv, StatusLineInv
  <2> QED BY <1>3, <2>1, <2>3 DEF c
<1> QED BY <1>3, <1>5, <1>6

(* The status code; it is stored at the blank after it. *)
LEMMA CodeStep ==
  ASSUME text \in [Tokens -> Texts], written \in Messages, written.kind = "response",
         reversed = TRUE, matched = 0, contentType = <<>>, state = "code",
         text["version"] = written.version, text["text"] = <<>>,
         Reading("code", Unary(written.code), AfterCode(written))
  PROVE  /\ script \in Texts /\ script # <<>> /\ After(Head(script)) # "fail"
         /\ Taken => state' \in FirstLineStates /\ FirstLineInv'
<1> DEFINE c == Head(script)
<1>1. /\ Unary(written.code) \in Seq({"1"}) /\ Number(Unary(written.code)) = written.code
      /\ written.text \in Seq(LineChars)
  BY Parts, TextIsRead
<1>2. PICK rest \in Texts : rest = written.text \o LineEnd(From(written, 0))
  BY FromTypes
<1>3. /\ script \in Texts /\ script # <<>>
      /\ \/ c = "SP" /\ Tail(script) = rest /\ text["code"] = Unary(written.code)
         \/ /\ c \in {"1"}
            /\ ReadIn(Append(text["code"], c), Tail(script), Unary(written.code), <<"SP">> \o rest)
  <2>1. ReadIn(text["code"], script, Unary(written.code), <<"SP">> \o rest)
    BY <1>2 DEF Reading, AfterCode
  <2> QED BY <1>1, <2>1, PartChars, NextChar
<1>4. c \in Chars
  BY <1>3, PartChars
<1> HIDE DEF c
<1>5. CASE /\ c \in {"1"}
           /\ ReadIn(Append(text["code"], c), Tail(script), Unary(written.code), <<"SP">> \o rest)
  <2>1. After(c) = "code"
    BY <1>5 DEF After, FirstLineStates, StatusLine, IsDigit
  <2>2. Clears(c) = {} /\ MatchedAfter(c) = 0
    BY <1>5, <2>1 DEF Clears, MatchedAfter
  <2>3. ASSUME Taken
        PROVE  state' \in FirstLineStates /\ FirstLineInv'
    <3>1. /\ state' = "code" /\ text' = TextAfter(c) /\ script' = Tail(script) /\ matched' = 0
          /\ UNCHANGED <<reversed, written, contentType>>
      BY <2>1, <2>2, <2>3 DEF Taken, c, messageVars
    <3>2. /\ text'["code"] = Append(text["code"], c)
          /\ text'["version"] = written.version /\ text'["text"] = <<>>
      BY <1>4, <2>1, <2>2, <3>1, TextStep DEF Tokens
    <3>3. Reading("code", Unary(written.code), AfterCode(written))'
      BY <1>2, <1>5, <3>1, <3>2 DEF Reading, AfterCode
    <3> QED BY <3>1, <3>2, <3>3 DEF FirstLineStates, FirstLineInv, StatusLineInv
  <2> QED BY <1>3, <2>1, <2>3 DEF c
<1>6. CASE c = "SP" /\ Tail(script) = rest /\ text["code"] = Unary(written.code)
  <2>1. After(c) = "text"
    BY <1>6 DEF After, FirstLineStates, StatusLine, IsDigit
  <2>2. Clears(c) = {} /\ MatchedAfter(c) = 0
    BY <1>6, <2>1 DEF Clears, MatchedAfter
  <2>3. ASSUME Taken
        PROVE  state' \in FirstLineStates /\ FirstLineInv'
    <3>1. /\ state' = "text" /\ text' = TextAfter(c) /\ script' = Tail(script) /\ matched' = 0
          /\ UNCHANGED <<reversed, written>> /\ StoreStatus
      BY <2>1, <2>2, <2>3 DEF Taken, c
    <3>2. /\ text'["version"] = written.version /\ text'["text"] = <<>>
      BY <1>4, <2>1, <2>2, <3>1, TextStep DEF Tokens
    <3>3. Reading("text", written.text, LineEnd(From(written, 0)))'
      BY <1>1, <1>2, <1>6, <3>1, <3>2, ReadingBegins DEF Reading
    <3>4. statusCode' = written.code /\ contentType' = <<>>
      BY <1>1, <1>6, <3>1 DEF StoreStatus
    <3> QED BY <3>1, <3>2, <3>3, <3>4 DEF FirstLineStates, FirstLineInv, StatusLineInv
  <2> QED BY <1>3, <2>1, <2>3 DEF c
<1> QED BY <1>3, <1>5, <1>6

(* The status text, with which the status line ends. *)
LEMMA PhraseStep ==
  ASSUME text \in [Tokens -> Texts], written \in Messages, written.kind = "response",
         reversed = TRUE, matched = 0, contentType = <<>>, state = "text",
         text["version"] = written.version, statusCode = written.code,
         Reading("text", written.text, LineEnd(From(written, 0)))
  PROVE  /\ script \in Texts /\ script # <<>> /\ After(Head(script)) # "fail"
         /\ Taken => IF state' \in FirstLineStates THEN FirstLineInv' ELSE HeadersInv'
<1> DEFINE c == Head(script)
<1>1. written.text \in Seq(LineChars)
  BY Parts
<1>2. PICK rest \in Texts : rest = <<"LF">> \o From(written, 0)
  <2>1. From(written, 0) \in Texts
    BY FromTypes
  <2> QED BY <2>1, LineType, EmptyType
<1>3. /\ script \in Texts /\ script # <<>>
      /\ \/ c = "CR" /\ Tail(script) = rest /\ text["text"] = written.text
         \/ /\ c \in LineChars
            /\ ReadIn(Append(text["text"], c), Tail(script), written.text, <<"CR">> \o rest)
  <2>1. ReadIn(text["text"], script, written.text, <<"CR">> \o rest)
    BY <1>2 DEF Reading, LineEnd
  <2> QED BY <1>1, <2>1, PartChars, NextChar
<1>4. c \in Chars
  BY <1>3, PartChars
<1> HIDE DEF c
<1>5. CASE /\ c \in LineChars
           /\ ReadIn(Append(text["text"], c), Tail(script), written.text, <<"CR">> \o rest)
  <2>1. After(c) = "text"
    BY <1>5 DEF After, FirstLineStates, StatusLine, LineChars
  <2>2. Clears(c) = {} /\ MatchedAfter(c) = 0
    BY <1>5, <2>1 DEF Clears, MatchedAfter, LineChars
  <2>3. ASSUME Taken
        PROVE  state' \in FirstLineStates /\ FirstLineInv'
    <3>1. /\ state' = "text" /\ text' = TextAfter(c) /\ script' = Tail(script) /\ matched' = 0
          /\ UNCHANGED <<reversed, written, statusCode, contentType>>
      BY <2>1, <2>2, <2>3 DEF Taken, c, messageVars
    <3>2. /\ text'["text"] = Append(text["text"], c)
          /\ text'["version"] = written.version
      BY <1>4, <2>1, <2>2, <3>1, TextStep DEF Tokens
    <3>3. Reading("text", written.text, LineEnd(From(written, 0)))'
      BY <1>2, <1>5, <3>1, <3>2 DEF Reading, LineEnd
    <3> QED BY <3>1, <3>2, <3>3 DEF FirstLineStates, FirstLineInv, StatusLineInv
  <2> QED BY <1>3, <2>1, <2>3 DEF c
<1>6. CASE c = "CR" /\ Tail(script) = rest /\ text["text"] = written.text
  <2>1. After(c) = "new_line"
    BY <1>6 DEF After, FirstLineStates, StatusLine
  <2>2. Clears(c) = {}
    BY <1>6, <2>1 DEF Clears
  <2>3. ASSUME Taken
        PROVE  state' \notin FirstLineStates /\ HeadersInv'
    <3>1. /\ state' = "new_line" /\ text' = TextAfter(c) /\ script' = Tail(script)
          /\ UNCHANGED <<reversed, written, statusCode, contentType>>
      BY <2>1, <2>2, <2>3 DEF Taken, c, messageVars
    <3>2. text'["version"] = written.version /\ text'["text"] = written.text
      BY <1>4, <1>6, <2>1, <2>2, <3>1, TextStep DEF Tokens
    <3>3. StoredBefore(written, 0)'
      BY <3>1, <3>2, NoHeaderYet DEF StoredBefore, FirstLineRead
    <3>4. state' = "new_line" /\ script' = <<"LF">> \o From(written, 0)'
      BY <1>2, <1>6, <3>1
    <3>5. HeadersAt(0)'
      BY <3>3, <3>4, Zenon DEF HeadersAt
    <3>6. HeadersInv'
      BY <3>5 DEF HeadersInv
    <3> QED BY <3>1, <3>6 DEF FirstLineStates
  <2> QED BY <1>3, <2>1, <2>3 DEF c
<1> QED BY <1>3, <1>5, <1>6

(* The headers. *)
LEMMA HeadersGrow ==
  ASSUME NEW m, NEW k \in 0..2
  PROVE  HeadersBefore(m, k + 1)
           = HeadersBefore(m, k) \cup (IF Present(m, k) THEN {<<Name(m, k), Value(m, k)>>} ELSE {})
<1>1. \A i : i \in 0..(k + 1 - 1) <=> i \in 0..(k - 1) \/ i = k
  OBVIOUS
<1> QED BY <1>1 DEF HeadersBefore

(* No two headers have the same name. *)
LEMMA NamesDiffer ==
  ASSUME NEW m \in Messages, NEW j \in 0..2, NEW k \in 0..2, j # k
  PROVE  Name(m, j) # Name(m, k)
<1>1. m.header \notin {ContentLength, ContentType}
  BY WellFormedAssumption DEF WellFormed
<1>2. ContentLength # ContentType
  BY DEF ContentLength, ContentType
<1> QED BY <1>1, <1>2 DEF Name

(* The headers leave alone what was read of the first line. *)
LEMMA FirstLineKept ==
  ASSUME FirstLineRead(written), UNCHANGED <<written, statusCode>>,
         \A t \in {"method", "uri", "version", "text"} : text'[t] = text[t]
  PROVE  FirstLineRead(written)'
BY DEF FirstLineRead

(* What has been stored stays stored while nothing is stored. *)
LEMMA StoredKept ==
  ASSUME NEW k, StoredBefore(written, k), UNCHANGED <<written, messageVars>>,
         \A t \in {"method", "uri", "version", "text"} : text'[t] = text[t]
  PROVE  StoredBefore(written, k)'
<1>1. FirstLineRead(written)'
  BY FirstLineKept DEF StoredBefore, messageVars
<1>2. HeadersBefore(written, k)' = HeadersBefore(written, k)
  BY DEF HeadersBefore
<1> QED BY <1>1, <1>2 DEF StoredBefore, messageVars

(* A header that has been read is stored. *)
LEMMA HeaderStored ==
  ASSUME written \in Messages, NEW k \in 0..2, StoredBefore(written, k), Present(written, k),
         text["name"] = Name(written, k), text["value"] = Value(written, k), StoreHeader,
         written' = written,
         \A t \in {"method", "uri", "version", "text"} : text'[t] = text[t]
  PROVE  StoredBefore(written, k + 1)'
<1> DEFINE name == Name(written, k)
<1>1. /\ headers' = {h \in headers : h[1] # name} \cup {<<name, Value(written, k)>>}
      /\ contentLength' = IF name = ContentLength THEN Number(Value(written, k)) ELSE contentLength
      /\ contentType' = IF name = ContentType THEN Value(written, k) ELSE contentType
      /\ statusCode' = statusCode
  BY DEF StoreHeader
<1>2. FirstLineRead(written)'
  BY <1>1, FirstLineKept DEF StoredBefore
<1>3. \A h \in HeadersBefore(written, k) : h[1] # name
  <2> SUFFICES ASSUME NEW j \in 0..(k - 1) PROVE <<Name(written, j), Value(written, j)>>[1] # name
    BY DEF HeadersBefore
  <2>1. j \in 0..2 /\ j # k
    OBVIOUS
  <2> QED BY <2>1, NamesDiffer
<1>4. HeadersBefore(written, k + 1)
        = HeadersBefore(written, k) \cup {<<name, Value(written, k)>>}
  BY HeadersGrow
<1>5. HeadersBefore(written, k + 1)' = HeadersBefore(written, k + 1)
  BY DEF HeadersBefore
<1>6. IF written.kind = "request" THEN headers' = HeadersBefore(written, k + 1)
                                  ELSE HeadersBefore(written, k + 1) \subseteq headers'
  <2>1. CASE written.kind = "request"
    <3>1. headers = HeadersBefore(written, k)
      BY <2>1 DEF StoredBefore
    <3>2. {h \in headers : h[1] # name} = headers
      BY <1>3, <3>1
    <3> QED BY <1>1, <1>4, <2>1, <3>1, <3>2
  <2>2. CASE written.kind # "request"
    <3>1. HeadersBefore(written, k) \subseteq headers
      BY <2>2 DEF StoredBefore
    <3> QED BY <1>1, <1>3, <1>4, <2>2, <3>1
  <2> QED BY <2>1, <2>2
<1>7. /\ k = 0 => name # ContentLength /\ name # ContentType
      /\ k = 1 => name = ContentLength /\ name # ContentType
      /\ k = 2 => name = ContentType /\ name # ContentLength
  <2>1. written.header \notin {ContentLength, ContentType}
    BY WellFormedAssumption DEF WellFormed
  <2>2. ContentLength # ContentType
    BY DEF ContentLength, ContentType
  <2> QED BY <2>1, <2>2 DEF Name
<1>8. k + 1 > 1 => contentLength' = written.length
  <2>1. CASE k = 1
    <3>1. Value(written, k) = Unary(written.length) /\ written.length \in Nat
      BY <2>1, Parts DEF Value
    <3> QED BY <1>1, <1>7, <2>1, <3>1, TextIsRead
  <2>2. CASE k = 2
    BY <1>1, <1>7, <2>2 DEF StoredBefore
  <2> QED BY <2>1, <2>2
<1>9. /\ k + 1 > 2 => contentType' = written.type
      /\ written.kind = "response" => contentType' = IF k + 1 > 2 THEN written.type ELSE <<>>
  <2>1. CASE k = 2
    <3>1. Value(written, k) = written.type
      BY <2>1 DEF Value
    <3> QED BY <1>1, <1>7, <2>1, <3>1
  <2>2. CASE k # 2
    <3>1. contentType' = contentType
      BY <1>1, <1>7, <2>2
    <3>2. written.kind = "response" => contentType = <<>>
      BY <2>2 DEF StoredBefore
    <3> QED BY <2>2, <3>1, <3>2
  <2> QED BY <2>1, <2>2
<1> HIDE DEF name
<1> QED BY <1>2, <1>5, <1>6, <1>8, <1>9 DEF StoredBefore

(* The line that comes next is that of a header, or the last. *)
LEMMA Skipped ==
  ASSUME NEW k \in 0..2, StoredBefore(written, k), ~Present(written, k)
  PROVE  StoredBefore(written, k + 1) /\ From(written, k + 1) = From(written, k)
<1>1. From(written, k + 1) = From(written, k)
  BY FromUnfolds
<1>2. HeadersBefore(written, k + 1) = HeadersBefore(written, k)
  BY HeadersGrow
<1>3. k # 1 /\ (k = 2 => written.type = <<>>)
  BY DEF Present
<1> QED BY <1>1, <1>2, <1>3 DEF StoredBefore

(* Headers that are absent are skipped: what follows begins with a header that is
   present or is the empty line. *)
LEMMA NextLine ==
  ASSUME NEW k \in 0..3, StoredBefore(written, k)
  PROVE  \E j \in 0..3 : /\ StoredBefore(written, j) /\ From(written, j) = From(written, k)
                         /\ j # 3 => Present(written, j)
<1>1. CASE k = 3 \/ Present(written, k)
  BY <1>1
<1>2. CASE k # 3 /\ ~Present(written, k)
  <2>1. k \in {0, 2}
    BY <1>2 DEF Present
  <2>2. k + 1 \in 0..3 /\ (k + 1 # 3 => Present(written, k + 1))
    BY <2>1 DEF Present
  <2>3. StoredBefore(written, k + 1) /\ From(written, k + 1) = From(written, k)
    BY <1>2, <2>1, Skipped
  <2> QED BY <2>2, <2>3
<1> QED BY <1>1, <1>2

(* The character between two lines. *)
LEMMA BetweenLines ==
  ASSUME text \in [Tokens -> Texts], written \in Messages, NEW k \in 0..3,
         StoredBefore(written, k), state = "new_line", script = <<"LF">> \o From(written, k)
  PROVE  /\ script \in Texts /\ script # <<>> /\ After(Head(script)) # "fail"
         /\ Taken => state' \notin FirstLineStates /\ HeadersInv'
<1>1. From(written, k) \in Texts /\ "LF" \in Chars
  BY FromTypes, PartChars
<1>2. script \in Texts /\ script # <<>> /\ Head(script) = "LF" /\ Tail(script) = From(written, k)
  BY <1>1, HeadOfConcat
<1>3. After("LF") = "line_start"
  BY DEF After, FirstLineStates, HeaderState, IsToken, IsCtl
<1>4. Clears("LF") = {"name"}
  BY <1>3 DEF Clears
<1>5. ASSUME Taken
      PROVE  state' \notin FirstLineStates /\ HeadersInv'
  <2>1. /\ state' = "line_start" /\ text' = TextAfter("LF") /\ script' = From(written, k)
        /\ UNCHANGED <<written, messageVars>>
    BY <1>2, <1>3, <1>5 DEF Taken
  <2>2. /\ text'["name"] = <<>>
        /\ \A t \in {"method", "uri", "version", "text"} : text'[t] = text[t]
    BY <1>1, <1>3, <1>4, <2>1, TextStep DEF Tokens
  <2>3. PICK j \in 0..3 : /\ StoredBefore(written, j) /\ From(written, j) = From(written, k)
                          /\ j # 3 => Present(written, j)
    BY NextLine
  <2>4. StoredBefore(written, j)'
    BY <2>1, <2>2, <2>3, StoredKept
  <2>5. script' = From(written, j)' /\ (j # 3 => Present(written, j)')
    BY <2>1, <2>3
  <2>6. HeadersAt(j)'
    BY <2>1, <2>2, <2>4, <2>5 DEF HeadersAt
  <2> QED BY <2>1, <2>6 DEF HeadersInv, FirstLineStates
<1> QED BY <1>2, <1>3, <1>5

(* What is known while a header is read. *)
LEMMA HeaderParts ==
  ASSUME NEW m \in Messages, NEW k \in 0..2
  PROVE  /\ Name(m, k) \in Seq(TokenChars) /\ Value(m, k) \in Seq(ValueChars)
         /\ Present(m, k) => Name(m, k) # <<>>
         /\ From(m, k + 1) \in Texts /\ <<"LF">> \o From(m, k + 1) \in Texts
         /\ Value(m, k) \o LineEnd(From(m, k + 1)) \in Texts
         /\ <<"SP">> \o (Value(m, k) \o LineEnd(From(m, k + 1))) \in Texts
<1>1. /\ Name(m, k) \in Seq(TokenChars) /\ Value(m, k) \in Seq(ValueChars)
      /\ Present(m, k) => Name(m, k) # <<>>
  BY Parts
<1>2. PICK value \in Texts : value = Value(m, k)
  BY Parts
<1>3. k + 1 \in 0..3
  OBVIOUS
<1>4. PICK rest \in Texts : rest = From(m, k + 1)
  BY <1>3, FromTypes
<1>5. <<"LF">> \o rest \in Texts /\ value \o LineEnd(rest) \in Texts
      /\ <<"SP">> \o (value \o LineEnd(rest)) \in Texts
  BY LineType
<1> QED BY <1>1, <1>2, <1>4, <1>5

(* The first character of a header's name, and the ones after it. *)
LEMMA NameStep ==
  ASSUME text \in [Tokens -> Texts], written \in Messages, NEW k \in 0..2,
         StoredBefore(written, k), Present(written, k), state \in {"line_start", "name"},
         state = "line_start" => text["name"] = <<>>,
         Reading("name", Name(written, k), AfterName(Value(written, k), From(written, k + 1)))
  PROVE  /\ script \in Texts /\ script # <<>> /\ After(Head(script)) # "fail"
         /\ Taken => state' \notin FirstLineStates /\ HeadersInv'
<1> DEFINE c == Head(script)
<1>1. Name(written, k) \in Seq(TokenChars) /\ Name(written, k) # <<>>
  BY HeaderParts
<1>2. PICK rest \in Texts : rest = <<"SP">> \o (Value(written, k) \o LineEnd(From(written, k + 1)))
  BY HeaderParts
<1>3. /\ script \in Texts /\ script # <<>>
      /\ \/ c = ":" /\ Tail(script) = rest /\ text["name"] = Name(written, k)
         \/ /\ c \in TokenChars
            /\ ReadIn(Append(text["name"], c), Tail(script), Name(written, k), <<":">> \o rest)
  <2>1. ReadIn(text["name"], script, Name(written, k), <<":">> \o rest)
    BY <1>2 DEF Reading, AfterName
  <2> QED BY <1>1, <2>1, PartChars, NextChar
<1>4. c \in Chars
  BY <1>3, PartChars
<1>5. k \in 0..3 /\ k # 3
  OBVIOUS
<1> HIDE DEF c
<1>6. CASE /\ c \in TokenChars
           /\ ReadIn(Append(text["name"], c), Tail(script), Name(written, k), <<":">> \o rest)
  <2>1. After(c) = "name"
    BY <1>6, PartChars DEF After, FirstLineStates, HeaderState, IsToken, IsCtl
  <2>2. Clears(c) = {}
    BY <2>1 DEF Clears
  <2>3. ASSUME Taken
        PROVE  state' \notin FirstLineStates /\ HeadersInv'
    <3>1. /\ state' = "name" /\ text' = TextAfter(c) /\ script' = Tail(script)
          /\ UNCHANGED <<written, messageVars>>
      BY <2>1, <2>3 DEF Taken, c
    <3>2. /\ text'["name"] = Append(text["name"], c)
          /\ \A t \in {"method", "uri", "version", "text"} : text'[t] = text[t]
      BY <1>4, <2>1, <2>2, <3>1, TextStep DEF Tokens
    <3>3. Reading("name", Name(written, k), AfterName(Value(written, k), From(written, k + 1)))'
      BY <1>2, <1>6, <3>1, <3>2 DEF Reading, AfterName
    <3>4. StoredBefore(written, k)'
      BY <3>1, <3>2, StoredKept
    <3>5. InHeader(written, k)'
      BY <3>1, <3>3 DEF InHeader
    <3> QED BY <1>5, <3>1, <3>4, <3>5 DEF HeadersAt, HeadersInv, FirstLineStates
  <2> QED BY <1>3, <2>1, <2>3 DEF c
<1>7. CASE c = ":" /\ Tail(script) = rest /\ text["name"] = Name(written, k)
  <2>1. state = "name" /\ After(c) = "space"
    BY <1>1, <1>7 DEF After, FirstLineStates, HeaderState, IsToken
  <2>2. Clears(c) = {"value"}
    BY <2>1 DEF Clears
  <2>3. ASSUME Taken
        PROVE  state' \notin FirstLineStates /\ HeadersInv'
    <3>1. /\ state' = "space" /\ text' = TextAfter(c) /\ script' = Tail(script)
          /\ UNCHANGED <<written, messageVars>>
      BY <2>1, <2>3 DEF Taken, c
    <3>2. /\ text'["name"] = Name(written, k) /\ text'["value"] = <<>>
          /\ \A t \in {"method", "uri", "version", "text"} : text'[t] = text[t]
      BY <1>4, <1>7, <2>1, <2>2, <3>1, TextStep DEF Tokens
    <3>3. StoredBefore(written, k)'
      BY <3>1, <3>2, StoredKept
    <3>4. InHeader(written, k)'
      BY <1>2, <1>7, <3>1, <3>2 DEF InHeader
    <3> QED BY <1>5, <3>1, <3>3, <3>4 DEF HeadersAt, HeadersInv, FirstLineStates
  <2> QED BY <1>3, <2>1, <2>3 DEF c
<1> QED BY <1>3, <1>6, <1>7

(* The blank before a value. *)
LEMMA SpaceStep ==
  ASSUME text \in [Tokens -> Texts], written \in Messages, NEW k \in 0..2,
         StoredBefore(written, k), Present(written, k), state = "space",
         text["name"] = Name(written, k), text["value"] = <<>>,
         script = <<"SP">> \o (Value(written, k) \o LineEnd(From(written, k + 1)))
  PROVE  /\ script \in Texts /\ script # <<>> /\ After(Head(script)) # "fail"
         /\ Taken => state' \notin FirstLineStates /\ HeadersInv'
<1>1. PICK rest \in Texts : rest = Value(written, k) \o LineEnd(From(written, k + 1))
  BY HeaderParts
<1>2. script \in Texts /\ script # <<>> /\ Head(script) = "SP" /\ Tail(script) = rest
  BY <1>1, PartChars, HeadOfConcat
<1>3. After("SP") = "value" /\ "SP" \in Chars
  BY PartChars DEF After, FirstLineStates, HeaderState, IsToken, IsCtl
<1>4. Clears("SP") = {}
  BY <1>3 DEF Clears
<1>5. k \in 0..3 /\ k # 3
  OBVIOUS
<1>6. ASSUME Taken
      PROVE  state' \notin FirstLineStates /\ HeadersInv'
  <2>1. /\ state' = "value" /\ text' = TextAfter("SP") /\ script' = rest
        /\ UNCHANGED <<written, messageVars>>
    BY <1>2, <1>3, <1>6 DEF Taken
  <2>2. /\ text'["name"] = Name(written, k) /\ text'["value"] = <<>>
        /\ \A t \in {"method", "uri", "version", "text"} : text'[t] = text[t]
    BY <1>3, <1>4, <2>1, TextStep DEF Tokens
  <2>3. Reading("value", Value(written, k), LineEnd(From(written, k + 1)))'
    <3>1. Value(written, k) \in Seq(ValueChars)
      BY HeaderParts
    <3> QED BY <1>1, <2>1, <2>2, <3>1, ReadingBegins DEF Reading
  <2>4. StoredBefore(written, k)'
    BY <2>1, <2>2, StoredKept
  <2>5. InHeader(written, k)'
    BY <2>1, <2>2, <2>3 DEF InHeader
  <2> QED BY <1>5, <2>1, <2>4, <2>5 DEF HeadersAt, HeadersInv, FirstLineStates
<1> QED BY <1>2, <1>3, <1>6

(* A value; the header is stored at its end. *)
LEMMA ValueStep ==
  ASSUME text \in [Tokens -> Texts], written \in Messages, NEW k \in 0..2,
         StoredBefore(written, k), Present(written, k), state = "value",
         text["name"] = Name(written, k),
         Reading("value", Value(written, k), LineEnd(From(written, k + 1)))
  PROVE  /\ script \in Texts /\ script # <<>> /\ After(Head(script)) # "fail"
         /\ Taken => state' \notin FirstLineStates /\ HeadersInv'
<1> DEFINE c == Head(script)
<1>1. Value(written, k) \in Seq(ValueChars)
  BY HeaderParts
<1>2. PICK rest \in Texts : rest = <<"LF">> \o From(written, k + 1)
  BY HeaderParts
<1>3. /\ script \in Texts /\ script # <<>>
      /\ \/ c = "CR" /\ Tail(script) = rest /\ text["value"] = Value(written, k)
         \/ /\ c \in ValueChars
            /\ ReadIn(Append(text["value"], c), Tail(script), Value(written, k), <<"CR">> \o rest)
  <2>1. ReadIn(text["value"], script, Value(written, k), <<"CR">> \o rest)
    BY <1>2 DEF Reading, LineEnd
  <2> QED BY <1>1, <2>1, PartChars, NextChar
<1>4. c \in Chars
  BY <1>3, PartChars
<1>5. k \in 0..3 /\ k # 3 /\ k + 1 \in 0..3
  OBVIOUS
<1> HIDE DEF c
<1>6. CASE /\ c \in ValueChars
           /\ ReadIn(Append(text["value"], c), Tail(script), Value(written, k), <<"CR">> \o rest)
  <2>1. After(c) = "value"
    BY <1>6 DEF After, FirstLineStates, HeaderState, ValueChars, IsCtl
  <2>2. Clears(c) = {}
    BY <2>1 DEF Clears
  <2>3. ASSUME Taken
        PROVE  state' \notin FirstLineStates /\ HeadersInv'
    <3>1. /\ state' = "value" /\ text' = TextAfter(c) /\ script' = Tail(script)
          /\ UNCHANGED <<written, messageVars>>
      BY <2>1, <2>3 DEF Taken, c
    <3>2. /\ text'["value"] = Append(text["value"], c) /\ text'["name"] = Name(written, k)
          /\ \A t \in {"method", "uri", "version", "text"} : text'[t] = text[t]
      BY <1>4, <2>1, <2>2, <3>1, TextStep DEF Tokens
    <3>3. Reading("value", Value(written, k), LineEnd(From(written, k + 1)))'
      BY <1>2, <1>6, <3>1, <3>2 DEF Reading, LineEnd
    <3>4. StoredBefore(written, k)'
      BY <3>1, <3>2, StoredKept
    <3>5. InHeader(written, k)'
      BY <3>1, <3>2, <3>3 DEF InHeader
    <3> QED BY <1>5, <3>1, <3>4, <3>5 DEF HeadersAt, HeadersInv, FirstLineStates
  <2> QED BY <1>3, <2>1, <2>3 DEF c
<1>7. CASE c = "CR" /\ Tail(script) = rest /\ text["value"] = Value(written, k)
  <2>1. After(c) = "new_line"
    BY <1>7 DEF After, FirstLineStates, HeaderState, IsToken, IsCtl
  <2>2. Clears(c) = {}
    BY <2>1 DEF Clears
  <2>3. ASSUME Taken
        PROVE  state' \notin FirstLineStates /\ HeadersInv'
    <3>1. /\ state' = "new_line" /\ text' = TextAfter(c) /\ script' = Tail(script)
          /\ written' = written /\ StoreHeader
      BY <2>1, <2>3 DEF Taken, c
    <3>2. \A t \in {"method", "uri", "version", "text"} : text'[t] = text[t]
      BY <1>4, <2>1, <2>2, <3>1, TextStep DEF Tokens
    <3>3. StoredBefore(written, k + 1)'
      BY <1>7, <3>1, <3>2, HeaderStored
    <3>4. script' = <<"LF">> \o From(written, k + 1)'
      BY <1>2, <1>7, <3>1
    <3>5. HeadersAt(k + 1)'
      BY <3>1, <3>3, <3>4, Zenon DEF HeadersAt
    <3> QED BY <1>5, <3>1, <3>5 DEF HeadersInv, FirstLineStates
  <2> QED BY <1>3, <2>1, <2>3 DEF c
<1> QED BY <1>3, <1>6, <1>7

(* The empty line. *)
LEMMA EmptyLineStep ==
  ASSUME text \in [Tokens -> Texts], written \in Messages, StoredBefore(written, 3),
         \/ state = "line_start" /\ script = From(written, 3)
         \/ state = "last_line" /\ script = <<"LF">>
  PROVE  /\ script \in Texts /\ script # <<>> /\ After(Head(script)) # "fail"
         /\ Taken => IF state = "last_line"
                     THEN state' = "start" /\ script' = <<>> /\ StoredBefore(written, 3)'
                     ELSE state' \notin FirstLineStates /\ HeadersInv'
<1>1. PICK last \in Texts : last = <<"LF">> /\ last = <<"LF">> \o <<>>
  <2>1. <<"LF">> \in Texts
    BY PartChars DEF Texts
  <2>2. PICK last \in Texts : last = <<"LF">>
    BY <2>1
  <2>3. last \o <<>> = last
    BY ConcatEmptySeq DEF Texts
  <2> QED BY <2>2, <2>3
<1>2. CASE state = "line_start" /\ script = From(written, 3)
  <2>1. script = <<"CR">> \o last
    <3>1. From(written, 3) = Empty
      BY DEF From
    <3> QED BY <1>1, <1>2, <3>1, Zenon DEF Empty, LineEnd
  <2>2. script \in Texts /\ script # <<>> /\ Head(script) = "CR" /\ Tail(script) = last
    BY <2>1, PartChars, HeadOfConcat
  <2>3. After("CR") = "last_line" /\ "CR" \in Chars
    BY <1>2, PartChars DEF After, FirstLineStates, HeaderState, IsToken, IsCtl
  <2>4. Clears("CR") = {}
    BY <2>3 DEF Clears
  <2>5. ASSUME Taken
        PROVE  state' \notin FirstLineStates /\ HeadersInv'
    <3>1. /\ state' = "last_line" /\ text' = TextAfter("CR") /\ script' = last
          /\ UNCHANGED <<written, messageVars>>
      BY <1>2, <2>2, <2>3, <2>5 DEF Taken
    <3>2. \A t \in {"method", "uri", "version", "text"} : text'[t] = text[t]
      BY <2>3, <2>4, <3>1, TextStep DEF Tokens
    <3>3. StoredBefore(written, 3)'
      BY <3>1, <3>2, StoredKept
    <3>4. HeadersAt(3)'
      BY <1>1, <3>1, <3>3, Zenon DEF HeadersAt
    <3> QED BY <3>1, <3>4 DEF HeadersInv, FirstLineStates
  <2> QED BY <1>2, <2>2, <2>3, <2>5
<1>3. CASE state = "last_line" /\ script = <<"LF">>
  <2>1. script \in Texts /\ script # <<>> /\ Head(script) = "LF" /\ Tail(script) = <<>>
    BY <1>1, <1>3, PartChars, EmptyType, HeadOfConcat
  <2>2. After("LF") = "start" /\ "LF" \in Chars
    BY <1>3, PartChars DEF After, FirstLineStates, HeaderState, IsToken, IsCtl
  <2>3. Clears("LF") = {}
    BY <2>2 DEF Clears
  <2>4. ASSUME Taken
        PROVE  state' = "start" /\ script' = <<>> /\ StoredBefore(written, 3)'
    <3>1. /\ state' = "start" /\ text' = TextAfter("LF") /\ script' = <<>>
          /\ UNCHANGED <<written, messageVars>>
      BY <1>3, <2>1, <2>2, <2>4 DEF Taken
    <3>2. \A t \in {"method", "uri", "version", "text"} : text'[t] = text[t]
      BY <2>2, <2>3, <3>1, TextStep DEF Tokens
    <3> QED BY <3>1, <3>2, StoredKept
  <2> QED BY <1>3, <2>1, <2>2, <2>4
<1> QED BY <1>2, <1>3

(* Any character of a head. *)
LEMMA RequestLineStep ==
  ASSUME text \in [Tokens -> Texts], written \in Messages, written.kind = "request",
         reversed = FALSE, FirstLineInv
  PROVE  /\ script \in Texts /\ script # <<>> /\ After(Head(script)) # "fail"
         /\ Taken => IF state' \in FirstLineStates THEN FirstLineInv' ELSE HeadersInv'
<1>1. matched = 0 /\ contentLength = 0 /\ headers = {} /\ RequestLineInv
  BY DEF FirstLineInv, RequestLineInv
<1>2. CASE /\ state = "start"
           /\ text["method"] = <<>> /\ text["uri"] = <<>> /\ text["version"] = <<>>
           /\ script = Written(written)
  <2>1. written.method \in Seq(TokenChars) /\ Written(written) = written.method \o AfterMethod(written)
    BY Parts DEF Written
  <2>2. Reading("method", written.method, AfterMethod(written))
    BY <1>2, <2>1, ReadingBegins DEF Reading
  <2> QED BY <1>1, <1>2, <2>2, MethodStep
<1>3. CASE /\ state = "method"
           /\ text["uri"] = <<>> /\ text["version"] = <<>>
           /\ Reading("method", written.method, AfterMethod(written))
  BY <1>1, <1>3, MethodStep
<1>4. CASE /\ state = "uri"
           /\ text["method"] = written.method /\ text["version"] = <<>>
           /\ Reading("uri", written.uri, AfterUri(written))
  BY <1>1, <1>4, UriStep
<1>5. CASE /\ state = "version"
           /\ text["method"] = written.method /\ text["uri"] = written.uri
           /\ Reading("version", written.version, LineEnd(From(written, 0)))
  BY <1>1, <1>5, VersionStep
<1> QED BY <1>1, <1>2, <1>3, <1>4, <1>5 DEF RequestLineInv

(* The same for the line of a response. *)
LEMMA StatusLineStep ==
  ASSUME text \in [Tokens -> Texts], written \in Messages, written.kind = "response",
         reversed = TRUE, FirstLineInv
  PROVE  /\ script \in Texts /\ script # <<>> /\ After(Head(script)) # "fail"
         /\ Taken => IF state' \in FirstLineStates THEN FirstLineInv' ELSE HeadersInv'
<1>1. matched = 0 /\ contentType = <<>> /\ StatusLineInv
  BY DEF FirstLineInv, StatusLineInv
<1>2. CASE /\ state = "start"
           /\ text["version"] = <<>> /\ text["text"] = <<>>
           /\ script = Written(written)
  <2>1. /\ written.version \in Seq(LineChars \ {"SP"})
        /\ Written(written) = written.version \o AfterVersion(written)
    BY Parts DEF Written
  <2>2. Reading("version", written.version, AfterVersion(written))
    BY <1>2, <2>1, ReadingBegins DEF Reading
  <2> QED BY <1>1, <1>2, <2>2, StatusVersionStep
<1>3. CASE /\ state = "version"
           /\ text["text"] = <<>>
           /\ Reading("version", written.version, AfterVersion(written))
  BY <1>1, <1>3, StatusVersionStep
<1>4. CASE /\ state = "code"
           /\ text["version"] = written.version /\ text["text"] = <<>>
           /\ Reading("code", Unary(written.code), AfterCode(written))
  BY <1>1, <1>4, CodeStep
<1>5. CASE /\ state = "text"
           /\ text["version"] = written.version /\ statusCode = written.code
           /\ Reading("text", written.text, LineEnd(From(written, 0)))
  BY <1>1, <1>5, PhraseStep
<1> QED BY <1>1, <1>2, <1>3, <1>4, <1>5 DEF StatusLineInv

(* Any character after the first line. *)
LEMMA HeadersStep ==
  ASSUME text \in [Tokens -> Texts], written \in Messages, HeadersInv
  PROVE  /\ script \in Texts /\ script # <<>> /\ After(Head(script)) # "fail"
         /\ Taken => IF state = "last_line"
                     THEN state' = "start" /\ script' = <<>> /\ StoredBefore(written, 3)'
                     ELSE state' \notin FirstLineStates /\ HeadersInv'
<1>1. PICK k \in 0..3 : HeadersAt(k)
  BY DEF HeadersInv
<1>2. StoredBefore(written, k)
  BY <1>1 DEF HeadersAt
<1>3. CASE state = "new_line" /\ script = <<"LF">> \o From(written, k)
  BY <1>2, <1>3, BetweenLines
<1>4. CASE /\ state = "line_start" /\ text["name"] = <<>>
           /\ k # 3 => Present(written, k)
           /\ script = From(written, k)
  <2>1. CASE k = 3
    BY <1>2, <1>4, <2>1, EmptyLineStep
  <2>2. CASE k # 3
    <3>1. k \in 0..2
      BY <2>2
    <3>2. script = Line(Name(written, k), Value(written, k), From(written, k + 1))
      BY <1>4, <2>2, <3>1, FromUnfolds
    <3>3. Name(written, k) \in Seq(TokenChars)
      BY <3>1, HeaderParts
    <3>4. Reading("name", Name(written, k), AfterName(Value(written, k), From(written, k + 1)))
      BY <1>4, <3>2, <3>3, ReadingBegins DEF Reading, Line
    <3> QED BY <1>2, <1>4, <2>2, <3>1, <3>4, NameStep
  <2> QED BY <2>1, <2>2
<1>5. CASE state = "last_line" /\ k = 3 /\ script = <<"LF">>
  BY <1>2, <1>5, EmptyLineStep
<1>6. CASE k # 3 /\ InHeader(written, k)
  <2>1. k \in 0..2 /\ Present(written, k)
    BY <1>6 DEF InHeader
  <2>2. CASE /\ state = "name"
             /\ Reading("name", Name(written, k), AfterName(Value(written, k), From(written, k + 1)))
    BY <1>2, <2>1, <2>2, NameStep
  <2>3. CASE /\ state = "space"
             /\ text["name"] = Name(written, k) /\ text["value"] = <<>>
             /\ script = <<"SP">> \o (Value(written, k) \o LineEnd(From(written, k + 1)))
    BY <1>2, <2>1, <2>3, SpaceStep
  <2>4. CASE /\ state = "value"
             /\ text["name"] = Name(written, k)
             /\ Reading("value", Value(written, k), LineEnd(From(written, k + 1)))
    BY <1>2, <2>1, <2>4, ValueStep
  <2> QED BY <1>6, <2>2, <2>3, <2>4 DEF InHeader
<1> QED BY <1>1, <1>3, <1>4, <1>5, <1>6 DEF HeadersAt

(* A head that is being read goes on, and nothing in it is refused. *)
LEMMA HeadGoesOn ==
  ASSUME reversed \in BOOLEAN, Inv, HeadInv, noise = 0, at = "reading"
  PROVE  /\ script \in Texts /\ script # <<>> /\ After(Head(script)) # "fail"
         /\ Taken => \/ matched' # 4 /\ IF state' \in FirstLineStates THEN FirstLineInv' ELSE HeadersInv'
                     \/ matched' = 4 /\ state' = "start" /\ script' = <<>> /\ StoredBefore(written, 3)'
<1>1. /\ text \in [Tokens -> Texts] /\ written \in Messages /\ InStep
      /\ written.kind = IF reversed THEN "response" ELSE "request"
      /\ IF state \in FirstLineStates THEN FirstLineInv ELSE HeadersInv
  BY DEF HeadInv, Inv
<1>2. CASE state \in FirstLineStates
  <2>1. matched = 0
    BY <1>1, <1>2 DEF FirstLineInv
  <2>2. MatchedAfter(Head(script)) # 4
    BY <2>1 DEF MatchedAfter
  <2>3. /\ script \in Texts /\ script # <<>> /\ After(Head(script)) # "fail"
        /\ Taken => IF state' \in FirstLineStates THEN FirstLineInv' ELSE HeadersInv'
    <3>1. CASE reversed = TRUE
      BY <1>1, <1>2, <3>1, StatusLineStep
    <3>2. CASE reversed = FALSE
      BY <1>1, <1>2, <3>2, RequestLineStep
    <3> QED BY <3>1, <3>2
  <2> QED BY <2>2, <2>3 DEF Taken
<1>3. CASE state \notin FirstLineStates
  <2>1. /\ script \in Texts /\ script # <<>> /\ After(Head(script)) # "fail"
        /\ Taken => IF state = "last_line"
                    THEN state' = "start" /\ script' = <<>> /\ StoredBefore(written, 3)'
                    ELSE state' \notin FirstLineStates /\ HeadersInv'
    BY <1>1, <1>3, HeadersStep
  <2>2. MatchedAfter(Head(script)) = 4 <=> state = "last_line"
    BY <1>1, <1>3, <2>1, HeaderStep
  <2> QED BY <2>1, <2>2 DEF Taken
<1> QED BY <1>2, <1>3

(* The invariant is kept when the parser accepts a character ... *)
LEMMA HeadInvConsume ==
  ASSUME reversed \in BOOLEAN, Inv, HeadInv, noise = 0, Consume
  PROVE  HeadInv'
<1>1. at = "reading" /\ Taken /\ noise' = 0 /\ at' = IF matched' = 4 THEN "parsed" ELSE "reading"
  BY DEF Consume, Taken
<1>2. /\ script \in Texts /\ script # <<>>
      /\ \/ matched' # 4 /\ IF state' \in FirstLineStates THEN FirstLineInv' ELSE HeadersInv'
         \/ matched' = 4 /\ state' = "start" /\ script' = <<>> /\ StoredBefore(written, 3)'
  BY <1>1, HeadGoesOn
<1>3. text' \in [Tokens -> Texts]
  <2>1. Head(script) \in Chars
    BY <1>2, HeadTailProperties DEF Texts
  <2>2. text \in [Tokens -> Texts] /\ text' = TextAfter(Head(script))
    BY <1>1 DEF HeadInv, Taken
  <2> QED BY <2>1, <2>2, TextStep
<1>4. written' \in Messages /\ written'.kind = IF reversed' THEN "response" ELSE "request"
  BY <1>1 DEF HeadInv, Taken
<1> QED BY <1>1, <1>2, <1>3, <1>4 DEF HeadInv

(* ... when it begins with a head ... *)
LEMMA HeadInvBegin ==
  ASSUME Inv, HeadInv, noise = 0, Begin
  PROVE  HeadInv'
<1>1. /\ at \in {"idle", "parsed"} /\ script # <<>> /\ at' = "reading" /\ matched' = 0
      /\ IF reversed THEN ParseResponse ELSE ParseRequest
      /\ UNCHANGED <<reversed, script, written, noise, state>>
  BY DEF Begin, senderVars
<1>2. /\ text \in [Tokens -> Texts] /\ script = Written(written) /\ state = "start"
      /\ written \in Messages /\ written.kind = IF reversed THEN "response" ELSE "request"
  BY <1>1 DEF HeadInv, Inv
<1>3. <<>> \in Texts
  BY EmptyType
<1>4. CASE reversed
  <2>1. /\ text' = [text EXCEPT !["version"] = <<>>, !["text"] = <<>>]
        /\ contentType' = <<>>
    BY <1>1, <1>4 DEF ParseResponse
  <2>2. text' \in [Tokens -> Texts] /\ text'["version"] = <<>> /\ text'["text"] = <<>>
    BY <1>2, <1>3, <2>1 DEF Tokens
  <2>3. FirstLineInv'
    BY <1>1, <1>2, <1>4, <2>1, <2>2 DEF FirstLineInv, StatusLineInv
  <2> QED BY <1>1, <1>2, <2>2, <2>3 DEF HeadInv, FirstLineStates
<1>5. CASE ~reversed
  <2>1. /\ text' = [text EXCEPT !["method"] = <<>>, !["uri"] = <<>>, !["version"] = <<>>]
        /\ headers' = {} /\ contentLength' = 0
    BY <1>1, <1>5 DEF ParseRequest
  <2>2. /\ text' \in [Tokens -> Texts]
        /\ text'["method"] = <<>> /\ text'["uri"] = <<>> /\ text'["version"] = <<>>
    BY <1>2, <1>3, <2>1 DEF Tokens
  <2>3. FirstLineInv'
    BY <1>1, <1>2, <1>5, <2>1, <2>2 DEF FirstLineInv, RequestLineInv
  <2> QED BY <1>1, <1>2, <2>2, <2>3 DEF HeadInv, FirstLineStates
<1> QED BY <1>4, <1>5

(* ... and when a head is written. *)
LEMMA HeadInvWrite ==
  ASSUME reversed \in BOOLEAN, Inv, HeadInv, noise = 0, Write
  PROVE  HeadInv'
<1>1. /\ script = <<>> /\ written' \in Messages
      /\ written'.kind = IF reversed THEN "response" ELSE "request"
      /\ script' = IF reversed THEN SerializeResponse(written') ELSE SerializeRequest(written')
      /\ UNCHANGED <<at, reversed, noise, state, text>>
  BY DEF Write, parserVars
<1>2. at # "reading"
  BY <1>1, HeadGoesOn
<1>3. script' = Written(written') /\ script' # <<>>
  BY <1>1, HeadWritten
<1>4. script' = Written(written)'
  BY <1>3 DEF Written, AfterMethod, AfterUri, AfterVersion, AfterCode
<1> QED BY <1>1, <1>2, <1>3, <1>4 DEF HeadInv

(* The types that the cases are made of. *)
LEMMA SmallTypesNext == SmallTypes /\ [HeadsNext]_headsVars => SmallTypes'
<1> SUFFICES ASSUME SmallTypes, [HeadsNext]_headsVars
             PROVE  SmallTypes'
  OBVIOUS
<1>1. noise' \in Nat
  BY DEF SmallTypes, HeadsNext, Write, WriteForeign, Distort, Begin, Reverse, Consume, Refuse, headsVars, senderVars
<1>2. reversed' = TRUE \/ reversed' = reversed
  BY Zenon DEF HeadsNext, Write, WriteForeign, Distort, Begin, Reverse, Consume, Refuse, headsVars
<1> QED BY <1>1, <1>2 DEF SmallTypes

(* Every step keeps the invariant. *)
LEMMA HeadInvNext ==
  ASSUME SmallTypes, Inv, HeadInv, [HeadsNext]_headsVars
  PROVE  HeadInv'
<1>1. noise \in Nat /\ noise' \in Nat /\ reversed \in BOOLEAN
  BY SmallTypesNext DEF SmallTypes
<1>2. CASE noise # 0
  <2>1. noise' # 0
    BY <1>1, <1>2 DEF HeadsNext, Write, WriteForeign, Distort, Begin, Reverse, Consume, Refuse, headsVars, senderVars
  <2> QED BY <1>1, <2>1 DEF HeadInv
<1>3. CASE noise = 0
  <2>1. CASE Write
    BY <1>1, <1>3, <2>1, HeadInvWrite
  <2>2. CASE WriteForeign \/ Distort
    <3>1. noise' # 0
      BY <1>1, <1>3, <2>2 DEF WriteForeign, Distort
    <3> QED BY <1>1, <3>1 DEF HeadInv
  <2>3. CASE Begin
    BY <1>1, <1>3, <2>3, HeadInvBegin
  <2>4. CASE Reverse
    <3>1. /\ at = "parsed" /\ script = <<>>
          /\ UNCHANGED <<at, script, written, noise, state, text, messageVars>>
      BY <2>4 DEF Reverse, senderVars, parserVars
    <3>2. StoredBefore(written, 3)
      BY <1>3, <3>1 DEF HeadInv
    <3>3. StoredBefore(written, 3)'
      BY <3>1, <3>2, StoredKept
    <3> QED BY <1>1, <1>3, <3>1, <3>3 DEF HeadInv
  <2>5. CASE Consume
    BY <1>1, <1>3, <2>5, HeadInvConsume
  <2>6. CASE Refuse
    <3>1. at = "reading" /\ After(Head(script)) = "fail"
      BY <1>3, <2>6 DEF Refuse, HeadInv
    <3> QED BY <1>1, <1>3, <3>1, HeadGoesOn
  <2>7. CASE UNCHANGED headsVars
    <3>1. UNCHANGED <<at, reversed, matched, script, written, noise, state, text, headers, statusCode,
                      contentLength, contentType>>
      BY <2>7 DEF headsVars, senderVars, parserVars, messageVars
    <3>2. FirstLineInv' <=> FirstLineInv
      BY <3>1 DEF FirstLineInv, RequestLineInv, StatusLineInv, Reading
    <3>3. \A m, k : StoredBefore(m, k)' <=> StoredBefore(m, k)
      BY <3>1 DEF StoredBefore, FirstLineRead
    <3>4. \A m, k : InHeader(m, k)' <=> InHeader(m, k)
      BY <3>1 DEF InHeader, Reading
    <3>5. HeadersInv' <=> HeadersInv
      BY <3>1, <3>3, <3>4 DEF HeadersInv, HeadersAt
    <3> QED BY <3>1, <3>2, <3>3, <3>5 DEF HeadInv
  <2> QED BY <2>1, <2>2, <2>3, <2>4, <2>5, <2>6, <2>7 DEF HeadsNext
<1> QED BY <1>1, <1>2, <1>3

(* At the end of a head everything of it has been stored. *)
LEMMA HeadIsRead == HeadInv => ReadAsWritten
<1> SUFFICES ASSUME HeadInv, noise = 0
             PROVE  /\ at \notin {"refused", "failed"}
                    /\ at = "parsed" /\ script = <<>> =>
                         /\ text["version"] = written.version
                         /\ contentLength = written.length
                         /\ written.type # <<>> => contentType = written.type
                         /\ state = "start"
                         /\ IF written.kind = "response" THEN ResponseRead ELSE RequestRead
  BY DEF ReadAsWritten
<1>1. at \in {"idle", "parsed", "reading"}
  BY DEF HeadInv
<1>2. ASSUME at = "parsed", script = <<>>
      PROVE  /\ text["version"] = written.version
             /\ contentLength = written.length
             /\ written.type # <<>> => contentType = written.type
             /\ state = "start"
             /\ IF written.kind = "response" THEN ResponseRead ELSE RequestRead
  <2>1. written \in Messages /\ StoredBefore(written, 3) /\ state = "start"
    BY <1>2 DEF HeadInv
  <2>2. written.kind \in {"request", "response"}
    BY <2>1, Parts
  <2>3. HeadersBefore(written, 3) = HeadersOf(written)
    <3>1. HeadersBefore(written, 1)
            = IF Present(written, 0) THEN {<<Name(written, 0), Value(written, 0)>>} ELSE {}
      BY HeadersGrow, NoHeaderYet
    <3>2. HeadersBefore(written, 2)
            = HeadersBefore(written, 1) \cup {<<Name(written, 1), Value(written, 1)>>}
      BY HeadersGrow DEF Present
    <3>3. HeadersBefore(written, 3)
            = HeadersBefore(written, 2)
                \cup (IF Present(written, 2) THEN {<<Name(written, 2), Value(written, 2)>>} ELSE {})
      BY HeadersGrow
    <3> QED BY <3>1, <3>2, <3>3 DEF HeadersOf, Present, Name, Value
  <2>4. FirstLineRead(written) /\ contentLength = written.length
        /\ (written.type # <<>> => contentType = written.type)
        /\ (written.kind = "response" => contentType = written.type)
        /\ IF written.kind = "request" THEN headers = HeadersOf(written)
                                       ELSE HeadersOf(written) \subseteq headers
    BY <2>1, <2>3 DEF StoredBefore
  <2> QED BY <2>1, <2>2, <2>4 DEF FirstLineRead, ResponseRead, RequestRead
<1> QED BY <1>1, <1>2

(* For every well-formed message of any length: a head that arrives as it was
   written is accepted, and what the parser stores of it is what was written
   (ReadAsWritten names the two things that may be left of a message before). *)
THEOREM MessagesAreReadAsWritten == HeadsSpec => []ReadAsWritten
<1>1. HeadsInit => SmallTypes /\ Inv /\ HeadInv
  <2> SUFFICES ASSUME HeadsInit PROVE SmallTypes /\ Inv /\ HeadInv
    OBVIOUS
  <2>1. /\ at = "idle" /\ script = <<>> /\ noise = 0 /\ reversed = FALSE /\ state = "start"
        /\ text = [t \in Tokens |-> <<>>]
    BY DEF HeadsInit
  <2>2. text \in [Tokens -> Texts]
    BY <2>1, EmptyType
  <2> QED BY <2>1, <2>2 DEF SmallTypes, Inv, HeadInv
<1>2. SmallTypes /\ Inv /\ HeadInv /\ [HeadsNext]_headsVars => (SmallTypes /\ Inv /\ HeadInv)'
  BY SmallTypesNext, HeadInvNext, InvInductive
<1> QED BY <1>1, <1>2, HeadIsRead, PTL DEF HeadsSpec
=============================================================================
