----------------------------- MODULE XtxpParser -----------------------------
(***************************************************************************)
(* The heads of messages: how network/xtxp_message writes them, and the    *)
(* state machine by which it reads them.                                   *)
(*                                                                         *)
(* A head is cut from the stream by asio::async_read_until at the first    *)
(* empty line, without regard to its syntax, and given to the parser,      *)
(* which has its own idea of where a head ends.  One parser object serves  *)
(* all messages of a connection, first requests and, once the connection   *)
(* is reversed, responses.                                                 *)
(*                                                                         *)
(* A character stands for the class that the parser puts it in; "L" and    *)
(* "T" as names of a header are Content-Length and Content-Type.  Numbers  *)
(* are written in unary: 0 is the empty text, 2 is the text "11".          *)
(***************************************************************************)
EXTENDS Integers, Sequences

CONSTANTS
  Messages,  \* the messages that are written
  Foreign,   \* heads that senders write in another way
  MaxHeads,  \* bound: heads on a connection
  MaxNoise   \* bound: characters and heads that are not as they should be

Letters == {"a", "L", "T"}
Chars   == Letters \cup {"1", "CR", "LF", "SP", ":", "/", "TAB", "high"}
Texts   == Seq(Chars)
Unary(n) == [i \in 1..n |-> "1"]

ContentLength == <<"L">>
ContentType   == <<"T">>

MessageType ==
  [kind : {"request", "response"}, method : Texts, uri : Texts, version : Texts,
   code : Nat, text : Texts, header : Texts, value : Texts, length : Nat, type : Texts]

ASSUME ConstantsAssumption ==
  /\ Messages \subseteq MessageType
  /\ Messages # {}
  /\ Foreign \subseteq Texts
  /\ MaxHeads \in Nat
  /\ MaxNoise \in Nat

VARIABLES
  at,             \* "idle" before the first head; "reading"; "refused": the parser
                  \* has refused it; "parsed"; "failed": it is refused and
                  \* complete, and the connection is stopped
  reversed,       \* is_reversed_
  script,         \* what the sender has written and has not been read
  written,        \* the message that it wrote last (history variable)
  heads,          \* heads written so far
  noise,          \* characters lost or inserted so far
  matched,        \* how much of an empty line async_read_until has found
  state,          \* state_, without its prefix "token_"
  ends,           \* how often the parser found the end of the head
  text,           \* the texts of the message (request_, then response_), and
                  \* code_, name_ and value_
  headers,        \* headers, as a set of pairs
  statusCode,     \* status_code
  contentLength,  \* content_length
  contentType     \* content_type

senderVars  == <<script, written, heads, noise>>
messageVars == <<headers, statusCode, contentLength, contentType>>
parserVars  == <<state, ends, text>>
headsVars == <<at, reversed, matched, senderVars, parserVars, messageVars>>

Tokens == {"method", "uri", "version", "code", "text", "name", "value"}

HeadsInit ==
  /\ at = "idle"
  /\ reversed = FALSE
  /\ script = <<>>
  /\ written \in Messages
  /\ heads = 0
  /\ noise = 0
  /\ matched = 0
  /\ state = "start"
  /\ ends = 0
  /\ text = [t \in Tokens |-> <<>>]
  /\ headers = {}
  /\ statusCode = 200
  /\ contentLength = 0
  /\ contentType = <<>>

-----------------------------------------------------------------------------
(* Writing. *)

HeaderLine(name, value) == name \o <<":", "SP">> \o value \o <<"CR", "LF">>

(* xtxp_message::serialize, with one header beside those of the content. *)
SerializeHeaders(m) ==
  (IF m.header = <<>> THEN <<>> ELSE HeaderLine(m.header, m.value))
    \o HeaderLine(ContentLength, Unary(m.length))
    \o (IF m.type = <<>> THEN <<>> ELSE HeaderLine(ContentType, m.type))
    \o <<"CR", "LF">>

(* request::serialize, response::serialize. *)
SerializeRequest(m) ==
  m.method \o <<"SP">> \o m.uri \o <<"SP">> \o m.version \o <<"CR", "LF">> \o SerializeHeaders(m)

SerializeResponse(m) ==
  m.version \o <<"SP">> \o Unary(m.code) \o <<"SP">> \o m.text \o <<"CR", "LF">>
    \o SerializeHeaders(m)

(* The classes of characters; a control character such as TAB is not printed,
   and "high" is not in ASCII. *)
IsChar(c)  == c # "high"
IsCtl(c)   == c \in {"CR", "LF", "TAB"}
IsToken(c) == IsChar(c) /\ ~IsCtl(c) /\ c \notin {"SP", ":", "/"}
IsDigit(c) == c = "1"

TokenChars == {c \in Chars : IsToken(c)}
ValueChars == {c \in Chars : ~IsCtl(c)}
LineChars  == {c \in Chars : IsChar(c) /\ c # "CR"}
UriChars   == {c \in LineChars : ~IsCtl(c) /\ c # "SP"}

(* serialize writes whatever a message holds.  What the program and the senders
   put in one keeps to the separators, and the header beside those of the content
   is another one. *)
WellFormed(m) ==
  /\ m.kind = "request"  => /\ m.method \in Seq(TokenChars) \ {<<>>}
                            /\ m.uri \in Seq(UriChars)
                            /\ m.version \in Seq(LineChars)
  /\ m.kind = "response" => /\ m.version \in Seq(LineChars \ {"SP"}) \ {<<>>}
                            /\ Head(m.version) \in TokenChars
                            /\ m.text \in Seq(LineChars)
  /\ m.header \in Seq(TokenChars) \ {ContentLength, ContentType}
  /\ m.value \in Seq(ValueChars)
  /\ m.type \in Seq(ValueChars)

ASSUME WellFormedAssumption == \A m \in Messages : WellFormed(m)

-----------------------------------------------------------------------------
(* Wrong: the headers of the request before are kept. *)
ParseRequestKeepingHeaders ==
  /\ text' = [text EXCEPT !["method"] = <<>>, !["uri"] = <<>>, !["version"] = <<>>]
  /\ contentLength' = 0
  /\ UNCHANGED <<headers, statusCode, contentType>>

(* parse(request): a message begins.  content_type is not cleared. *)
ParseRequest ==
  /\ text' = [text EXCEPT !["method"] = <<>>, !["uri"] = <<>>, !["version"] = <<>>]
  /\ headers' = {}
  /\ contentLength' = 0
  /\ UNCHANGED <<statusCode, contentType>>

(* parse(response): the headers are not cleared. *)
ParseResponse ==
  /\ text' = [text EXCEPT !["version"] = <<>>, !["text"] = <<>>]
  /\ statusCode' = 200
  /\ contentLength' = 0
  /\ contentType' = <<>>
  /\ UNCHANGED headers

(* A head is written; without noise the one before has been read. *)
Write ==
  /\ script = <<>>
  /\ heads < MaxHeads
  /\ heads' = heads + 1
  /\ written' \in Messages
  /\ written'.kind = IF reversed THEN "response" ELSE "request"
  /\ script' = IF reversed THEN SerializeResponse(written') ELSE SerializeRequest(written')
  /\ UNCHANGED <<at, reversed, matched, noise, parserVars, messageVars>>

WriteForeign ==
  /\ script = <<>>
  /\ heads < MaxHeads
  /\ noise < MaxNoise
  /\ heads' = heads + 1
  /\ noise' = noise + 1
  /\ script' \in Foreign
  /\ UNCHANGED <<at, reversed, matched, written, parserVars, messageVars>>

(* What arrives is not what xtxp_message would have written: a character is
   missing or another. *)
Distort ==
  /\ noise < MaxNoise
  /\ at = "reading"
  /\ noise' = noise + 1
  /\ script # <<>>
  /\ script' \in {Tail(script)} \cup {<<c>> \o Tail(script) : c \in Chars}
  /\ UNCHANGED <<at, reversed, matched, written, heads, parserVars, messageVars>>

(* The next head is read. *)
Begin ==
  /\ at \in {"idle", "parsed"}
  /\ script # <<>>
  /\ at' = "reading"
  /\ matched' = 0
  /\ ends' = 0
  /\ IF reversed THEN ParseResponse ELSE ParseRequest
  /\ UNCHANGED <<reversed, senderVars, state>>

(* POST /reverse has been processed. *)
Reverse ==
  /\ at = "parsed"
  /\ script = <<>>
  /\ ~reversed
  /\ reversed' = TRUE
  /\ UNCHANGED <<at, matched, senderVars, parserVars, messageVars>>

-----------------------------------------------------------------------------
(* Wrong: a carriage return is a character of the version. *)
RequestLineToTheEnd(c) ==
  CASE state \in {"start", "method"} /\ IsToken(c)         -> "method"
    [] state = "method" /\ c = "SP"                        -> "uri"
    [] state = "uri" /\ c = "SP"                           -> "version"
    [] state = "uri" /\ c # "SP" /\ IsChar(c) /\ ~IsCtl(c) -> "uri"
    [] state = "version" /\ IsChar(c)                      -> "version"
    [] OTHER                                               -> "fail"

(* The state that follows on character c, "fail" if c is refused. *)

RequestLine(c) ==
  CASE state \in {"start", "method"} /\ IsToken(c)         -> "method"
    [] state = "method" /\ c = "SP"                        -> "uri"
    [] state = "uri" /\ c = "SP"                           -> "version"
    [] state = "uri" /\ c # "SP" /\ IsChar(c) /\ ~IsCtl(c) -> "uri"
    [] state = "version" /\ c = "CR"                       -> "new_line"
    [] state = "version" /\ c # "CR" /\ IsChar(c)          -> "version"
    [] OTHER                                               -> "fail"

StatusLine(c) ==
  CASE state = "start" /\ IsToken(c)                -> "version"
    [] state = "version" /\ c = "SP"                -> "code"
    [] state = "version" /\ c # "SP" /\ IsChar(c)   -> "version"
    [] state = "code" /\ c = "SP"                   -> "text"
    [] state = "code" /\ IsDigit(c)                 -> "code"
    [] state = "text" /\ c = "CR"                   -> "new_line"
    [] state = "text" /\ c # "CR" /\ IsChar(c)      -> "text"
    [] OTHER                                        -> "fail"

HeaderState(c) ==
  CASE state = "new_line" /\ c = "LF"               -> "line_start"
    [] state = "line_start" /\ c = "CR"             -> "last_line"
    [] state \in {"line_start", "name"} /\ IsToken(c) -> "name"
    [] state = "name" /\ c = ":"                    -> "space"
    [] state = "space" /\ c = "SP"                  -> "value"
    [] state = "value" /\ c = "CR"                  -> "new_line"
    [] state = "value" /\ ~IsCtl(c)                 -> "value"
    [] state = "last_line" /\ c = "LF"              -> "start"
    [] OTHER                                        -> "fail"

FirstLineStates == {"start", "method", "uri", "version", "code", "text"}

After(c) ==
  IF state \notin FirstLineStates THEN HeaderState(c)
  ELSE IF reversed THEN StatusLine(c) ELSE RequestLine(c)

(* A character goes to the token in which it leaves the parser, unless it is
   the separator that leads there. *)
Takes(t, c) == After(c) = t /\ state \in {t, "start", "line_start"}

(* code_, name_ and value_ are cleared before their first character. *)
Clears(c) ==
  CASE After(c) = "line_start"                   -> {"name"}
    [] After(c) = "space"                        -> {"value"}
    [] After(c) = "code" /\ state = "version"    -> {"code"}
    [] OTHER                                     -> {}

TextAfter(c) ==
  [t \in Tokens |-> IF t \in Clears(c) THEN <<>>
                    ELSE IF Takes(t, c) THEN Append(text[t], c) ELSE text[t]]

(* strtol: blanks, then digits, then anything. *)
Leading(t, c) == CHOOSE n \in 0..Len(t) :
  /\ \A i \in 1..n : t[i] = c
  /\ n = Len(t) \/ t[n + 1] # c

Number(t) == Leading(SubSeq(t, Leading(t, "SP") + 1, Len(t)), "1")

(* The end of a header's value: the header is stored. *)
StoreHeader ==
  /\ headers' = {h \in headers : h[1] # text["name"]} \cup {<<text["name"], text["value"]>>}
  /\ contentLength' = IF text["name"] = ContentLength THEN Number(text["value"]) ELSE contentLength
  /\ contentType' = IF text["name"] = ContentType THEN text["value"] ELSE contentType
  /\ UNCHANGED statusCode

(* The end of the status code. *)
StoreStatus ==
  /\ statusCode' = Number(text["code"])
  /\ UNCHANGED <<headers, contentLength, contentType>>

(* async_read_until looks for an empty line: its progress on character c. *)
MatchedAfter(c) ==
  CASE c = "CR" -> IF matched = 2 THEN 3 ELSE 1
    [] c = "LF" /\ matched \in {1, 3} -> matched + 1
    [] OTHER -> 0

(* consume: the parser accepts the next character.  At the end of a head it is
   ready for another one. *)
Consume ==
  /\ at = "reading"
  /\ script # <<>>
  /\ LET c == Head(script) IN
       /\ After(c) # "fail"
       /\ state' = After(c)
       /\ ends' = IF state = "last_line" THEN ends + 1 ELSE ends
       /\ text' = TextAfter(c)
       /\ CASE state = "value" /\ After(c) = "new_line" -> StoreHeader
            [] state = "code" /\ After(c) = "text"      -> StoreStatus
            [] OTHER                                    -> UNCHANGED messageVars
       /\ matched' = MatchedAfter(c)
  /\ at' = IF matched' = 4 THEN "parsed" ELSE "reading"
  /\ script' = Tail(script)
  /\ UNCHANGED <<reversed, written, heads, noise>>

(* ... or refuses it: what is left of the head does not matter. *)
Refuse ==
  /\ \/ at = "refused"
     \/ at = "reading" /\ script # <<>> /\ After(Head(script)) = "fail"
  /\ script # <<>>
  /\ matched' = MatchedAfter(Head(script))
  /\ at' = IF matched' = 4 THEN "failed" ELSE "refused"
  /\ script' = Tail(script)
  /\ state' = "start"
  /\ UNCHANGED <<reversed, written, heads, noise, ends, text, messageVars>>

HeadsNext == Write \/ WriteForeign \/ Distort \/ Begin \/ Reverse \/ Consume \/ Refuse

HeadsSpec == HeadsInit /\ [][HeadsNext]_headsVars

-----------------------------------------------------------------------------
(* The two ideas of where a head ends agree, whatever the sender writes: the
   parser never finds an end before async_read_until does, and when that has
   found one and the parser has refused nothing, it has found the end too and
   is ready for the next message.  The exception is a response whose status
   line has no blank: the parser accepts the end of the head as part of the
   version, and is left there. *)
HeadsEndTogether ==
  /\ at = "reading" => ends = 0
  /\ at = "parsed" => \/ ends = 1 /\ state = "start"
                      \/ reversed /\ ends = 0 /\ state = "version"

HeadersOf(m) ==
  {<<ContentLength, Unary(m.length)>>}
    \cup (IF m.header = <<>> THEN {} ELSE {<<m.header, m.value>>})
    \cup (IF m.type = <<>> THEN {} ELSE {<<ContentType, m.type>>})

RequestRead ==
  /\ text["method"] = written.method
  /\ text["uri"] = written.uri
  /\ headers = HeadersOf(written)

ResponseRead ==
  /\ statusCode = written.code
  /\ text["text"] = written.text
  /\ HeadersOf(written) \subseteq headers
  /\ contentType = written.type

(* A head that arrives as it was written is accepted, and its parts are those
   of the message that was written last, with nothing left of the messages
   before (but a request without a content type keeps that of an earlier one,
   and a response the headers). *)
ReadAsWritten ==
  noise = 0 =>
    /\ at \notin {"refused", "failed"}
    /\ at = "parsed" /\ script = <<>> =>
         /\ text["version"] = written.version
         /\ contentLength = written.length
         /\ written.type # <<>> => contentType = written.type
         /\ state = "start"
         /\ IF written.kind = "response" THEN ResponseRead ELSE RequestRead
=============================================================================
