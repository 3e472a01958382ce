--------------------------- MODULE MCWireFormats ---------------------------
(***************************************************************************)
(* The two formats in which the receiver and its senders write to each     *)
(* other: heads of messages (XtxpParser) and property lists (PlistCodec),  *)
(* which share no state.  Each behaviour is one of either.                 *)
(*                                                                         *)
(* Messages are with and without a content, a content type and another     *)
(* header, with blanks, colons, separators and characters that are not     *)
(* ASCII where a value may hold them.  Objects are of every type, their    *)
(* numbers, lengths and sizes those where the format changes, nested       *)
(* twice, and the answer of /info.                                         *)
(***************************************************************************)
EXTENDS XtxpParser, PlistCodec

CONSTANTS
  IntValues,    \* numbers to write, of either sign
  TextLengths,  \* lengths of strings and data
  Sizes         \* sizes of arrays and dictionaries

VARIABLE wire  \* "head" or "list"

-----------------------------------------------------------------------------
Request(method, uri, header, value, length, type) ==
  [kind |-> "request", method |-> method, uri |-> uri, version |-> <<"a", "/">>,
   code |-> 0, text |-> <<>>, header |-> header, value |-> value, length |-> length, type |-> type]

Response(code, phrase, header, value, length, type) ==
  [kind |-> "response", method |-> <<>>, uri |-> <<>>, version |-> <<"a", "/">>,
   code |-> code, text |-> phrase, header |-> header, value |-> value, length |-> length,
   type |-> type]

MCMessages ==
  {Request(<<"a">>, <<"/">>, <<>>, <<>>, 0, <<>>),
   Request(<<"L">>, <<"/">>, <<"T", "L">>, <<"high", ":">>, 2, <<"T", "/">>),
   Response(1, <<"a">>, <<>>, <<>>, 0, <<>>),
   Response(2, <<"a", "SP", "a">>, <<"a">>, <<>>, 1, <<"a">>)}

(* A status line without blanks, a head without headers, and empty lines. *)
MCForeign ==
  {<<"a", "CR", "LF", "CR", "LF">>,
   <<"a", "SP", "/", "SP", "a", "CR", "LF", "CR", "LF">>,
   <<"CR", "LF", "CR", "LF">>}

-----------------------------------------------------------------------------
SomeReal == Real(<<63, 243, 192, 202, 42, 91, 29, 93>>)

Leaves ==
  {Null, Primitive(TrueCode), Primitive(FalseCode), SomeReal}
    \cup {Integer(n) : n \in IntValues \cup {-m : m \in IntValues}}
    \cup {Text(t, [i \in 1..n |-> 32 + (i % 95)]) : t \in {"data", "string"}, n \in TextLengths}

(* One long key that begins with what is another key. *)
Key(i) == IF i = 1 THEN [j \in 1..16 |-> 2] ELSE <<i>>

(* An object among n others that differ from it: at the start or at the end. *)
Among(o, n, i) == [j \in 1..n |-> IF j = i THEN o ELSE Integer(j)]

Around(os) ==
  UNION {{Array(Among(o, n, i)), Dict([j \in 1..n |-> Key(j)], Among(o, n, i))} :
           o \in os, n \in Sizes, i \in {1, 15}}

(* What an object leads to, and how deep it is nested. *)
RECURSIVE Within(_), Depth(_)
Within(o) == LET kids == Children(o) IN {o} \cup UNION {Within(kids[j]) : j \in DOMAIN kids}
Depth(o) ==
  LET kids  == Children(o)
      below == {Depth(kids[j]) : j \in DOMAIN kids}
  IN IF below = {} THEN 0 ELSE 1 + CHOOSE d \in below : \A e \in below : e <= d

(* What the rest is made of: the values and the keys that are put around. *)
Filling ==
  {Integer(j) : j \in 1..127} \cup {Text("string", Key(j)) : j \in 1..127}

MCObjects ==
  LET infos == {Info([DefaultConfig EXCEPT !.name = Word(1, n)]) : n \in TextLengths}
  IN Leaves \cup Filling \cup Around(Leaves)
       \cup Around(Around({Null, Integer(256), SomeReal}))
       \cup UNION {Within(o) : o \in infos}

MCNesting == [o \in MCObjects |-> Depth(o)]

-----------------------------------------------------------------------------
(* What is not written in this behaviour is one and the same object or message. *)
MCInit ==
  /\ HeadsInit
  /\ Init
  /\ \/ wire = "head" /\ object = SomeReal
     \/ wire = "list" /\ written = CHOOSE m \in Messages : TRUE

MCNext ==
  \/ wire = "head" /\ HeadsNext /\ UNCHANGED <<wire, vars>>
  \/ wire = "list" /\ Next /\ UNCHANGED <<wire, headsVars>>

MCSpec == MCInit /\ [][MCNext]_<<wire, vars, headsVars>>
=============================================================================
