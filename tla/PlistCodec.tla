----------------------------- MODULE PlistCodec -----------------------------
(***************************************************************************)
(* utils/plist.cpp: binary property lists, in which senders describe the   *)
(* streams to set up and the videos to play, and the receiver itself.      *)
(*                                                                         *)
(* An object of any set of them is written by plist_object_to_bplist and   *)
(* read by plist_object_from_bplist.                                       *)
(*                                                                         *)
(* Numbers and limits are those of the code.  A byte of the list is a      *)
(* record: the byte that starts an object holds its type (the upper four   *)
(* bits) and a number (the lower four), any other byte is of type "byte".  *)
(* A character is a number; a real is the sequence of its eight bytes,     *)
(* from the sign downwards.                                                *)
(*                                                                         *)
(* Dictionaries have at most 127 entries (the largest that the program     *)
(* builds has 15): from 128 to 255 bplist_analyze allows two bytes for the *)
(* length of which bplist_serialize_object writes one.                     *)
(*                                                                         *)
(* What the code does by recursion is a recursive function here, so that   *)
(* it can be reasoned about.                                               *)
(***************************************************************************)
EXTENDS Integers, Sequences

CONSTANTS
  Nesting,    \* the objects that may be written, with how deep each is nested
  MaxLength   \* bound: the length of a list, a uint32_t where it is read

(* The objects that may be written, with all that they lead to. *)
Objects == DOMAIN Nesting

-----------------------------------------------------------------------------
(* plist_object_t.  Null is the null pointer. *)
Null          == [type |-> "null"]
Primitive(c)  == [type |-> "primitive", code |-> c]
Integer(n)    == [type |-> "integer", int |-> n]
Real(r)       == [type |-> "real", order |-> r]
Text(t, cs)   == [type |-> t, chars |-> cs]
Array(vs)     == [type |-> "array", values |-> vs]
Dict(ks, vs)  == [type |-> "dict", keys |-> ks, values |-> vs]

TrueCode  == 8
FalseCode == 9

(* The objects that an object refers to, in the order in which they are
   written: each key of a dictionary before its value. *)
Children(o) ==
  CASE o.type = "array" -> o.values
    [] o.type = "dict"  -> [j \in 1..2 * Len(o.keys) |->
                              IF j % 2 = 1 THEN Text("string", o.keys[(j + 1) \div 2])
                              ELSE o.values[j \div 2]]
    [] OTHER -> <<>>

(* What is left of a number without its lowest two bytes; the values of an
   int64_t; a number of 32 bits. *)
High(n)   == n \div 65536
Int64(n)  == -32768 <= High(High(High(n))) /\ High(High(High(n))) < 32768
Short(n)  == High(n) < 65536

(* The characters of a string end before the first 0, those of data do not. *)
Octet     == 0..255
Character == Octet \ {0}

IsObject(o) ==
  \/ o = Null
  \/ o \in [type : {"primitive"}, code : {TrueCode, FalseCode}]
  \/ o \in [type : {"integer"}, int : Int] /\ Int64(o.int)
  \/ o \in [type : {"real"}, order : [1..8 -> Octet]]
  \/ o \in [type : {"data"}, chars : Seq(Octet)]
  \/ o \in [type : {"string"}, chars : Seq(Character)]
  \/ o \in [type : {"array"}, values : Seq(Objects)]
  \/ /\ o \in [type : {"dict"}, keys : Seq(Seq(Character)), values : Seq(Objects)]
     /\ Len(o.values) = Len(o.keys)
     /\ Len(o.keys) <= 127
     /\ \A i, j \in 1..Len(o.keys) : o.keys[i] = o.keys[j] => i = j

(* Objects are trees: what an object leads to is nested less deep. *)
ASSUME ObjectsAssumption ==
  /\ Nesting \in [Objects -> Nat]
  /\ \A o \in Objects :
       /\ IsObject(o)
       /\ LET kids == Children(o)
          IN \A j \in 1..Len(kids) : kids[j] \in Objects /\ Nesting[kids[j]] < Nesting[o]

ASSUME LengthAssumption == MaxLength \in Nat /\ Short(MaxLength)

VARIABLES
  object,  \* the object that is written
  data,    \* what was written of it, and the length that was allocated for that
  parsed,  \* what was read of data
  phase    \* "built", "written" or "read"

vars == <<object, data, parsed, phase>>

-----------------------------------------------------------------------------
(* Wrong: strncmp, which takes a longer key for the one that is asked for. *)
DictGetByPrefix(o, key) ==
  LET Starts(k) == Len(k) >= Len(key) /\ SubSeq(k, 1, Len(key)) = key
  IN IF o.type # "dict" \/ \A i \in 1..Len(o.keys) : ~Starts(o.keys[i]) THEN Null
     ELSE o.values[CHOOSE i \in 1..Len(o.keys) :
                     Starts(o.keys[i]) /\ \A j \in 1..(i - 1) : ~Starts(o.keys[j])]

(* plist_object_dict_get_value: the first entry of that key. *)
DictGet(o, key) ==
  IF o.type # "dict" \/ \A i \in 1..Len(o.keys) : o.keys[i] # key THEN Null
  ELSE o.values[CHOOSE i \in 1..Len(o.keys) :
                  o.keys[i] = key /\ \A j \in 1..(i - 1) : o.keys[j] # key]

(* plist_object_dict_get_key_value, by an index from 0 on. *)
DictGetKeyValue(o, idx) ==
  IF o.type # "dict" \/ idx >= Len(o.keys) THEN <<Null, Null>>
  ELSE <<o.keys[idx + 1], o.values[idx + 1]>>

(* plist_object_array_get_value. *)
ArrayGet(o, idx) ==
  IF o.type # "array" \/ idx >= Len(o.values) THEN Null ELSE o.values[idx + 1]

(* plist_object_primitive_get_value and the like of the other types: one of
   another type is refused. *)
Refused == <<>>
GetValue(o, type) ==
  IF o.type # type THEN Refused
  ELSE CASE type = "primitive" -> <<o.code>>
         [] type = "integer" -> <<o.int>>
         [] type = "real" -> <<o.order>>
         [] type \in {"data", "string"} -> <<o.chars>>

-----------------------------------------------------------------------------
(* Integers, most significant byte first. *)

Widths == {1, 2, 4, 8}

(* Wrong: 256 does not fit in a byte. *)
WidthTooSmall(n) ==
  IF n <= 0 THEN 8 ELSE IF n <= 256 THEN 1 ELSE IF n < 65536 THEN 2
  ELSE IF Short(n) THEN 4 ELSE 8

(* integer_length.  Zero and negative numbers take eight bytes. *)
Width(n) ==
  IF n <= 0 THEN 8 ELSE IF n < 256 THEN 1 ELSE IF n < 65536 THEN 2
  ELSE IF Short(n) THEN 4 ELSE 8

(* blist_integer_length: the width w as a power of two. *)
WidthLog(w) == CHOOSE k \in 0..3 : 2 ^ k = w

Byte(n) == [type |-> "byte", low |-> n]
Tag(t, n) == [type |-> t, low |-> n]

(* serialize_integer. *)
TwoBytes(n)  == <<Byte((n \div 256) % 256), Byte(n % 256)>>
FourBytes(n) == TwoBytes(High(n)) \o TwoBytes(n)

IntBytes(n, width) ==
  CASE width = 1 -> <<Byte(n % 256)>>
    [] width = 2 -> TwoBytes(n)
    [] width = 4 -> FourBytes(n)
    [] width = 8 -> FourBytes(High(High(n))) \o FourBytes(n)

(* Positions in d count from 0. *)
At(d, i) == d[i + 1]

(* The number that continues n with the bytes at i. *)
TwoMore(n, d, i)  == 256 * (256 * n + At(d, i).low) + At(d, i + 1).low
FourMore(n, d, i) == TwoMore(TwoMore(n, d, i), d, i + 2)

(* parse_integer: only a number of eight bytes has a sign. *)
ReadInt(d, i, width) ==
  CASE width = 1 -> At(d, i).low
    [] width = 2 -> TwoMore(0, d, i)
    [] width = 4 -> FourMore(0, d, i)
    [] width = 8 -> FourMore(FourMore(IF At(d, i).low >= 128 THEN -1 ELSE 0, d, i), d, i + 4)

-----------------------------------------------------------------------------
(* Writing. *)

HeadLength(n, width) == IF n < 15 THEN 1 ELSE 2 + width

(* The bytes of an object without its references and what they lead to. *)
OwnLength(o) ==
  CASE o.type \in {"null", "primitive"} -> 1
    [] o.type = "integer" -> 1 + Width(o.int)
    [] o.type = "real" -> 1 + 8
    [] o.type \in {"data", "string"} ->
         HeadLength(Len(o.chars), Width(Len(o.chars))) + Len(o.chars)
    [] o.type = "array" -> HeadLength(Len(o.values), Width(Len(o.values)))
    [] o.type = "dict"  -> HeadLength(Len(o.keys), Width(2 * Len(o.keys)))

(* Wrong: the references to the keys of a dictionary are forgotten. *)
RefsToValues(o) == IF o.type \in {"array", "dict"} THEN Len(o.values) ELSE 0

RefsOf(o) == Len(Children(o))

(* The counters that bplist_analyze adds to. *)
Sum(a, b) ==
  [objects |-> a.objects + b.objects, bytes |-> a.bytes + b.bytes, refs |-> a.refs + b.refs]

(* The sum for objects that follow each other, by a function that says how much
   there is to write for each of them: sum says it for those between two places.
   Here and below, what the code does for one after the other is put together
   from halves, which keeps the recursion of TLC shallow. *)
SumBetween(os, size, sum, lo, hi) ==
  LET mid == (lo + hi) \div 2
  IN IF hi <= lo THEN [objects |-> 0, bytes |-> 0, refs |-> 0]
     ELSE IF hi = lo + 1 THEN size[os[hi]]
     ELSE Sum(sum[<<lo, mid>>], sum[<<mid, hi>>])

Places(os) == (0..Len(os)) \X (0..Len(os))

SumOf(os, size) ==
  LET sum[p \in Places(os)] == SumBetween(os, size, sum, p[1], p[2])
  IN sum[<<0, Len(os)>>]

(* bplist_analyze: how much there is to write. *)
AnalyzeOne(o, size) ==
  Sum([objects |-> 1, bytes |-> OwnLength(o), refs |-> RefsOf(o)], SumOf(Children(o), size))

Analyze[o \in Objects] == AnalyzeOne(o, Analyze)

(* A type with a length, which is written as an integer from 15 on. *)
HeadOf(type, n) ==
  IF n < 15 THEN <<Tag(type, n)>>
  ELSE <<Tag(type, 15), Tag("integer", WidthLog(Width(n)))>> \o IntBytes(n, Width(n))

(* What an object writes before its references and its children.  A real is
   written as it lies in memory, from the lowest byte upwards. *)
Own(o) ==
  CASE o.type = "null"      -> <<Tag("primitive", 0)>>
    [] o.type = "primitive" -> <<Tag("primitive", o.code)>>
    [] o.type = "integer"   -> <<Tag("integer", WidthLog(Width(o.int)))>>
                                 \o IntBytes(o.int, Width(o.int))
    [] o.type = "real"      -> <<Tag("real", 3)>> \o [i \in 1..8 |-> Byte(o.order[9 - i])]
    [] o.type \in {"data", "string"} ->
         HeadOf(o.type, Len(o.chars)) \o [i \in 1..Len(o.chars) |-> Byte(o.chars[i])]
    [] OTHER -> HeadOf(o.type, Len(o.values))

(* The references of a dictionary to its keys come before those to its values. *)
RefOrder(o, ids) ==
  IF o.type # "dict" THEN ids
  ELSE [j \in 1..Len(ids) |-> IF j <= Len(o.keys) THEN ids[2 * j - 1]
                              ELSE ids[2 * (j - Len(o.keys))]]

(* Numbers one after the other, each of the same width. *)
IntTable(ns, width) ==
  [k \in 1..(width * Len(ns)) |->
     IntBytes(ns[(k - 1) \div width + 1], width)[((k - 1) % width) + 1]]

(* What is written for objects that follow each other, from the position at on
   and with the numbers from id on, by a function that says what is written for
   each of them; ids are their own numbers. *)
WriteBetween(os, written, part, lo, hi, at, id) ==
  LET mid == (lo + hi) \div 2
      one == written[<<os[hi], at, id>>]
      a   == part[<<lo, mid, at, id>>]
      b   == part[<<mid, hi, at + Len(a.bytes), id + Len(a.offsets)>>]
  IN IF hi <= lo THEN [bytes |-> <<>>, offsets |-> <<>>, ids |-> <<>>]
     ELSE IF hi = lo + 1 THEN [bytes |-> one.bytes, offsets |-> one.offsets, ids |-> <<id>>]
     ELSE [bytes |-> a.bytes \o b.bytes, offsets |-> a.offsets \o b.offsets,
           ids   |-> a.ids \o b.ids]

Parts(os) == (0..Len(os)) \X (0..Len(os)) \X Nat \X Nat

InTurn(os, written, at, id) ==
  LET part[p \in Parts(os)] == WriteBetween(os, written, part, p[1], p[2], p[3], p[4])
  IN part[<<0, Len(os), at, id>>]

(* bplist_serialize_object: what is written for o, which is the object number
   id and starts at position at, with references of the given width; and the
   positions of o and of all that it leads to. *)
SerializeOne(o, at, id, width, written) ==
  LET refs == at + Len(Own(o))
      all  == InTurn(Children(o), written, refs + width * RefsOf(o), id + 1)
  IN [bytes   |-> Own(o) \o IntTable(RefOrder(o, all.ids), width) \o all.bytes,
      offsets |-> <<at>> \o all.offsets]

Serialize(width) ==
  LET written[p \in Objects \X Nat \X Nat] == SerializeOne(p[1], p[2], p[3], width, written)
  IN written

Zeros(n) == [i \in 1..n |-> Byte(0)]
HeaderLength  == 8
TrailerLength == 32

(* plist_object_to_bplist, into a buffer of zeros. *)
Bplist(o) ==
  LET size     == Analyze[o]
      refWidth == Width(size.refs)
      before   == HeaderLength + size.bytes + size.refs * refWidth
      offWidth == Width(before)
      buffer   == before + size.objects * offWidth + TrailerLength
      body     == Serialize(refWidth)[<<o, HeaderLength, 0>>]
      written  == Zeros(HeaderLength) \o body.bytes \o IntTable(body.offsets, offWidth)
                    \o Zeros(6) \o <<Byte(offWidth), Byte(refWidth)>>
                    \o IntBytes(size.objects, 8) \o IntBytes(0, 8)
                    \o IntBytes(HeaderLength + Len(body.bytes), 8)
  IN [bytes |-> written \o Zeros(buffer - Len(written)), length |-> Len(written),
      allocated |-> buffer]

-----------------------------------------------------------------------------
(* Reading. *)

(* The number in the lower four bits, or the integer that follows if they are
   all set; next is the position after it. *)
LengthAt(d, at) ==
  LET width == 2 ^ At(d, at + 1).low
      n     == ReadInt(d, at + 2, width)
  IN IF At(d, at).low < 15 THEN [ok |-> TRUE, n |-> At(d, at).low, next |-> at + 1]
     ELSE IF /\ at + 1 < Len(d)
             /\ At(d, at + 1).type = "integer"
             /\ width \in Widths
             /\ at + 2 + width <= Len(d)
          THEN [ok |-> n >= 0, n |-> n, next |-> at + 2 + width]
          ELSE [ok |-> FALSE, n |-> 0, next |-> at]

Characters(d, at, n) == [i \in 1..n |-> At(d, at + i - 1).low]

(* A real of four bytes is a float; any other is read as eight bytes, the
   first of which is taken for the sign. *)
ReadReal(d, at, n) == Real(Characters(d, at, IF n = 4 THEN 4 ELSE 8))

(* The types that have no references. *)
ReadSimple(d, type, n, at) ==
  CASE type = "primitive" -> Primitive(n)
    [] type = "integer" /\ 2 ^ n \in Widths /\ at + 2 ^ n <= Len(d) ->
         Integer(ReadInt(d, at, 2 ^ n))
    [] type = "real" /\ at + 2 ^ n <= Len(d) -> ReadReal(d, at, 2 ^ n)
    [] type = "date" /\ at + 8 <= Len(d) -> Text("date", Characters(d, at, 8))
    [] type \in {"data", "string", "unicode"} /\ at + n <= Len(d) ->
         Text(type, Characters(d, at, n))
    [] OTHER -> Null

(* A dictionary of n keys, to which the first n references lead. *)
ReadDict(n, kids) ==
  IF \E i \in 1..n : kids[i].type # "string" THEN Null
  ELSE Dict([i \in 1..n |-> kids[i].chars], [i \in 1..n |-> kids[n + i]])

(* bplist_parse_object: what stands at the position number id of refs, where
   inner says what is read of the objects that this one refers to.  That kids is
   a concatenation has TLC work it out once. *)
ParseOne(d, refs, width, id, inner) ==
  LET at   == At(refs, id)
      type == At(d, at).type
      len  == LengthAt(d, at)
      n    == IF type = "dict" THEN 2 * len.n ELSE len.n
      ref(i) == ReadInt(d, len.next + (i - 1) * width, width)
      kids == <<>> \o [i \in 1..n |-> IF ref(i) \in 0..(Len(refs) - 1) THEN inner[ref(i)] ELSE Null]
  IN IF at >= Len(d) \/ ~len.ok THEN Null
     ELSE IF type \notin {"array", "dict"} THEN ReadSimple(d, type, len.n, len.next)
     ELSE IF \/ len.next + n * width > Len(d)
             \/ n > 0 /\ width \notin Widths
             \/ \E i \in 1..n : kids[i] = Null
          THEN Null
     ELSE IF type = "array" THEN Array(kids)
     ELSE ReadDict(len.n, kids)

(* An object can be nested as deep as there are objects.  A list in which the
   references form a cycle, which the code would follow forever, leads to Null;
   none that is written has one. *)
ParseObject(d, refs, width) ==
  LET parse[depth \in 0..Len(refs)] ==
        [id \in 0..(Len(refs) - 1) |->
           IF depth = 0 THEN Null ELSE ParseOne(d, refs, width, id, parse[depth - 1])]
  IN parse[Len(refs)]

(* plist_object_from_bplist. *)
FromBplist(d) ==
  LET trailer  == Len(d) - TrailerLength
      offWidth == At(d, trailer + 6).low
      refWidth == At(d, trailer + 7).low
      objects  == ReadInt(d, trailer + 8, 8)
      root     == ReadInt(d, trailer + 16, 8)
      table    == ReadInt(d, trailer + 24, 8)
      refs     == [i \in 1..objects |-> ReadInt(d, table + (i - 1) * offWidth, offWidth)]
  IN IF \/ trailer < 0
        \/ objects <= 0
        \/ root < 0 \/ root >= objects
        \/ table < HeaderLength \/ table + objects * offWidth > Len(d)
     THEN Null
     ELSE ParseObject(d, refs, refWidth)[root]

-----------------------------------------------------------------------------
(* A text of n characters, the first of which tells it from others. *)
Word(first, n) == [j \in 1..n |-> IF j = 1 THEN first ELSE 97]
String(cs)     == Text("string", cs)
Colon          == 58

(* plist_object_dict, of entries that give the length of a key and its value. *)
DictOf(entries) ==
  Dict([i \in DOMAIN entries |-> Word(i, entries[i][1])], [i \in DOMAIN entries |-> entries[i][2]])

(* Six bytes in hexadecimal. *)
GenerateMacAddress == [j \in 1..17 |-> IF j % 3 = 0 THEN Colon ELSE 48 + (j % 10)]

(* ap_config::default_instance; the application may set another name. *)
DefaultConfig ==
  [name          |-> Word(1, 11),
   model         |-> Word(2, 10),
   serverVersion |-> Word(3, 6),
   pi            |-> Word(4, 36),
   pk            |-> Word(5, 64),
   macAddress    |-> GenerateMacAddress,
   vv            |-> 2,
   features      |-> 1384120311,
   statusFlag    |-> 68,
   width         |-> 1920,
   height        |-> 1080,
   refreshRate   |-> <<64, 78, 0, 0, 0, 0, 0, 0>>,
   uuid          |-> Word(6, 36)]

DeviceID(config) == SelectSeq(config.macAddress, LAMBDA c : c # Colon)

(* The answer of get_info_handler: 15 entries, the least number that takes a
   length of its own. *)
Info(config) ==
  LET format  == DictOf(<<<<4, Integer(96)>>, <<17, Integer(16777216)>>, <<18, Integer(16777216)>>>>)
      latency == DictOf(<<<<4, Integer(96)>>, <<9, String(Word(1, 7))>>, <<18, Integer(0)>>,
                          <<19, Integer(0)>>>>)
      display == DictOf(<<<<8, Integer(14)>>,
                          <<6, Integer(config.height)>>, <<12, Integer(config.height)>>,
                          <<14, Integer(0)>>,
                          <<5, Integer(config.width)>>, <<11, Integer(config.width)>>,
                          <<13, Integer(0)>>,
                          <<11, Real(config.refreshRate)>>, <<11, Primitive(TrueCode)>>,
                          <<8, Primitive(TrueCode)>>, <<4, String(config.uuid)>>>>)
  IN DictOf(<<<<8, String(DeviceID(config))>>, <<8, Integer(config.features)>>,
              <<17, Integer(1)>>, <<24, Integer(1)>>,
              <<10, String(config.macAddress)>>, <<5, String(config.model)>>,
              <<4, String(config.name)>>, <<13, String(config.serverVersion)>>,
              <<11, Integer(config.statusFlag)>>, <<2, String(config.pi)>>,
              <<2, Text("data", config.pk)>>, <<2, Integer(config.vv)>>,
              <<12, Array(<<format>>)>>, <<14, Array(<<latency>>)>>, <<8, Array(<<display>>)>>>>)

-----------------------------------------------------------------------------
Init ==
  /\ object \in Objects \ {Null}
  /\ data = [bytes |-> <<>>, length |-> 0, allocated |-> 0]
  /\ parsed = Null
  /\ phase = "built"

(* Lists that are longer than MaxLength are never written. *)
ToBplist ==
  /\ phase = "built"
  /\ data' = Bplist(object)
  /\ data'.allocated <= MaxLength
  /\ phase' = "written"
  /\ UNCHANGED <<object, parsed>>

Read ==
  /\ phase = "written"
  /\ parsed' = FromBplist(data.bytes)
  /\ phase' = "read"
  /\ UNCHANGED <<object, data>>

Next == ToBplist \/ Read

Spec == Init /\ [][Next]_vars

-----------------------------------------------------------------------------
(* What is written fills exactly what was allocated for it: bplist_analyze and
   bplist_serialize_object agree on every length. *)
LengthsAgree == data.length = data.allocated

(* What o is read as.  A null becomes the primitive 0, and the bytes of a real
   are reversed, since they are written in the order of the host and read in
   that of the network. *)
ReadsAsOne(o, reads) ==
  CASE o.type = "null"  -> Primitive(0)
    [] o.type = "real"  -> Real([i \in 1..8 |-> o.order[9 - i]])
    [] o.type = "array" -> Array([i \in 1..Len(o.values) |-> reads[o.values[i]]])
    [] o.type = "dict"  -> Dict(o.keys, [i \in 1..Len(o.keys) |-> reads[o.values[i]]])
    [] OTHER -> o

ReadsAs[o \in Objects] == ReadsAsOne(o, ReadsAs)

(* What is written is read back, whatever the number, the length, the size or
   the nesting, which decide how wide lengths, references and positions are. *)
ReadsBack == phase = "read" => parsed = ReadsAs[object]

(* A handler finds every value that a sender wrote, by its key in a dictionary
   and by its index in either, nothing beyond the end, and the getter of a type
   gets the value that was written, the other getters none. *)
EveryValueIsFound ==
  phase = "read" =>
    /\ object.type = "dict" => \A i \in 1..Len(object.keys) :
         /\ DictGet(parsed, object.keys[i]) = ReadsAs[object.values[i]]
         /\ DictGetKeyValue(parsed, i - 1) = <<object.keys[i], ReadsAs[object.values[i]]>>
    /\ object.type = "array" => \A i \in 1..(Len(object.values) + 1) :
         ArrayGet(parsed, i - 1) = IF i > Len(object.values) THEN Null
                                   ELSE ReadsAs[object.values[i]]
    /\ \A type \in {"primitive", "integer", "real", "data", "string"} :
         GetValue(parsed, type) = GetValue(ReadsAs[object], type)
=============================================================================
