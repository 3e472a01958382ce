-------------------------- MODULE PlistCodecProofs --------------------------
(***************************************************************************)
(* What plist_object_to_bplist writes fills the buffer it allocated, and   *)
(* plist_object_from_bplist reads it back, whatever the object.            *)
(*                                                                         *)
(* The recursive functions of PlistCodec are solved with the least number  *)
(* for which a solution would be missing, as induction over data is not    *)
(* within the provers' reach: the depth at which objects are nested, the   *)
(* distance of two places among the children, the depth of a read.         *)
(*                                                                         *)
(*  1. What bplist_serialize_object writes of an object is as long as      *)
(*     bplist_analyze counted (AsLong), by its own bytes, its references   *)
(*     and its children.  Hence the list fills its buffer (BplistIs).      *)
(*  2. What was written stands in the list where the table of positions    *)
(*     says, each object with the numbers of those it refers to            *)
(*     (IsWritten, StandsAt), and the list is Readable from its trailer.   *)
(*  3. An object at a number is read as it should be, as deep as it is     *)
(*     nested: if what it refers to is (Known), so is the object           *)
(*     (OneIsRead), and there are enough depths for all of them.           *)
(*  4. So ListInv, which says that data is the list of object and parsed   *)
(*     what is read of it, implies the three invariants.                   *)
(***************************************************************************)
EXTENDS PlistCodec, SequenceTheorems, WellFoundedInduction, TLAPS

-----------------------------------------------------------------------------
(* Numbers and recursive functions. *)

(* The least of a set of numbers. *)
LEMMA LeastNumber ==
  ASSUME NEW S \in SUBSET Nat, S # {}
  PROVE  \E n \in S : \A m \in S : n <= m
<1>1. IsWellFoundedOn(OpToRel(<, Nat), Nat)
  BY NatLessThanWellFounded
<1>2. PICK n \in S : \A m \in S : ~(<<m, n>> \in OpToRel(<, Nat))
  BY <1>1, WFMin
<1>3. \A m \in S : ~(m < n)
  BY <1>2 DEF OpToRel
<1> QED BY <1>3

(* Equations that give the value at x from the values where the rank is less. *)
Equations(D, V, rank, G) ==
  /\ V # {}
  /\ rank \in [D -> Nat]
  /\ G \in [D -> [[D -> V] -> V]]
  /\ \A x \in D : \A g, h \in [D -> V] :
       (\A y \in D : rank[y] < rank[x] => g[y] = h[y]) => G[x][g] = G[x][h]

Solvable(D, V, G) == \E f \in [D -> V] : \A x \in D : f[x] = G[x][f]

(* A function may be defined from its own values where a rank is less. *)
LEMMA Recursion ==
  ASSUME NEW D, NEW V, NEW rank, NEW G, Equations(D, V, rank, G)
  PROVE  Solvable(D, V, G)
<1> SUFFICES \E f \in [D -> V] : \A x \in D : f[x] = G[x][f]
  BY DEF Solvable
<1>e. rank \in [D -> Nat] /\ G \in [D -> [[D -> V] -> V]]
  BY DEF Equations
<1>0. PICK v \in V : TRUE
  BY DEF Equations
<1>a. \A x \in D : \A g, h \in [D -> V] :
        (\A y \in D : rank[y] < rank[x] => g[y] = h[y]) => G[x][g] = G[x][h]
  BY DEF Equations
<1> USE <1>e
<1> DEFINE Good(n, f) == f \in [D -> V] /\ \A x \in D : rank[x] < n => f[x] = G[x][f]
<1>1. \A n \in Nat : \E f : Good(n, f)
  <2> DEFINE S == {n \in Nat : ~(\E f : Good(n, f))}
  <2> SUFFICES ASSUME S # {} PROVE FALSE
    OBVIOUS
  <2>1. PICK n \in S : \A m \in S : n <= m
    <3> HIDE DEF S
    <3>1. S \in SUBSET Nat
      BY DEF S
    <3> QED BY <3>1, LeastNumber
  <2>2. Good(0, [x \in D |-> v])
    OBVIOUS
  <2>3. n # 0 /\ n \in Nat
    BY <2>1, <2>2
  <2>4. PICK f : Good(n - 1, f)
    <3> HIDE DEF Good
    <3>1. n - 1 \in Nat /\ ~(n <= n - 1)
      BY <2>3
    <3> QED BY <2>1, <3>1
  <2> DEFINE g == [x \in D |-> IF rank[x] = n - 1 THEN G[x][f] ELSE f[x]]
  <2>5. g \in [D -> V]
    BY <2>4
  <2>6. ASSUME NEW x \in D, rank[x] < n PROVE g[x] = G[x][g]
    <3>1. rank[x] \in Nat /\ rank[x] <= n - 1
      BY <2>3, <2>6
    <3>2. \A y \in D : rank[y] < rank[x] => f[y] = g[y]
      BY <3>1
    <3>3. f \in [D -> V] /\ G[x][f] = G[x][g]
      BY <1>a, <2>4, <2>5, <3>2
    <3>4. g[x] = G[x][f]
      <4>1. rank[x] = n - 1 \/ rank[x] < n - 1
        <5>1. \A i, j \in Nat : i <= j - 1 => i = j - 1 \/ i < j - 1
          OBVIOUS
        <5>2. n \in Nat
          BY <2>3
        <5> QED BY <3>1, <5>1, <5>2
      <4>2. rank[x] < n - 1 => f[x] = G[x][f]
        BY <2>4
      <4> QED BY <4>1, <4>2
    <3> QED BY <3>3, <3>4
  <2>7. Good(n, g)
    BY <2>5, <2>6
  <2> QED BY <2>1, <2>7
<1>2. ASSUME NEW n \in Nat, NEW m \in Nat, NEW f, NEW g, Good(n, f), Good(m, g),
             NEW x \in D, rank[x] < n, rank[x] < m
      PROVE  f[x] = g[x]
  <2> DEFINE S == {k \in Nat : \E y \in D : rank[y] = k /\ k < n /\ k < m /\ f[y] # g[y]}
  <2> SUFFICES ASSUME S # {} PROVE FALSE
    BY <1>2
  <2>1. PICK k \in S : \A j \in S : k <= j
    <3> HIDE DEF S
    <3>1. S \in SUBSET Nat
      BY DEF S
    <3> QED BY <3>1, LeastNumber
  <2>2. PICK y \in D : rank[y] = k /\ k < n /\ k < m /\ f[y] # g[y]
    BY <2>1
  <2>3. \A z \in D : rank[z] < rank[y] => f[z] = g[z]
    <3> SUFFICES ASSUME NEW z \in D, rank[z] < rank[y], f[z] # g[z] PROVE FALSE
      OBVIOUS
    <3>1. rank[z] \in S
      BY <2>2
    <3> QED BY <2>1, <2>2, <3>1
  <2>4. G[y][f] = G[y][g]
    BY <1>a, <1>2, <2>3
  <2> QED BY <1>2, <2>2, <2>4
<1> DEFINE F == [n \in Nat |-> CHOOSE f : Good(n, f)]
           f == [x \in D |-> F[rank[x] + 1][x]]
<1>3. \A n \in Nat : Good(n, F[n])
  BY <1>1
<1> HIDE DEF F
<1>4. f \in [D -> V]
  BY <1>3
<1>5. ASSUME NEW x \in D PROVE f[x] = G[x][f]
  <2> DEFINE h == F[rank[x] + 1]
  <2>1. rank[x] + 1 \in Nat /\ Good(rank[x] + 1, h)
    BY <1>3
  <2>2. \A y \in D : rank[y] < rank[x] => f[y] = h[y]
    <3> SUFFICES ASSUME NEW y \in D, rank[y] < rank[x] PROVE f[y] = h[y]
      OBVIOUS
    <3>1. rank[y] + 1 \in Nat /\ Good(rank[y] + 1, F[rank[y] + 1])
      BY <1>3
    <3>2. rank[y] < rank[y] + 1 /\ rank[y] < rank[x] + 1 /\ rank[x] \in Nat /\ rank[y] \in Nat
      OBVIOUS
    <3> HIDE DEF Good, h
    <3>3. F[rank[y] + 1][y] = h[y]
      BY <1>2, <2>1, <3>1, <3>2
    <3> QED BY <3>3
  <2>3. G[x][h] = G[x][f]
    <3>1. h \in [D -> V]
      BY <2>1
    <3> QED BY <1>a, <1>4, <2>2, <3>1
  <2>4. h[x] = G[x][h] /\ f[x] = h[x]
    BY <2>1
  <2> QED BY <2>3, <2>4
<1> QED BY <1>4, <1>5

-----------------------------------------------------------------------------
(* Integers, as bytes. *)

(* The bytes of a list. *)
Bytes ==
  [type : {"byte", "primitive", "integer", "real", "data", "string", "array", "dict"}, low : Nat]

(* The numbers that a width is enough for. *)
Fits(n, w) ==
  \/ w = 1 /\ n \in Nat /\ n < 256
  \/ w = 2 /\ n \in Nat /\ n < 65536
  \/ w = 4 /\ n \in Nat /\ Short(n)
  \/ w = 8 /\ n \in Int /\ Int64(n)

(* A width is one of four. *)
LEMMA WidthType == \A n \in Int : Width(n) \in Widths
BY DEF Width, Widths

(* A width is the power of two that is written for it. *)
LEMMA WidthLogType == \A w \in Widths : WidthLog(w) \in 0..3 /\ 2 ^ WidthLog(w) = w
<1>1. 2 ^ 0 = 1 /\ 2 ^ 1 = 2 /\ 2 ^ 2 = 4 /\ 2 ^ 3 = 8
  OBVIOUS
<1>2. \A w \in Widths : \E k \in 0..3 : 2 ^ k = w
  BY <1>1 DEF Widths
<1> QED BY <1>2 DEF WidthLog

(* What is left of a number is a number. *)
LEMMA HighType == \A n \in Int : High(n) \in Int
BY DEF High

(* A number of 32 bits is one of 64. *)
LEMMA ShortIsInt64 == \A n \in Nat : Short(n) => Int64(n)
<1> SUFFICES ASSUME NEW n \in Nat, High(n) < 65536 PROVE -32768 <= High(High(High(n))) /\ High(High(High(n))) < 32768
  BY DEF Short, Int64
<1>1. High(n) \in Nat
  BY DEF High
<1> DEFINE h == High(n)
<1> HIDE DEF h
<1>2. ASSUME h \in Nat, h < 65536 PROVE High(h) = 0
  BY <1>2 DEF High
<1>3. High(High(n)) = 0
  BY <1>1, <1>2 DEF h
<1>4. High(0) = 0
  BY DEF High
<1> QED BY <1>3, <1>4

(* The width of a number is enough for it, and that of a greater one as well. *)
LEMMA WidthFits ==
  /\ \A n \in Int : Int64(n) => Fits(n, Width(n))
  /\ \A n \in Nat : Short(n) => \A m \in 0..n : Fits(m, Width(n))
  /\ \A n \in Nat : Short(n) => Fits(n, 8)
<1>1. \A n \in Nat : Short(n) => Int64(n)
  BY ShortIsInt64
<1>2. \A n \in Int : Int64(n) => Fits(n, Width(n))
  BY DEF Width, Fits
<1>3. ASSUME NEW n \in Nat, Short(n), NEW m \in 0..n PROVE Fits(m, Width(n))
  <2>1. Short(m)
    BY <1>3 DEF Short, High
  <2>2. Int64(m)
    BY <1>1, <2>1
  <2>3. CASE n <= 0
    BY <2>2, <2>3 DEF Width, Fits
  <2>4. CASE ~(n <= 0) /\ n < 256
    BY <2>4 DEF Width, Fits
  <2>5. CASE ~(n <= 0) /\ ~(n < 256) /\ n < 65536
    <3>1. Width(n) = 2
      BY <2>5 DEF Width
    <3>2. m \in Nat /\ m < 65536
      BY <1>3, <2>5
    <3> QED BY <3>1, <3>2 DEF Fits
  <2>6. CASE ~(n < 65536)
    <3>1. Width(n) = 4
      BY <1>3, <2>6 DEF Width
    <3> QED BY <2>1, <3>1 DEF Fits
  <2> QED BY <2>3, <2>4, <2>5, <2>6
<1>4. \A n \in Nat : Short(n) => Fits(n, 8)
  BY <1>1 DEF Fits
<1> QED BY <1>2, <1>3, <1>4

(* The parts of a concatenation. *)
LEMMA JoinedType ==
  ASSUME NEW S, NEW s \in Seq(S), NEW t \in Seq(S)
  PROVE  /\ s \o t \in Seq(S)
         /\ Len(s \o t) = Len(s) + Len(t)
OBVIOUS

(* Where the elements of two sequences are when they are joined. *)
LEMMA JoinedParts ==
  ASSUME NEW S, NEW s \in Seq(S), NEW t \in Seq(S), NEW k \in Nat
  PROVE  /\ k \in 1..Len(s) => (s \o t)[k] = s[k]
         /\ k \in 1..Len(t) => (s \o t)[Len(s) + k] = t[k]
OBVIOUS

(* Two bytes are written for two. *)
LEMMA TwoBytesType ==
  ASSUME NEW n \in Int
  PROVE  TwoBytes(n) \in Seq(Bytes) /\ Len(TwoBytes(n)) = 2
<1>1. Byte((n \div 256) % 256) \in Bytes /\ Byte(n % 256) \in Bytes
  BY DEF Byte, Bytes
<1> QED BY <1>1 DEF TwoBytes

(* What the two bytes are. *)
LEMMA TwoBytesValues ==
  ASSUME NEW n \in Int
  PROVE  TwoBytes(n)[1].low = (n \div 256) % 256 /\ TwoBytes(n)[2].low = n % 256
BY DEF TwoBytes, Byte

(* Four bytes are written for four. *)
LEMMA FourBytesType ==
  ASSUME NEW n \in Int
  PROVE  FourBytes(n) \in Seq(Bytes) /\ Len(FourBytes(n)) = 4
<1> DEFINE a == TwoBytes(High(n))
           b == TwoBytes(n)
<1>1. a \in Seq(Bytes) /\ Len(a) = 2 /\ b \in Seq(Bytes) /\ Len(b) = 2
  BY HighType, TwoBytesType
<1>2. FourBytes(n) = a \o b
  BY DEF FourBytes
<1> HIDE DEF a, b
<1>3. a \o b \in Seq(Bytes) /\ Len(a \o b) = Len(a) + Len(b)
  BY <1>1, JoinedType
<1>4. 2 + 2 = 4 /\ 4 + 4 = 8
  OBVIOUS
<1> QED BY <1>1, <1>2, <1>3, <1>4, Zenon

(* What the four bytes are. *)
LEMMA FourBytesValues ==
  ASSUME NEW n \in Int
  PROVE  /\ FourBytes(n)[1] = TwoBytes(High(n))[1] /\ FourBytes(n)[2] = TwoBytes(High(n))[2]
         /\ FourBytes(n)[3] = TwoBytes(n)[1] /\ FourBytes(n)[4] = TwoBytes(n)[2]
<1> DEFINE a == TwoBytes(High(n))
           b == TwoBytes(n)
<1>1. a \in Seq(Bytes) /\ Len(a) = 2 /\ b \in Seq(Bytes) /\ Len(b) = 2
  BY HighType, TwoBytesType
<1>2. FourBytes(n) = a \o b
  BY DEF FourBytes
<1> HIDE DEF a, b
<1>3. /\ (a \o b)[1] = a[1] /\ (a \o b)[2] = a[2]
      /\ (a \o b)[3] = b[1] /\ (a \o b)[4] = b[2]
  <2>1. \A k \in {1, 2} : (a \o b)[k] = a[k] /\ (a \o b)[2 + k] = b[k]
    <3> SUFFICES ASSUME NEW k \in {1, 2} PROVE (a \o b)[k] = a[k] /\ (a \o b)[2 + k] = b[k]
      OBVIOUS
    <3>1. k \in Nat /\ k \in 1..Len(a) /\ k \in 1..Len(b)
      BY <1>1
    <3> QED BY <1>1, <3>1, JoinedParts
  <2>2. 2 + 1 = 3 /\ 2 + 2 = 4
    OBVIOUS
  <2> QED BY <2>1, <2>2
<1> QED BY <1>2, <1>3 DEF a, b

(* Eight bytes are written for eight. *)
LEMMA EightBytesType ==
  ASSUME NEW n \in Int
  PROVE  IntBytes(n, 8) \in Seq(Bytes) /\ Len(IntBytes(n, 8)) = 8
<1> DEFINE a == FourBytes(High(High(n)))
           b == FourBytes(n)
<1>1. a \in Seq(Bytes) /\ Len(a) = 4 /\ b \in Seq(Bytes) /\ Len(b) = 4
  <2>1. High(n) \in Int /\ High(High(n)) \in Int
    BY HighType
  <2> QED BY <2>1, FourBytesType
<1>2. IntBytes(n, 8) = a \o b
  BY DEF IntBytes
<1> HIDE DEF a, b
<1>3. a \o b \in Seq(Bytes) /\ Len(a \o b) = Len(a) + Len(b)
  BY <1>1, JoinedType
<1>4. 2 + 2 = 4 /\ 4 + 4 = 8
  OBVIOUS
<1> QED BY <1>1, <1>2, <1>3, <1>4, Zenon

(* What the eight bytes are. *)
LEMMA EightBytesValues ==
  ASSUME NEW n \in Int, NEW k \in 1..4
  PROVE  /\ IntBytes(n, 8)[k] = FourBytes(High(High(n)))[k]
         /\ IntBytes(n, 8)[4 + k] = FourBytes(n)[k]
<1> DEFINE a == FourBytes(High(High(n)))
           b == FourBytes(n)
<1>1. a \in Seq(Bytes) /\ Len(a) = 4 /\ b \in Seq(Bytes) /\ Len(b) = 4
  <2>1. High(n) \in Int /\ High(High(n)) \in Int
    BY HighType
  <2> QED BY <2>1, FourBytesType
<1>2. IntBytes(n, 8) = a \o b
  BY DEF IntBytes
<1> HIDE DEF a, b
<1>3. (a \o b)[k] = a[k] /\ (a \o b)[4 + k] = b[k]
  <2>1. k \in Nat /\ k \in 1..Len(a) /\ k \in 1..Len(b)
    BY <1>1
  <2>2. (a \o b)[k] = a[k] /\ (a \o b)[Len(a) + k] = b[k]
    <3> HIDE <1>1
    <3>1. a \in Seq(Bytes) /\ b \in Seq(Bytes)
      BY <1>1
    <3> QED BY <2>1, <3>1, JoinedParts
  <2> QED BY <1>1, <2>2, Zenon
<1> QED BY <1>2, <1>3 DEF a, b

(* As many bytes are written as the width says. *)
LEMMA IntBytesType ==
  ASSUME NEW n \in Int, NEW w \in Widths
  PROVE  IntBytes(n, w) \in Seq(Bytes) /\ Len(IntBytes(n, w)) = w
<1>1. CASE w = 1
  <2>1. Byte(n % 256) \in Bytes
    BY DEF Byte, Bytes
  <2> QED BY <1>1, <2>1 DEF IntBytes
<1>2. CASE w = 2
  BY <1>2, TwoBytesType DEF IntBytes
<1>3. CASE w = 4
  BY <1>3, FourBytesType DEF IntBytes
<1>4. CASE w = 8
  BY <1>4, EightBytesType
<1> QED BY <1>1, <1>2, <1>3, <1>4 DEF Widths

(* What two and four more bytes make of a number. *)
LEMMA TwoMoreReads ==
  ASSUME NEW n \in Int, NEW d, NEW i \in Int,
         At(d, i) = TwoBytes(n)[1], At(d, i + 1) = TwoBytes(n)[2]
  PROVE  TwoMore(High(n), d, i) = n
<1>1. 256 * (256 * (n \div 65536) + ((n \div 256) % 256)) + (n % 256) = n
  OBVIOUS
<1>2. At(d, i).low = (n \div 256) % 256 /\ At(d, i + 1).low = n % 256
  BY TwoBytesValues
<1> QED BY <1>1, <1>2 DEF TwoMore, High

(* Four bytes continue what is left of a number to that number. *)
LEMMA FourMoreReads ==
  ASSUME NEW n \in Int, NEW d, NEW i \in Int,
         \A k \in 1..4 : At(d, i + k - 1) = FourBytes(n)[k]
  PROVE  FourMore(High(High(n)), d, i) = n
<1>1. /\ At(d, i) = FourBytes(n)[1] /\ At(d, i + 1) = FourBytes(n)[2]
      /\ At(d, i + 2) = FourBytes(n)[3] /\ At(d, i + 3) = FourBytes(n)[4]
  <2>1. i + 1 - 1 = i /\ i + 2 - 1 = i + 1 /\ i + 3 - 1 = i + 2 /\ i + 4 - 1 = i + 3
    OBVIOUS
  <2> QED BY <2>1
<1>2. /\ At(d, i) = TwoBytes(High(n))[1] /\ At(d, i + 1) = TwoBytes(High(n))[2]
      /\ At(d, i + 2) = TwoBytes(n)[1] /\ At(d, i + 3) = TwoBytes(n)[2]
  BY <1>1, FourBytesValues
<1>3. i + 2 \in Int /\ (i + 2) + 1 = i + 3
  OBVIOUS
<1>4. TwoMore(High(High(n)), d, i) = High(n)
  BY <1>2, HighType, TwoMoreReads
<1>5. TwoMore(High(n), d, i + 2) = n
  BY <1>2, <1>3, TwoMoreReads
<1> QED BY <1>4, <1>5 DEF FourMore

(* That the bytes of n stand behind the position i. *)
Shows(d, i, n, w) == \A k \in 1..w : d[i + k] = IntBytes(n, w)[k]

(* What was written of a number in a width that is enough for it is read as it. *)
LEMMA IntIsRead ==
  ASSUME NEW w \in Widths, NEW n \in Int, Fits(n, w), NEW d, NEW i \in Nat, Shows(d, i, n, w)
  PROVE  ReadInt(d, i, w) = n
<1>0. \A k \in 1..w : At(d, i + k - 1) = IntBytes(n, w)[k]
  <2>1. \A k \in 1..w : (i + k - 1) + 1 = i + k
    BY DEF Widths
  <2> QED BY <2>1 DEF At, Shows
<1>1. CASE w = 1
  <2>1. At(d, i) = Byte(n % 256)
    BY <1>0, <1>1 DEF IntBytes
  <2> QED BY <1>1, <2>1 DEF ReadInt, Byte, Fits
<1>2. CASE w = 2
  <2>1. At(d, i) = TwoBytes(n)[1] /\ At(d, i + 1) = TwoBytes(n)[2]
    <3>1. \A k \in 1..2 : At(d, i + k - 1) = TwoBytes(n)[k]
      BY <1>0, <1>2 DEF IntBytes
    <3>2. i + 1 - 1 = i /\ i + 2 - 1 = i + 1
      OBVIOUS
    <3> QED BY <3>1, <3>2
  <2>2. High(n) = 0
    <3>1. n \in Nat /\ n < 65536
      BY <1>2 DEF Fits
    <3> QED BY <3>1 DEF High
  <2>3. TwoMore(High(n), d, i) = n
    BY <2>1, TwoMoreReads
  <2> QED BY <1>2, <2>2, <2>3 DEF ReadInt
<1>3. CASE w = 4
  <2>1. \A k \in 1..4 : At(d, i + k - 1) = FourBytes(n)[k]
    BY <1>0, <1>3 DEF IntBytes
  <2>2. High(High(n)) = 0
    <3>1. High(n) \in Nat /\ High(n) < 65536
      BY <1>3 DEF Fits, Short, High
    <3>2. \A h \in Nat : h < 65536 => High(h) = 0
      BY DEF High
    <3> QED BY <3>1, <3>2
  <2>3. FourMore(High(High(n)), d, i) = n
    BY <2>1, FourMoreReads
  <2> QED BY <1>3, <2>2, <2>3 DEF ReadInt
<1>4. CASE w = 8
  <2> DEFINE h == High(High(n))
             t == High(h)
  <2>1. h \in Int /\ t \in Int /\ -32768 <= t /\ t < 32768
    <3>1. Int64(n)
      BY <1>4 DEF Fits
    <3>2. h \in Int /\ t \in Int
      BY HighType
    <3> QED BY <3>1, <3>2 DEF Int64
  <2>2. High(t) = IF (t \div 256) % 256 >= 128 THEN -1 ELSE 0
    <3> HIDE DEF h, t
    <3>1. CASE t < 0
      <4>1. t \div 65536 = -1
        BY <2>1, <3>1
      <4>2. t \div 256 \in Int /\ -128 <= t \div 256 /\ t \div 256 < 0
        BY <2>1, <3>1
      <4>3. \A k \in Int : -128 <= k /\ k < 0 => k % 256 >= 128
        OBVIOUS
      <4> QED BY <4>1, <4>2, <4>3 DEF High
    <3>2. CASE t >= 0
      <4>1. t \div 65536 = 0
        BY <2>1, <3>2
      <4>2. t \div 256 \in Nat /\ t \div 256 < 128
        BY <2>1, <3>2
      <4>3. \A k \in Nat : k < 128 => ~(k % 256 >= 128)
        OBVIOUS
      <4> QED BY <4>1, <4>2, <4>3 DEF High
    <3> QED BY <2>1, <3>1, <3>2
  <2>3. \A k \in 1..4 : At(d, i + k - 1) = FourBytes(h)[k]
    <3>1. \A k \in 1..4 : IntBytes(n, 8)[k] = FourBytes(h)[k]
      BY EightBytesValues
    <3> HIDE DEF h, t
    <3> QED BY <1>0, <1>4, <3>1
  <2>4. \A k \in 1..4 : At(d, (i + 4) + k - 1) = FourBytes(n)[k]
    <3>1. ASSUME NEW k \in 1..4 PROVE At(d, (i + 4) + k - 1) = FourBytes(n)[k]
      <4>1. 4 + k \in 1..w /\ (i + 4) + k - 1 = i + (4 + k) - 1
        BY <1>4
      <4>2. At(d, i + (4 + k) - 1) = IntBytes(n, w)[4 + k]
        BY <1>0, <4>1
      <4>3. IntBytes(n, 8)[4 + k] = FourBytes(n)[k]
        BY EightBytesValues
      <4> QED BY <1>4, <4>1, <4>2, <4>3
    <3> QED BY <3>1
  <2>5. At(d, i).low = (t \div 256) % 256
    <3>1. At(d, i) = FourBytes(h)[1]
      <4>1. i + 1 - 1 = i
        OBVIOUS
      <4> HIDE DEF h, t
      <4> QED BY <2>3, <4>1
    <3>2. FourBytes(h)[1] = TwoBytes(t)[1]
      <4> HIDE DEF h
      <4> QED BY <2>1, FourBytesValues
    <3>3. TwoBytes(t)[1].low = (t \div 256) % 256
      <4> HIDE DEF t
      <4>1. t \in Int
        BY <2>1
      <4> QED BY <4>1, TwoBytesValues
    <3> HIDE DEF t, h
    <3> QED BY <3>1, <3>2, <3>3
  <2>6. FourMore(High(t), d, i) = h
    <3>1. FourMore(High(High(h)), d, i) = h
      <4> HIDE DEF h
      <4> QED BY <2>1, <2>3, FourMoreReads
    <3> QED BY <3>1
  <2>7. FourMore(h, d, i + 4) = n
    <3>1. i + 4 \in Int
      OBVIOUS
    <3> QED BY <2>4, <3>1, FourMoreReads
  <2> HIDE DEF h, t
  <2>8. FourMore(IF At(d, i).low >= 128 THEN -1 ELSE 0, d, i) = h
    BY <2>2, <2>5, <2>6
  <2> QED BY <1>4, <2>7, <2>8 DEF ReadInt
<1> QED BY <1>1, <1>2, <1>3, <1>4 DEF Widths

-----------------------------------------------------------------------------
(* What bplist_analyze counts. *)

(* The kinds of objects. *)
LEMMA Kinds ==
  ASSUME NEW o \in Objects
  PROVE  \/ o.type = "null" /\ o = Null
         \/ o.type = "primitive" /\ o = Primitive(o.code) /\ o.code \in {TrueCode, FalseCode}
         \/ o.type = "integer" /\ o = Integer(o.int) /\ o.int \in Int /\ Int64(o.int)
         \/ o.type = "real" /\ o = Real(o.order) /\ o.order \in [1..8 -> Octet]
         \/ o.type \in {"data", "string"} /\ o = Text(o.type, o.chars) /\ o.chars \in Seq(Octet)
         \/ o.type = "array" /\ o = Array(o.values) /\ o.values \in Seq(Objects)
         \/ /\ o.type = "dict" /\ o = Dict(o.keys, o.values)
            /\ o.keys \in Seq(Seq(Character)) /\ o.values \in Seq(Objects)
            /\ Len(o.values) = Len(o.keys) /\ Len(o.keys) <= 127
            /\ \A i, j \in 1..Len(o.keys) : o.keys[i] = o.keys[j] => i = j
<1>1. IsObject(o)
  BY ObjectsAssumption
<1>2. CASE o = Null
  BY <1>2 DEF Null
<1>3. CASE o \in [type : {"primitive"}, code : {TrueCode, FalseCode}]
  BY <1>3 DEF Primitive
<1>4. CASE o \in [type : {"integer"}, int : Int] /\ Int64(o.int)
  BY <1>4 DEF Integer
<1>5. CASE o \in [type : {"real"}, order : [1..8 -> Octet]]
  BY <1>5 DEF Real
<1>6. CASE o \in [type : {"data"}, chars : Seq(Octet)]
  BY <1>6 DEF Text
<1>9. CASE o \in [type : {"string"}, chars : Seq(Character)]
  <2>1. o.type = "string" /\ o = Text(o.type, o.chars) /\ o.chars \in Seq(Character)
    BY <1>9 DEF Text
  <2>2. \A i \in 1..Len(o.chars) : o.chars[i] \in Octet
    BY <2>1 DEF Character
  <2>3. o.chars \in Seq(Octet)
    BY <2>1, <2>2
  <2> QED BY <2>1, <2>3
<1>7. CASE o \in [type : {"array"}, values : Seq(Objects)]
  BY <1>7 DEF Array
<1>8. CASE /\ o \in [type : {"dict"}, keys : Seq(Seq(Character)), values : Seq(Objects)]
           /\ Len(o.values) = Len(o.keys)
           /\ Len(o.keys) <= 127
           /\ \A i, j \in 1..Len(o.keys) : o.keys[i] = o.keys[j] => i = j
  BY <1>8 DEF Dict
<1> QED BY <1>1, <1>2, <1>3, <1>4, <1>5, <1>6, <1>9, <1>7, <1>8 DEF IsObject

(* The children of an object follow each other, and are nested less deep. *)
LEMMA ChildrenType ==
  ASSUME NEW o \in Objects
  PROVE  /\ Children(o) \in Seq(Objects)
         /\ \A j \in 1..Len(Children(o)) :
              Children(o)[j] \in Objects /\ Nesting[Children(o)[j]] < Nesting[o]
<1>1. \A j \in 1..Len(Children(o)) :
        Children(o)[j] \in Objects /\ Nesting[Children(o)[j]] < Nesting[o]
  BY ObjectsAssumption
<1>2. \E n \in Nat : \E f : Children(o) = [j \in 1..n |-> f[j]]
  <2>1. CASE o.type = "array"
    <3>1. o.values \in Seq(Objects)
      BY <2>1, Kinds
    <3>2. Children(o) = [j \in 1..Len(o.values) |-> o.values[j]]
      BY <2>1, <3>1 DEF Children
    <3> QED BY <3>1, <3>2
  <2>2. CASE o.type = "dict"
    <3>1. o.keys \in Seq(Seq(Character))
      BY <2>2, Kinds
    <3> DEFINE f == [j \in 1..2 * Len(o.keys) |->
                       IF j % 2 = 1 THEN Text("string", o.keys[(j + 1) \div 2])
                       ELSE o.values[j \div 2]]
    <3>2. Children(o) = f
      BY <2>2 DEF Children
    <3>3. f = [j \in 1..2 * Len(o.keys) |-> f[j]]
      OBVIOUS
    <3>4. 2 * Len(o.keys) \in Nat
      BY <3>1
    <3> HIDE DEF f
    <3> QED BY <3>2, <3>3, <3>4
  <2>3. CASE o.type \notin {"array", "dict"}
    <3>1. Children(o) = <<>>
      BY <2>3 DEF Children
    <3>2. <<>> = [j \in 1..0 |-> j]
      OBVIOUS
    <3>3. <<>> = [j \in 1..0 |-> <<>>[j]]
      OBVIOUS
    <3> QED BY <3>1, <3>3
  <2> QED BY <2>1, <2>2, <2>3
<1>6. PICK n \in Nat : \E f : Children(o) = [j \in 1..n |-> f[j]]
  BY <1>2
<1>3. PICK f : Children(o) = [j \in 1..n |-> f[j]]
  BY <1>6
<1>4. Len(Children(o)) = n
  BY <1>3
<1> HIDE DEF Children
<1>5. \A j \in 1..n : f[j] \in Objects
  BY <1>1, <1>3, <1>4
<1> QED BY <1>1, <1>3, <1>5

(* What lies between two places is put together from two halves. *)
LEMMA Halves ==
  ASSUME NEW lo \in Nat, NEW hi \in Nat, ~(hi <= lo), hi # lo + 1
  PROVE  /\ (lo + hi) \div 2 \in Nat
         /\ lo < (lo + hi) \div 2
         /\ (lo + hi) \div 2 < hi
OBVIOUS

Sizes == [objects : Nat, bytes : Nat, refs : Nat]

(* The counters of two together. *)
LEMMA SumType ==
  ASSUME NEW a \in Sizes, NEW b \in Sizes
  PROVE  /\ Sum(a, b) \in Sizes
         /\ Sum(a, b).objects = a.objects + b.objects
         /\ Sum(a, b).bytes = a.bytes + b.bytes
         /\ Sum(a, b).refs = a.refs + b.refs
BY DEF Sum, Sizes

(* There may be nothing to write. *)
LEMMA NoSize == [objects |-> 0, bytes |-> 0, refs |-> 0] \in Sizes
BY DEF Sizes

(* What a pair of places is. *)
LEMMA PlacesType ==
  ASSUME NEW os \in Seq(Objects), NEW p \in Places(os)
  PROVE  /\ p[1] \in 0..Len(os) /\ p[2] \in 0..Len(os) /\ p = <<p[1], p[2]>>
         /\ p[1] \in Nat /\ p[2] \in Nat /\ Len(os) \in Nat
BY DEF Places

(* The sum between two places is one if those for halves are. *)
LEMMA SumBetweenType ==
  ASSUME NEW os \in Seq(Objects), NEW size \in [Objects -> Sizes], NEW sum,
         NEW lo \in 0..Len(os), NEW hi \in 0..Len(os),
         \A p \in Places(os) : p[2] - p[1] < hi - lo => sum[p] \in Sizes
  PROVE  SumBetween(os, size, sum, lo, hi) \in Sizes
<1>1. CASE hi <= lo
  BY <1>1, NoSize DEF SumBetween
<1>2. CASE hi = lo + 1
  <2>1. hi \in 1..Len(os)
    BY <1>2
  <2>2. os[hi] \in Objects
    BY <2>1
  <2> QED BY <1>2, <2>2 DEF SumBetween
<1>3. CASE ~(hi <= lo) /\ hi # lo + 1
  <2> DEFINE mid == (lo + hi) \div 2
  <2>1. mid \in Nat /\ lo < mid /\ mid < hi /\ lo \in Nat /\ hi \in Nat /\ hi <= Len(os)
    BY <1>3, Halves
  <2> HIDE DEF mid
  <2>2. /\ <<lo, mid>> \in Places(os) /\ mid - lo < hi - lo
        /\ <<mid, hi>> \in Places(os) /\ hi - mid < hi - lo
    BY <2>1 DEF Places
  <2>3. sum[<<lo, mid>>] \in Sizes /\ sum[<<mid, hi>>] \in Sizes
    BY <2>2
  <2>4. Sum(sum[<<lo, mid>>], sum[<<mid, hi>>]) \in Sizes
    BY <2>3, SumType
  <2> QED BY <1>3, <2>4 DEF SumBetween, mid
<1> QED BY <1>1, <1>2, <1>3

(* The sum between two places depends on those between nearer ones. *)
LEMMA SumBetweenLocal ==
  ASSUME NEW os \in Seq(Objects), NEW size, NEW g, NEW h,
         NEW lo \in 0..Len(os), NEW hi \in 0..Len(os),
         \A p \in Places(os) : p[2] - p[1] < hi - lo /\ p[1] < p[2] => g[p] = h[p]
  PROVE  SumBetween(os, size, g, lo, hi) = SumBetween(os, size, h, lo, hi)
<1>1. CASE hi <= lo \/ hi = lo + 1
  BY <1>1 DEF SumBetween
<1>2. CASE ~(hi <= lo) /\ hi # lo + 1
  <2> DEFINE mid == (lo + hi) \div 2
  <2>1. mid \in Nat /\ lo < mid /\ mid < hi /\ lo \in Nat /\ hi \in Nat /\ hi <= Len(os)
    BY <1>2, Halves
  <2> HIDE DEF mid
  <2>2. /\ <<lo, mid>> \in Places(os) /\ mid - lo < hi - lo
        /\ <<mid, hi>> \in Places(os) /\ hi - mid < hi - lo
    BY <2>1 DEF Places
  <2>3. g[<<lo, mid>>] = h[<<lo, mid>>] /\ g[<<mid, hi>>] = h[<<mid, hi>>]
    BY <2>1, <2>2
  <2> QED BY <1>2, <2>3 DEF SumBetween, mid
<1> QED BY <1>1, <1>2

(* The recursion over places has a solution. *)
LEMMA SumExists ==
  ASSUME NEW os \in Seq(Objects), NEW size \in [Objects -> Sizes]
  PROVE  \E f \in [Places(os) -> Sizes] :
           f = [p \in Places(os) |-> SumBetween(os, size, f, p[1], p[2])]
<1> DEFINE D == Places(os)
           rank == [p \in D |-> IF p[2] - p[1] >= 0 THEN p[2] - p[1] ELSE 0]
           G == [p \in D |-> [g \in [D -> Sizes] |-> SumBetween(os, size, g, p[1], p[2])]]
<1>1. rank \in [D -> Nat]
  BY PlacesType
<1>2. G \in [D -> [[D -> Sizes] -> Sizes]]
  <2> SUFFICES ASSUME NEW p \in D, NEW g \in [D -> Sizes]
               PROVE SumBetween(os, size, g, p[1], p[2]) \in Sizes
    OBVIOUS
  <2> QED BY PlacesType, SumBetweenType
<1>3. ASSUME NEW p \in D, NEW g \in [D -> Sizes], NEW h \in [D -> Sizes],
             \A q \in D : rank[q] < rank[p] => g[q] = h[q]
      PROVE  G[p][g] = G[p][h]
  <2>1. SumBetween(os, size, g, p[1], p[2]) = SumBetween(os, size, h, p[1], p[2])
    <3>1. ASSUME NEW q \in D, q[2] - q[1] < p[2] - p[1], q[1] < q[2] PROVE rank[q] < rank[p]
      <4>1. q[1] \in Nat /\ q[2] \in Nat /\ p[1] \in Nat /\ p[2] \in Nat
        BY PlacesType
      <4> QED BY <3>1, <4>1
    <3> HIDE DEF rank, G
    <3>2. p[1] \in 0..Len(os) /\ p[2] \in 0..Len(os)
      BY PlacesType
    <3> QED BY <1>3, <3>1, <3>2, SumBetweenLocal
  <2> QED BY <2>1
<1>4. \E f \in [D -> Sizes] : \A p \in D : f[p] = G[p][f]
  <2> HIDE DEF D, rank, G
  <2>1. Sizes # {}
    BY NoSize
  <2>2. Equations(D, Sizes, rank, G)
    BY <1>1, <1>2, <1>3, <2>1 DEF Equations
  <2> QED BY <2>2, Recursion DEF Solvable
<1>5. PICK f \in [D -> Sizes] : \A p \in D : f[p] = G[p][f]
  BY <1>4
<1>6. \A p \in D : f[p] = SumBetween(os, size, f, p[1], p[2])
  BY <1>5
<1>7. f = [p \in D |-> SumBetween(os, size, f, p[1], p[2])]
  <2> HIDE DEF D
  <2> QED BY <1>6
<1> QED BY <1>7

(* The sums that SumOf chooses. *)
LEMMA SumOfUnfolds ==
  ASSUME NEW os \in Seq(Objects), NEW size \in [Objects -> Sizes]
  PROVE  \E sum \in [Places(os) -> Sizes] :
           /\ \A p \in Places(os) : sum[p] = SumBetween(os, size, sum, p[1], p[2])
           /\ SumOf(os, size) = sum[<<0, Len(os)>>]
<1> DEFINE D == Places(os)
           P(g) == g = [p \in D |-> SumBetween(os, size, g, p[1], p[2])]
           sum == CHOOSE g : P(g)
<1>1. \E g : P(g)
  BY SumExists
<1>2. P(sum)
  <2> HIDE DEF P
  <2> QED BY <1>1
<1>3. SumOf(os, size) = sum[<<0, Len(os)>>]
  BY DEF SumOf
<1> HIDE DEF sum
<1>4. \A p \in D : sum[p] = SumBetween(os, size, sum, p[1], p[2])
  <2> HIDE DEF D
  <2> QED BY <1>2
<1> HIDE DEF P
<1>5. \A p \in D : sum[p] \in Sizes
  <2> DEFINE rank == [p \in D |-> IF p[2] - p[1] >= 0 THEN p[2] - p[1] ELSE 0]
             S == {rank[p] : p \in {q \in D : sum[q] \notin Sizes}}
  <2>1. \A p \in D : rank[p] \in Nat
    BY PlacesType
  <2>2. \A p, q \in D : q[2] - q[1] < p[2] - p[1] => rank[q] < rank[p] \/ q[2] <= q[1]
    BY PlacesType
  <2>3. \A q \in D : q[2] <= q[1] => sum[q] \in Sizes
    <3> SUFFICES ASSUME NEW q \in D, q[2] <= q[1] PROVE sum[q] \in Sizes
      OBVIOUS
    <3>1. sum[q] = [objects |-> 0, bytes |-> 0, refs |-> 0]
      BY <1>4 DEF SumBetween
    <3> QED BY <3>1, NoSize
  <2> HIDE DEF rank
  <2> SUFFICES ASSUME S # {} PROVE FALSE
    OBVIOUS
  <2>4. PICK n \in S : \A m \in S : n <= m
    <3>1. S \in SUBSET Nat
      BY <2>1
    <3> HIDE DEF S
    <3> QED BY <3>1, LeastNumber
  <2>5. PICK p \in D : n = rank[p] /\ sum[p] \notin Sizes
    BY <2>4
  <2>6. \A q \in D : q[2] - q[1] < p[2] - p[1] => sum[q] \in Sizes
    <3> SUFFICES ASSUME NEW q \in D, q[2] - q[1] < p[2] - p[1], sum[q] \notin Sizes PROVE FALSE
      OBVIOUS
    <3>1. rank[q] \in S
      OBVIOUS
    <3>2. rank[q] < rank[p]
      BY <2>2, <2>3
    <3>3. rank[p] <= rank[q] /\ rank[p] \in Nat /\ rank[q] \in Nat
      BY <2>1, <2>4, <2>5, <3>1
    <3> QED BY <3>2, <3>3
  <2>7. SumBetween(os, size, sum, p[1], p[2]) \in Sizes
    BY <2>6, PlacesType, SumBetweenType
  <2> QED BY <1>4, <2>5, <2>7
<1>6. sum \in [D -> Sizes]
  <2> HIDE DEF D
  <2>1. sum = [p \in D |-> SumBetween(os, size, sum, p[1], p[2])]
    BY <1>2 DEF P
  <2> QED BY <1>5, <2>1
<1> QED BY <1>3, <1>4, <1>6

(* The sum for objects that follow each other. *)
LEMMA SumOfType ==
  ASSUME NEW os \in Seq(Objects), NEW size \in [Objects -> Sizes]
  PROVE  SumOf(os, size) \in Sizes
<1>1. <<0, Len(os)>> \in Places(os)
  BY DEF Places
<1> QED BY <1>1, SumOfUnfolds

-----------------------------------------------------------------------------
(* An object's own bytes. *)

(* The sums for objects that follow each other depend only on those objects. *)
LEMMA SumOfLocal ==
  ASSUME NEW os \in Seq(Objects), NEW g, NEW h,
         \A j \in 1..Len(os) : g[os[j]] = h[os[j]]
  PROVE  SumOf(os, g) = SumOf(os, h)
<1> DEFINE D == Places(os)
           A(f) == [p \in D |-> SumBetween(os, g, f, p[1], p[2])]
           B(f) == [p \in D |-> SumBetween(os, h, f, p[1], p[2])]
<1>1. ASSUME NEW f PROVE A(f) = B(f)
  <2>1. ASSUME NEW p \in D
        PROVE  SumBetween(os, g, f, p[1], p[2]) = SumBetween(os, h, f, p[1], p[2])
    <3>1. p[1] \in 0..Len(os) /\ p[2] \in 0..Len(os)
      BY PlacesType
    <3>2. CASE p[2] = p[1] + 1
      <4>1. p[2] \in 1..Len(os)
        BY <3>1, <3>2
      <4> QED BY <4>1 DEF SumBetween
    <3>3. CASE p[2] # p[1] + 1
      BY <3>3 DEF SumBetween
    <3> QED BY <3>2, <3>3
  <2> HIDE DEF D
  <2> QED BY <2>1
<1>2. SumOf(os, g) = (CHOOSE f : f = A(f))[<<0, Len(os)>>]
  BY DEF SumOf
<1>3. SumOf(os, h) = (CHOOSE f : f = B(f))[<<0, Len(os)>>]
  BY DEF SumOf
<1> HIDE DEF A, B
<1>4. (CHOOSE f : f = A(f)) = (CHOOSE f : f = B(f))
  BY <1>1, Zenon
<1> QED BY <1>2, <1>3, <1>4

(* An octet is a byte. *)
LEMMA OctetType == \A c \in Octet : c \in Nat /\ c < 256 /\ Byte(c) \in Bytes
<1>1. \A c \in Octet : c \in Nat /\ c < 256
  BY DEF Octet
<1> QED BY <1>1 DEF Byte, Bytes

(* The lengths of what an object writes itself. *)
LEMMA HeadOfType ==
  ASSUME NEW type \in {"data", "string", "array", "dict"}, NEW n \in Nat
  PROVE  HeadOf(type, n) \in Seq(Bytes) /\ Len(HeadOf(type, n)) = HeadLength(n, Width(n))
<1>1. CASE n < 15
  <2>1. Tag(type, n) \in Bytes
    BY DEF Tag, Bytes
  <2> QED BY <1>1, <2>1 DEF HeadOf, HeadLength
<1>2. CASE ~(n < 15)
  <2> DEFINE w == Width(n)
             a == <<Tag(type, 15), Tag("integer", WidthLog(w))>>
             b == IntBytes(n, w)
  <2>1. w \in Widths
    BY WidthType
  <2> HIDE DEF w
  <2>2. Tag(type, 15) \in Bytes /\ Tag("integer", WidthLog(w)) \in Bytes
    BY <2>1, WidthLogType DEF Tag, Bytes
  <2>3. a \in Seq(Bytes) /\ Len(a) = 2
    BY <2>2
  <2>4. b \in Seq(Bytes) /\ Len(b) = w
    BY <2>1, IntBytesType
  <2>5. HeadOf(type, n) = a \o b
    BY <1>2 DEF HeadOf, w
  <2>6. HeadLength(n, w) = 2 + w
    BY <1>2 DEF HeadLength
  <2> HIDE DEF a, b
  <2>7. a \o b \in Seq(Bytes) /\ Len(a \o b) = Len(a) + Len(b)
    BY <2>3, <2>4, JoinedType
  <2> QED BY <2>3, <2>4, <2>5, <2>6, <2>7 DEF w
<1> QED BY <1>1, <1>2

(* bplist_analyze and bplist_serialize_object agree on what is an object's own. *)
LEMMA OwnType ==
  ASSUME NEW o \in Objects
  PROVE  /\ Own(o) \in Seq(Bytes)
         /\ Len(Own(o)) = OwnLength(o)
         /\ OwnLength(o) \in Nat \ {0}
<1>1. CASE o.type \in {"null", "primitive"}
  <2>1. o.type = "null" \/ o.code \in Nat
    BY <1>1, Kinds DEF TrueCode, FalseCode
  <2>2. Tag("primitive", 0) \in Bytes /\ (o.type = "primitive" => Tag("primitive", o.code) \in Bytes)
    BY <1>1, <2>1 DEF Tag, Bytes
  <2> QED BY <1>1, <2>2 DEF Own, OwnLength
<1>2. CASE o.type = "integer"
  <2> DEFINE w == Width(o.int)
             a == <<Tag("integer", WidthLog(w))>>
             b == IntBytes(o.int, w)
  <2>1. o.int \in Int
    BY <1>2, Kinds
  <2>2. w \in Widths
    BY <2>1, WidthType
  <2>3. Own(o) = a \o b /\ OwnLength(o) = 1 + w
    BY <1>2 DEF Own, OwnLength
  <2> HIDE DEF w
  <2>4. Tag("integer", WidthLog(w)) \in Bytes
    BY <2>2, WidthLogType DEF Tag, Bytes
  <2>5. a \in Seq(Bytes) /\ Len(a) = 1
    BY <2>4
  <2>6. b \in Seq(Bytes) /\ Len(b) = w
    BY <2>1, <2>2, IntBytesType
  <2>7. w \in Nat \ {0}
    BY <2>2 DEF Widths
  <2> HIDE DEF a, b
  <2>8. a \o b \in Seq(Bytes) /\ Len(a \o b) = Len(a) + Len(b)
    BY <2>5, <2>6, JoinedType
  <2>9. 1 + w \in Nat \ {0}
    BY <2>7
  <2> QED BY <2>3, <2>5, <2>6, <2>8, <2>9
<1>3. CASE o.type = "real"
  <2> DEFINE a == <<Tag("real", 3)>>
             b == [i \in 1..8 |-> Byte(o.order[9 - i])]
  <2>1. \A i \in 1..8 : o.order[9 - i] \in Octet
    BY <1>3, Kinds
  <2>2. \A i \in 1..8 : Byte(o.order[9 - i]) \in Bytes
    BY <2>1, OctetType
  <2>3. b \in Seq(Bytes) /\ Len(b) = 8
    BY <2>2
  <2>4. a \in Seq(Bytes) /\ Len(a) = 1
    BY DEF Tag, Bytes
  <2>5. Own(o) = a \o b /\ OwnLength(o) = 9
    BY <1>3 DEF Own, OwnLength
  <2> HIDE DEF a, b
  <2>6. a \o b \in Seq(Bytes) /\ Len(a \o b) = Len(a) + Len(b)
    BY <2>3, <2>4, JoinedType
  <2> QED BY <2>3, <2>4, <2>5, <2>6
<1>4. CASE o.type \in {"data", "string"}
  <2> DEFINE n == Len(o.chars)
             a == HeadOf(o.type, n)
             b == [i \in 1..n |-> Byte(o.chars[i])]
  <2>1. o.chars \in Seq(Octet) /\ n \in Nat
    BY <1>4, Kinds
  <2>2. \A i \in 1..n : Byte(o.chars[i]) \in Bytes
    BY <2>1, OctetType
  <2>3. b \in Seq(Bytes) /\ Len(b) = n
    BY <2>1, <2>2
  <2>4. a \in Seq(Bytes) /\ Len(a) = HeadLength(n, Width(n))
    BY <1>4, <2>1, HeadOfType
  <2>5. Own(o) = a \o b /\ OwnLength(o) = HeadLength(n, Width(n)) + n
    BY <1>4 DEF Own, OwnLength
  <2>6. HeadLength(n, Width(n)) \in Nat \ {0}
    BY <2>1, WidthType DEF HeadLength, Widths
  <2> HIDE DEF a, b
  <2>7. a \o b \in Seq(Bytes) /\ Len(a \o b) = Len(a) + Len(b)
    BY <2>3, <2>4, JoinedType
  <2>8. HeadLength(n, Width(n)) + n \in Nat \ {0}
    BY <2>1, <2>6
  <2> QED BY <2>3, <2>4, <2>5, <2>7, <2>8
<1>5. CASE o.type \in {"array", "dict"}
  <2> DEFINE n == Len(o.values)
  <2>1. n \in Nat
    BY <1>5, Kinds
  <2>2. Own(o) = HeadOf(o.type, n)
    BY <1>5 DEF Own
  <2>3. OwnLength(o) = HeadLength(n, Width(n))
    <3>1. CASE o.type = "array"
      BY <3>1 DEF OwnLength
    <3>2. CASE o.type = "dict"
      <4>1. Len(o.keys) = n /\ n <= 127
        BY <3>2, Kinds
      <4>2. OwnLength(o) = HeadLength(n, Width(2 * n))
        BY <3>2, <4>1 DEF OwnLength
      <4> HIDE DEF n
      <4>3. CASE n < 15
        BY <4>2, <4>3 DEF HeadLength
      <4>4. CASE ~(n < 15)
        BY <2>1, <4>1, <4>2, <4>4 DEF Width
      <4> QED BY <4>3, <4>4
    <3> QED BY <1>5, <3>1, <3>2
  <2>4. HeadLength(n, Width(n)) \in Nat \ {0}
    BY <2>1, WidthType DEF HeadLength, Widths
  <2>5. HeadOf(o.type, n) \in Seq(Bytes) /\ Len(HeadOf(o.type, n)) = HeadLength(n, Width(n))
    BY <1>5, <2>1, HeadOfType
  <2> QED BY <2>2, <2>3, <2>4, <2>5
<1> QED BY <1>1, <1>2, <1>3, <1>4, <1>5, Kinds

(* What bplist_analyze counts for an object. *)
LEMMA AnalyzeOneType ==
  ASSUME NEW o \in Objects, NEW size \in [Objects -> Sizes]
  PROVE  /\ AnalyzeOne(o, size) \in Sizes
         /\ SumOf(Children(o), size) \in Sizes
         /\ RefsOf(o) \in Nat
         /\ AnalyzeOne(o, size).objects = 1 + SumOf(Children(o), size).objects
         /\ AnalyzeOne(o, size).bytes = OwnLength(o) + SumOf(Children(o), size).bytes
         /\ AnalyzeOne(o, size).refs = RefsOf(o) + SumOf(Children(o), size).refs
<1>1. Children(o) \in Seq(Objects)
  BY ChildrenType
<1>2. RefsOf(o) \in Nat
  BY <1>1 DEF RefsOf
<1>3. SumOf(Children(o), size) \in Sizes
  BY <1>1, SumOfType
<1> DEFINE own == [objects |-> 1, bytes |-> OwnLength(o), refs |-> RefsOf(o)]
<1>4. own \in Sizes
  BY <1>2, OwnType DEF Sizes
<1>5. AnalyzeOne(o, size) = Sum(own, SumOf(Children(o), size))
  BY DEF AnalyzeOne
<1>6. own.objects = 1 /\ own.bytes = OwnLength(o) /\ own.refs = RefsOf(o)
  OBVIOUS
<1> HIDE DEF own
<1> QED BY <1>2, <1>3, <1>4, <1>5, <1>6, SumType

(* What bplist_analyze computes. *)
LEMMA AnalyzeUnfolds ==
  /\ Analyze \in [Objects -> Sizes]
  /\ \A o \in Objects : Analyze[o] = AnalyzeOne(o, Analyze)
<1> DEFINE G == [o \in Objects |-> [g \in [Objects -> Sizes] |-> AnalyzeOne(o, g)]]
<1>1. G \in [Objects -> [[Objects -> Sizes] -> Sizes]]
  BY AnalyzeOneType
<1>2. ASSUME NEW o \in Objects, NEW g \in [Objects -> Sizes], NEW h \in [Objects -> Sizes],
             \A c \in Objects : Nesting[c] < Nesting[o] => g[c] = h[c]
      PROVE  G[o][g] = G[o][h]
  <2>1. SumOf(Children(o), g) = SumOf(Children(o), h)
    <3>1. \A j \in 1..Len(Children(o)) : g[Children(o)[j]] = h[Children(o)[j]]
      BY <1>2, ChildrenType
    <3> QED BY <3>1, ChildrenType, SumOfLocal
  <2> QED BY <2>1 DEF AnalyzeOne
<1>3. Equations(Objects, Sizes, Nesting, G)
  <2>1. Sizes # {}
    BY NoSize
  <2> HIDE DEF G
  <2> QED BY <1>1, <1>2, <2>1, ObjectsAssumption DEF Equations
<1>4. Solvable(Objects, Sizes, G)
  BY <1>3, Recursion
<1>5. PICK f \in [Objects -> Sizes] : \A o \in Objects : f[o] = G[o][f]
  BY <1>4 DEF Solvable
<1>6. f = [o \in Objects |-> AnalyzeOne(o, f)]
  <2>1. \A o \in Objects : f[o] = AnalyzeOne(o, f)
    BY <1>5
  <2> QED BY <2>1
<1> DEFINE P(g) == g = [o \in Objects |-> AnalyzeOne(o, g)]
<1>7. Analyze = CHOOSE g : P(g)
  BY DEF Analyze
<1>8. P(Analyze)
  <2>1. P(f)
    BY <1>6
  <2> HIDE DEF P
  <2> QED BY <1>7, <2>1
<1>9. \A o \in Objects : Analyze[o] = AnalyzeOne(o, Analyze)
  BY <1>8
<1>10. \A o \in Objects : Analyze[o] = f[o]
  <2> DEFINE S == {Nesting[o] : o \in {c \in Objects : Analyze[c] # f[c]}}
  <2> SUFFICES ASSUME S # {} PROVE FALSE
    OBVIOUS
  <2>1. PICK n \in S : \A m \in S : n <= m
    <3>1. S \in SUBSET Nat
      BY ObjectsAssumption
    <3> HIDE DEF S
    <3> QED BY <3>1, LeastNumber
  <2>2. PICK o \in Objects : n = Nesting[o] /\ Analyze[o] # f[o]
    BY <2>1
  <2>3. \A c \in Objects : Nesting[c] < Nesting[o] => Analyze[c] = f[c]
    <3> SUFFICES ASSUME NEW c \in Objects, Nesting[c] < Nesting[o], Analyze[c] # f[c] PROVE FALSE
      OBVIOUS
    <3>1. Nesting[c] \in S
      OBVIOUS
    <3>2. Nesting[o] <= Nesting[c] /\ Nesting[o] \in Nat /\ Nesting[c] \in Nat
      BY <2>1, <2>2, <3>1, ObjectsAssumption
    <3> QED BY <3>2
  <2>4. SumOf(Children(o), Analyze) = SumOf(Children(o), f)
    <3>1. \A j \in 1..Len(Children(o)) : Analyze[Children(o)[j]] = f[Children(o)[j]]
      BY <2>3, ChildrenType
    <3> QED BY <3>1, ChildrenType, SumOfLocal
  <2>5. AnalyzeOne(o, Analyze) = AnalyzeOne(o, f)
    BY <2>4 DEF AnalyzeOne
  <2>6. f[o] = AnalyzeOne(o, f)
    BY <1>5
  <2> QED BY <1>9, <2>2, <2>5, <2>6
<1>11. Analyze \in [Objects -> Sizes]
  <2>1. Analyze = [o \in Objects |-> AnalyzeOne(o, Analyze)]
    BY <1>8
  <2>2. \A o \in Objects : AnalyzeOne(o, Analyze) \in Sizes
    BY <1>9, <1>10
  <2> QED BY <2>1, <2>2
<1> QED BY <1>9, <1>11

-----------------------------------------------------------------------------
(* Tables of numbers. *)

(* The position of a byte in a table of numbers. *)
LEMMA TableIndex ==
  ASSUME NEW w \in Widths
  PROVE  /\ \A n \in Nat, j \in Nat : j >= 1 /\ j <= w * n =>
              /\ (j - 1) \div w + 1 \in 1..n
              /\ ((j - 1) % w) + 1 \in 1..w
         /\ \A i \in Nat, k \in Nat : i >= 1 /\ k >= 1 /\ k <= w =>
              /\ ((w * (i - 1) + k) - 1) \div w + 1 = i
              /\ (((w * (i - 1) + k) - 1) % w) + 1 = k
<1>1. CASE w = 1
  BY <1>1
<1>2. CASE w = 2
  BY <1>2
<1>3. CASE w = 4
  BY <1>3
<1>4. CASE w = 8
  BY <1>4
<1> QED BY <1>1, <1>2, <1>3, <1>4 DEF Widths

(* How far a table of numbers reaches. *)
LEMMA TableLength ==
  ASSUME NEW w \in Widths, NEW a \in Nat, NEW b \in Nat
  PROVE  /\ w * a \in Nat
         /\ w * (a + b) = w * a + w * b
         /\ a * w = w * a
         /\ a <= w * a
         /\ a <= b => w * a <= w * b
         /\ a < b => w * a + w <= w * b
<1>1. CASE w = 1
  BY <1>1
<1>2. CASE w = 2
  BY <1>2
<1>3. CASE w = 4
  BY <1>3
<1>4. CASE w = 8
  BY <1>4
<1> QED BY <1>1, <1>2, <1>3, <1>4 DEF Widths

(* That as many numbers of width w take as much together. *)
TakesBoth(w, a, b) == w * (a + b) = w * a + w * b /\ w * a \in Nat /\ w * b \in Nat

(* The length of two tables. *)
LEMMA TablesLength ==
  ASSUME NEW w \in Widths, NEW a \in Nat, NEW b \in Nat
  PROVE  TakesBoth(w, a, b)
BY TableLength DEF TakesBoth

(* A table holds the bytes of its numbers, one number after the other. *)
LEMMA IntTableType ==
  ASSUME NEW w \in Widths, NEW ns \in Seq(Nat)
  PROVE  /\ IntTable(ns, w) \in Seq(Bytes)
         /\ Len(IntTable(ns, w)) = w * Len(ns)
<1> DEFINE n == w * Len(ns)
           byte(k) == IntBytes(ns[(k - 1) \div w + 1], w)[((k - 1) % w) + 1]
<1>1. n \in Nat
  BY TableLength
<1>2. ASSUME NEW k \in 1..n PROVE byte(k) \in Bytes
  <2>1. (k - 1) \div w + 1 \in 1..Len(ns) /\ ((k - 1) % w) + 1 \in 1..w
    <3>1. Len(ns) \in Nat /\ k \in Nat /\ k >= 1 /\ k <= w * Len(ns)
      BY <1>1
    <3> QED BY <3>1, TableIndex
  <2> DEFINE i == (k - 1) \div w + 1
             j == ((k - 1) % w) + 1
  <2> HIDE DEF i, j
  <2>2. i \in 1..Len(ns) /\ j \in 1..w
    BY <2>1 DEF i, j
  <2>3. ns[i] \in Int
    BY <2>2
  <2>4. IntBytes(ns[i], w) \in Seq(Bytes) /\ Len(IntBytes(ns[i], w)) = w
    BY <2>3, IntBytesType
  <2>5. IntBytes(ns[i], w)[j] \in Bytes
    BY <2>2, <2>4
  <2> QED BY <2>5 DEF i, j
<1>3. IntTable(ns, w) = [k \in 1..n |-> byte(k)]
  BY DEF IntTable
<1> HIDE DEF n, byte
<1>4. IntTable(ns, w) \in Seq(Bytes) /\ Len(IntTable(ns, w)) = n
  BY <1>1, <1>2, <1>3
<1> QED BY <1>4 DEF n

(* The bytes of each number of a table. *)
LEMMA IntTableValues ==
  ASSUME NEW w \in Widths, NEW ns \in Seq(Nat), NEW i \in 1..Len(ns), NEW k \in 1..w
  PROVE  /\ w * (i - 1) + k \in 1..(w * Len(ns))
         /\ IntTable(ns, w)[w * (i - 1) + k] = IntBytes(ns[i], w)[k]
<1> DEFINE j == w * (i - 1) + k
<1>0. i \in Nat /\ i >= 1 /\ k \in Nat /\ k >= 1 /\ k <= w /\ i - 1 \in Nat /\ Len(ns) \in Nat
      /\ i - 1 < Len(ns)
  BY DEF Widths
<1>1. j \in 1..(w * Len(ns))
  <2>1. w * (i - 1) \in Nat /\ w * (i - 1) + w <= w * Len(ns) /\ w * Len(ns) \in Nat
    BY <1>0, TableLength
  <2> DEFINE x == w * (i - 1)
             y == w * Len(ns)
  <2> HIDE DEF x, y
  <2>2. x \in Nat /\ y \in Nat /\ x + w <= y /\ w \in Nat
    BY <2>1 DEF x, y, Widths
  <2>3. x + k \in 1..y
    BY <1>0, <2>2
  <2> QED BY <2>3 DEF x, y
<1>2. (j - 1) \div w + 1 = i /\ ((j - 1) % w) + 1 = k
  BY <1>0, TableIndex
<1> HIDE DEF j
<1>3. IntTable(ns, w)[j] = IntBytes(ns[(j - 1) \div w + 1], w)[((j - 1) % w) + 1]
  BY <1>1 DEF IntTable
<1>4. IntTable(ns, w)[j] = IntBytes(ns[i], w)[k]
  BY <1>2, <1>3
<1> QED BY <1>1, <1>4 DEF j

(* The references of an object are its numbers in some order. *)
LEMMA RefsOfDict ==
  ASSUME NEW o \in Objects, o.type = "dict"
  PROVE  /\ RefsOf(o) = 2 * Len(o.keys) /\ Len(o.keys) \in Nat
         /\ \A i \in 1..Len(o.keys) :
              /\ Children(o)[2 * i - 1] = Text("string", o.keys[i])
              /\ Children(o)[2 * i] = o.values[i]
<1> DEFINE n == Len(o.keys)
           f == [j \in 1..2 * n |-> IF j % 2 = 1 THEN Text("string", o.keys[(j + 1) \div 2])
                                    ELSE o.values[j \div 2]]
<1>1. n \in Nat
  BY Kinds
<1>2. Children(o) = f
  BY DEF Children
<1> HIDE DEF n
<1>3. Len(f) = 2 * n
  BY <1>1
<1>4. ASSUME NEW i \in 1..n
      PROVE  f[2 * i - 1] = Text("string", o.keys[i]) /\ f[2 * i] = o.values[i]
  <2>1. 2 * i - 1 \in 1..2 * n /\ (2 * i - 1) % 2 = 1 /\ ((2 * i - 1) + 1) \div 2 = i
    BY <1>1
  <2>2. 2 * i \in 1..2 * n /\ (2 * i) % 2 # 1 /\ (2 * i) \div 2 = i
    BY <1>1
  <2> QED BY <2>1, <2>2
<1> HIDE DEF f
<1>5. RefsOf(o) = 2 * n
  BY <1>2, <1>3 DEF RefsOf
<1>6. \A i \in 1..n :
        Children(o)[2 * i - 1] = Text("string", o.keys[i]) /\ Children(o)[2 * i] = o.values[i]
  BY <1>2, <1>4
<1> QED BY <1>1, <1>5, <1>6 DEF n

(* The references of an object are as many in either order. *)
LEMMA RefOrderType ==
  ASSUME NEW o \in Objects, NEW ids \in Seq(Nat), Len(ids) = RefsOf(o)
  PROVE  RefOrder(o, ids) \in Seq(Nat) /\ Len(RefOrder(o, ids)) = RefsOf(o)
<1>1. CASE o.type # "dict"
  BY <1>1 DEF RefOrder
<1>2. CASE o.type = "dict"
  <2> DEFINE n == Len(o.keys)
             r(j) == IF j <= n THEN ids[2 * j - 1] ELSE ids[2 * (j - n)]
  <2>1. n \in Nat /\ Len(ids) = 2 * n
    BY <1>2, RefsOfDict
  <2> HIDE DEF n
  <2>2. ASSUME NEW j \in 1..2 * n PROVE r(j) \in Nat
    <3>1. CASE j <= n
      <4>1. 2 * j - 1 \in 1..Len(ids)
        BY <2>1, <3>1
      <4>2. ids[2 * j - 1] \in Nat
        BY <4>1
      <4> QED BY <3>1, <4>2
    <3>2. CASE ~(j <= n)
      <4>1. 2 * (j - n) \in 1..Len(ids)
        BY <2>1, <3>2
      <4>2. ids[2 * (j - n)] \in Nat
        BY <4>1
      <4> QED BY <3>2, <4>2
    <3> QED BY <3>1, <3>2
  <2>3. RefOrder(o, ids) = [j \in 1..2 * n |-> r(j)]
    BY <1>2, <2>1 DEF RefOrder, n
  <2> HIDE DEF r
  <2>4. RefOrder(o, ids) \in Seq(Nat) /\ Len(RefOrder(o, ids)) = 2 * n
    BY <2>1, <2>2, <2>3
  <2> QED BY <2>1, <2>4
<1> QED BY <1>1, <1>2

-----------------------------------------------------------------------------
(* What is written for objects that follow each other. *)

(* What is written for one object, and for those that follow each other. *)
Written == [bytes : Seq(Bytes), offsets : Seq(Nat)]
Part    == [bytes : Seq(Bytes), offsets : Seq(Nat), ids : Seq(Nat)]

Spots == Objects \X Nat \X Nat

(* The parts of what is written for an object. *)
LEMMA WrittenType ==
  ASSUME NEW x \in Written
  PROVE  /\ x.bytes \in Seq(Bytes) /\ x.offsets \in Seq(Nat)
         /\ Len(x.bytes) \in Nat /\ Len(x.offsets) \in Nat
BY DEF Written

(* The parts of what is written for several. *)
LEMMA PartType ==
  ASSUME NEW x \in Part
  PROVE  /\ x.bytes \in Seq(Bytes) /\ x.offsets \in Seq(Nat) /\ x.ids \in Seq(Nat)
         /\ Len(x.bytes) \in Nat /\ Len(x.offsets) \in Nat /\ Len(x.ids) \in Nat
BY DEF Part

NoPart == [bytes |-> <<>>, offsets |-> <<>>, ids |-> <<>>]

(* Nothing is written for none. *)
LEMMA NoPartType == NoPart \in Part /\ NoPart.ids = <<>>
BY DEF NoPart, Part

(* The numbers of two parts, one after the other. *)
Both(a, b) ==
  [bytes |-> a.bytes \o b.bytes, offsets |-> a.offsets \o b.offsets, ids |-> a.ids \o b.ids]

(* What is written for two halves. *)
LEMMA BothType ==
  ASSUME NEW a \in Part, NEW b \in Part
  PROVE  /\ Both(a, b) \in Part
         /\ Both(a, b).bytes = a.bytes \o b.bytes
         /\ Both(a, b).offsets = a.offsets \o b.offsets
         /\ Both(a, b).ids = a.ids \o b.ids
         /\ Len(Both(a, b).bytes) = Len(a.bytes) + Len(b.bytes)
         /\ Len(Both(a, b).offsets) = Len(a.offsets) + Len(b.offsets)
         /\ Len(Both(a, b).ids) = Len(a.ids) + Len(b.ids)
<1>1. /\ a.bytes \o b.bytes \in Seq(Bytes) /\ Len(a.bytes \o b.bytes) = Len(a.bytes) + Len(b.bytes)
  BY PartType, JoinedType
<1>2. /\ a.offsets \o b.offsets \in Seq(Nat)
      /\ Len(a.offsets \o b.offsets) = Len(a.offsets) + Len(b.offsets)
  BY PartType, JoinedType
<1>3. a.ids \o b.ids \in Seq(Nat) /\ Len(a.ids \o b.ids) = Len(a.ids) + Len(b.ids)
  BY PartType, JoinedType
<1> QED BY <1>1, <1>2, <1>3 DEF Both, Part

(* What a pair of places, a position and a number are. *)
LEMMA PartsType ==
  ASSUME NEW os \in Seq(Objects), NEW p \in Parts(os)
  PROVE  /\ p[1] \in 0..Len(os) /\ p[2] \in 0..Len(os)
         /\ p = <<p[1], p[2], p[3], p[4]>>
         /\ p[1] \in Nat /\ p[2] \in Nat /\ p[3] \in Nat /\ p[4] \in Nat /\ Len(os) \in Nat
BY DEF Parts

(* Nearer places have a smaller distance, though no distance is negative. *)
LEMMA NearerPlaces ==
  ASSUME NEW os \in Seq(Objects), NEW p \in Parts(os), NEW q \in Parts(os),
         q[2] - q[1] < p[2] - p[1], q[1] < q[2]
  PROVE  (IF q[2] - q[1] >= 0 THEN q[2] - q[1] ELSE 0) < (IF p[2] - p[1] >= 0 THEN p[2] - p[1] ELSE 0)
<1>1. p[1] \in Nat /\ p[2] \in Nat /\ q[1] \in Nat /\ q[2] \in Nat
  BY PartsType
<1> QED BY <1>1

(* That mid lies between lo and hi. *)
IsMiddle(os, lo, mid, hi) ==
  /\ mid \in 0..Len(os) /\ lo < mid /\ mid < hi
  /\ mid - lo < hi - lo /\ hi - mid < hi - lo
  /\ \A a, i \in Nat : <<lo, mid, a, i>> \in Parts(os) /\ <<mid, hi, a, i>> \in Parts(os)

(* The two halves of what is written between two places. *)
LEMMA WriteHalves ==
  ASSUME NEW os \in Seq(Objects), NEW lo \in 0..Len(os), NEW hi \in 0..Len(os),
         ~(hi <= lo), hi # lo + 1
  PROVE  IsMiddle(os, lo, (lo + hi) \div 2, hi)
<1> DEFINE mid == (lo + hi) \div 2
<1>1. mid \in Nat /\ lo < mid /\ mid < hi /\ lo \in Nat /\ hi \in Nat /\ hi <= Len(os)
  BY Halves
<1>2. mid \in 0..Len(os) /\ mid - lo < hi - lo /\ hi - mid < hi - lo
  BY <1>1
<1> QED BY <1>1, <1>2 DEF IsMiddle, Parts

WriteHalf(os, part, lo, hi, at, id) ==
  LET mid == (lo + hi) \div 2
      a   == part[<<lo, mid, at, id>>]
  IN Both(a, part[<<mid, hi, at + Len(a.bytes), id + Len(a.offsets)>>])

(* What is written for one object among others. *)
WriteOne(os, written, hi, at, id) ==
  [bytes   |-> written[<<os[hi], at, id>>].bytes,
   offsets |-> written[<<os[hi], at, id>>].offsets, ids |-> <<id>>]

(* What is written for no object, for one, and for more. *)
LEMMA WriteNone ==
  ASSUME NEW os, NEW written, NEW part, NEW lo, NEW hi, NEW at, NEW id, hi <= lo
  PROVE  WriteBetween(os, written, part, lo, hi, at, id) = NoPart
BY DEF WriteBetween, NoPart

(* The same for one. *)
LEMMA WriteSingle ==
  ASSUME NEW os, NEW written, NEW part, NEW lo, NEW hi, NEW at, NEW id, ~(hi <= lo), hi = lo + 1
  PROVE  WriteBetween(os, written, part, lo, hi, at, id) = WriteOne(os, written, hi, at, id)
BY DEF WriteBetween, WriteOne

(* One object is all there is between lo and hi. *)
Adjacent(lo, hi) == ~(hi <= lo) /\ hi = lo + 1

(* What is written for one object does not depend on the parts. *)
LEMMA WriteAdjacent ==
  ASSUME NEW os, NEW written, NEW part, NEW lo, NEW hi, NEW at, NEW id, Adjacent(lo, hi)
  PROVE  WriteBetween(os, written, part, lo, hi, at, id) = WriteOne(os, written, hi, at, id)
BY WriteSingle DEF Adjacent

(* The same for more. *)
LEMMA WriteTwoHalves ==
  ASSUME NEW os, NEW written, NEW part, NEW lo, NEW hi, NEW at, NEW id, ~(hi <= lo), hi # lo + 1
  PROVE  WriteBetween(os, written, part, lo, hi, at, id) = WriteHalf(os, part, lo, hi, at, id)
BY DEF WriteBetween, WriteHalf, Both

(* What is written between two places is a part if halves are. *)
LEMMA WriteBetweenType ==
  ASSUME NEW os \in Seq(Objects), NEW written \in [Spots -> Written], NEW part,
         NEW lo \in 0..Len(os), NEW hi \in 0..Len(os), NEW at \in Nat, NEW id \in Nat,
         \A p \in Parts(os) : p[2] - p[1] < hi - lo => part[p] \in Part
  PROVE  WriteBetween(os, written, part, lo, hi, at, id) \in Part
<1> DEFINE all == WriteBetween(os, written, part, lo, hi, at, id)
<1>1. CASE hi <= lo
  <2>1. all = NoPart
    BY <1>1 DEF WriteBetween, NoPart
  <2> QED BY <2>1, NoPartType
<1>2. CASE ~(hi <= lo) /\ hi = lo + 1
  <2>1. hi \in 1..Len(os)
    BY <1>2
  <2>2. <<os[hi], at, id>> \in Spots
    BY <2>1 DEF Spots
  <2> DEFINE one == written[<<os[hi], at, id>>]
  <2>3. one \in Written
    BY <2>2
  <2>4. all = [bytes |-> one.bytes, offsets |-> one.offsets, ids |-> <<id>>]
    BY <1>2 DEF WriteBetween
  <2> HIDE DEF one, all
  <2>5. one.bytes \in Seq(Bytes) /\ one.offsets \in Seq(Nat) /\ <<id>> \in Seq(Nat)
    BY <2>3, WrittenType
  <2>6. all \in Part
    BY <2>4, <2>5 DEF Part
  <2> QED BY <2>6 DEF all
<1>3. CASE ~(hi <= lo) /\ hi # lo + 1
  <2> DEFINE mid == (lo + hi) \div 2
             a == part[<<lo, mid, at, id>>]
             b == part[<<mid, hi, at + Len(a.bytes), id + Len(a.offsets)>>]
  <2>1. /\ mid - lo < hi - lo /\ hi - mid < hi - lo
        /\ \A x, i \in Nat : <<lo, mid, x, i>> \in Parts(os) /\ <<mid, hi, x, i>> \in Parts(os)
    <3>1. IsMiddle(os, lo, mid, hi)
      BY <1>3, WriteHalves
    <3> QED BY <3>1 DEF IsMiddle
  <2>2. all = Both(a, b)
    <3>1. all = WriteHalf(os, part, lo, hi, at, id)
      BY <1>3, WriteTwoHalves
    <3> QED BY <3>1 DEF WriteHalf
  <2> HIDE DEF mid, all
  <2>3. a \in Part
    BY <2>1
  <2>4. at + Len(a.bytes) \in Nat /\ id + Len(a.offsets) \in Nat
    <3> HIDE DEF a
    <3>1. Len(a.bytes) \in Nat /\ Len(a.offsets) \in Nat
      BY <2>3, PartType
    <3>2. \A i, j \in Nat : i + j \in Nat
      OBVIOUS
    <3> QED BY <3>1, <3>2
  <2>5. b \in Part
    BY <2>1, <2>4
  <2> HIDE DEF a, b
  <2>6. all \in Part
    BY <2>2, <2>3, <2>5, BothType
  <2> QED BY <2>6 DEF all
<1> QED BY <1>1, <1>2, <1>3

(* What g and h say of places that are less than n apart. *)
SameBelow(os, g, h, n) ==
  \A p \in Parts(os) : p[2] - p[1] < n /\ p[1] < p[2] => g[p] = h[p] /\ g[p] \in Part

(* What is written between two places depends only on the halves. *)
LEMMA WriteBetweenLocal ==
  ASSUME NEW os \in Seq(Objects), NEW written, NEW g, NEW h,
         NEW lo \in 0..Len(os), NEW hi \in 0..Len(os), NEW at \in Nat, NEW id \in Nat,
         SameBelow(os, g, h, hi - lo)
  PROVE  WriteBetween(os, written, g, lo, hi, at, id) = WriteBetween(os, written, h, lo, hi, at, id)
<1>1. CASE hi <= lo
  BY <1>1, WriteNone
<1>2. CASE ~(hi <= lo) /\ hi = lo + 1
  <2>1. Adjacent(lo, hi)
    BY <1>2 DEF Adjacent
  <2> HIDE <1>2
  <2> QED BY <2>1, WriteAdjacent
<1>3. CASE ~(hi <= lo) /\ hi # lo + 1
  <2> DEFINE mid == (lo + hi) \div 2
             a == g[<<lo, mid, at, id>>]
             q == <<mid, hi, at + Len(a.bytes), id + Len(a.offsets)>>
  <2>1. /\ mid - lo < hi - lo /\ hi - mid < hi - lo /\ lo < mid /\ mid < hi
        /\ \A x, i \in Nat : <<lo, mid, x, i>> \in Parts(os) /\ <<mid, hi, x, i>> \in Parts(os)
    <3>1. IsMiddle(os, lo, mid, hi)
      BY <1>3, WriteHalves
    <3> QED BY <3>1 DEF IsMiddle
  <2>2. WriteHalf(os, g, lo, hi, at, id) = Both(a, g[q])
    BY DEF WriteHalf
  <2>3. WriteHalf(os, h, lo, hi, at, id) =
          Both(h[<<lo, mid, at, id>>],
               h[<<mid, hi, at + Len(h[<<lo, mid, at, id>>].bytes),
                   id + Len(h[<<lo, mid, at, id>>].offsets)>>])
    BY DEF WriteHalf
  <2> HIDE DEF mid
  <2>4. a = h[<<lo, mid, at, id>>] /\ a \in Part
    BY <2>1 DEF SameBelow
  <2>5. at + Len(a.bytes) \in Nat /\ id + Len(a.offsets) \in Nat
    <3> HIDE DEF a
    <3>1. Len(a.bytes) \in Nat /\ Len(a.offsets) \in Nat
      BY <2>4, PartType
    <3>2. \A i, j \in Nat : i + j \in Nat
      OBVIOUS
    <3> QED BY <3>1, <3>2
  <2>6. g[q] = h[q]
    BY <2>1, <2>5 DEF SameBelow
  <2> HIDE DEF a
  <2>7. WriteHalf(os, g, lo, hi, at, id) = WriteHalf(os, h, lo, hi, at, id)
    BY <2>2, <2>3, <2>4, <2>6
  <2> QED BY <1>3, <2>7, WriteTwoHalves
<1> QED BY <1>1, <1>2, <1>3

(* The recursion over places, positions and numbers has a solution. *)
LEMMA WriteExists ==
  ASSUME NEW os \in Seq(Objects), NEW written \in [Spots -> Written]
  PROVE  \E f \in [Parts(os) -> Part] :
           f = [p \in Parts(os) |-> WriteBetween(os, written, f, p[1], p[2], p[3], p[4])]
<1> DEFINE D == Parts(os)
           W(g, p) == WriteBetween(os, written, g, p[1], p[2], p[3], p[4])
           rank == [p \in D |-> IF p[2] - p[1] >= 0 THEN p[2] - p[1] ELSE 0]
           G == [p \in D |-> [g \in [D -> Part] |-> W(g, p)]]
<1>1. rank \in [D -> Nat]
  BY PartsType
<1>2. G \in [D -> [[D -> Part] -> Part]]
  <2>1. ASSUME NEW p \in D, NEW g \in [D -> Part] PROVE W(g, p) \in Part
    BY PartsType, WriteBetweenType
  <2> HIDE DEF W
  <2> QED BY <2>1
<1>3. ASSUME NEW p \in D, NEW g \in [D -> Part], NEW h \in [D -> Part],
             \A q \in D : rank[q] < rank[p] => g[q] = h[q]
      PROVE  G[p][g] = G[p][h]
  <2>1. W(g, p) = W(h, p)
    <3>1. ASSUME NEW q \in D, q[2] - q[1] < p[2] - p[1], q[1] < q[2] PROVE rank[q] < rank[p]
      <4>1. q[1] \in Nat /\ q[2] \in Nat /\ p[1] \in Nat /\ p[2] \in Nat
        BY PartsType
      <4> QED BY <3>1, <4>1
    <3> HIDE DEF rank, G
    <3>2. p[1] \in 0..Len(os) /\ p[2] \in 0..Len(os) /\ p[3] \in Nat /\ p[4] \in Nat
      BY PartsType
    <3>3. \A q \in D : q[2] - q[1] < p[2] - p[1] /\ q[1] < q[2] => g[q] = h[q] /\ g[q] \in Part
      BY <1>3, <3>1
    <3>4. SameBelow(os, g, h, p[2] - p[1])
      BY <3>3 DEF SameBelow
    <3> QED BY <3>2, <3>4, WriteBetweenLocal
  <2> HIDE DEF W
  <2> QED BY <2>1
<1>4. Solvable(D, Part, G)
  <2> HIDE DEF D, rank, G
  <2>1. Part # {}
    BY NoPartType
  <2>2. Equations(D, Part, rank, G)
    BY <1>1, <1>2, <1>3, <2>1 DEF Equations
  <2> QED BY <2>2, Recursion
<1>5. PICK f \in [D -> Part] : \A p \in D : f[p] = G[p][f]
  BY <1>4 DEF Solvable
<1>6. \A p \in D : f[p] = W(f, p)
  <2> HIDE DEF W
  <2> QED BY <1>5
<1>7. f = [p \in D |-> W(f, p)]
  <2> HIDE DEF D, W
  <2> QED BY <1>6
<1> QED BY <1>7

(* The parts that InTurn chooses. *)
LEMMA InTurnUnfolds ==
  ASSUME NEW os \in Seq(Objects), NEW written \in [Spots -> Written]
  PROVE  \E part \in [Parts(os) -> Part] :
           /\ \A p \in Parts(os) :
                part[p] = WriteBetween(os, written, part, p[1], p[2], p[3], p[4])
           /\ \A at, id \in Nat : InTurn(os, written, at, id) = part[<<0, Len(os), at, id>>]
<1> DEFINE D == Parts(os)
           W(g, p) == WriteBetween(os, written, g, p[1], p[2], p[3], p[4])
           P(g) == g = [p \in D |-> W(g, p)]
           part == CHOOSE g : P(g)
<1>1. PICK f \in [D -> Part] : P(f)
  BY WriteExists
<1>2. P(part)
  <2> HIDE DEF P
  <2> QED BY <1>1
<1>3. \A at, id \in Nat : InTurn(os, written, at, id) = part[<<0, Len(os), at, id>>]
  BY DEF InTurn
<1> HIDE DEF part
<1>4. \A p \in D : part[p] = W(part, p)
  <2> HIDE DEF D, W
  <2> QED BY <1>2
<1>5. \A p \in D : f[p] = W(f, p)
  <2> HIDE DEF D, W
  <2> QED BY <1>1
<1>6. \A p \in D : part[p] = f[p]
  <2> DEFINE rank == [p \in D |-> IF p[2] - p[1] >= 0 THEN p[2] - p[1] ELSE 0]
             S == {rank[p] : p \in {q \in D : part[q] # f[q]}}
  <2> HIDE DEF P
  <2>1. \A p \in D : rank[p] \in Nat
    BY PartsType
  <2>2. \A p, q \in D : q[2] - q[1] < p[2] - p[1] /\ q[1] < q[2] => rank[q] < rank[p]
    BY NearerPlaces
  <2> HIDE DEF rank, D, W
  <2> SUFFICES ASSUME S # {} PROVE FALSE
    OBVIOUS
  <2>3. PICK n \in S : \A m \in S : n <= m
    <3>1. S \in SUBSET Nat
      BY <2>1
    <3> HIDE DEF S
    <3> QED BY <3>1, LeastNumber
  <2>4. PICK p \in D : n = rank[p] /\ part[p] # f[p]
    BY <2>3
  <2>5. \A q \in D : q[2] - q[1] < p[2] - p[1] /\ q[1] < q[2] => f[q] = part[q] /\ f[q] \in Part
    <3> SUFFICES ASSUME NEW q \in D, q[2] - q[1] < p[2] - p[1], q[1] < q[2], f[q] # part[q]
                 PROVE  FALSE
      OBVIOUS
    <3>1. rank[q] \in S
      OBVIOUS
    <3>2. rank[q] < rank[p]
      BY <2>2
    <3>3. rank[p] <= rank[q] /\ rank[p] \in Nat /\ rank[q] \in Nat
      BY <2>1, <2>3, <2>4, <3>1
    <3> QED BY <3>2, <3>3
  <2>6. W(f, p) = W(part, p)
    <3>1. p[1] \in 0..Len(os) /\ p[2] \in 0..Len(os) /\ p[3] \in Nat /\ p[4] \in Nat
      BY PartsType DEF D
    <3>2. SameBelow(os, f, part, p[2] - p[1])
      BY <2>5 DEF SameBelow, D
    <3> QED BY <3>1, <3>2, WriteBetweenLocal DEF W
  <2> QED BY <1>4, <1>5, <2>4, <2>6
<1>7. part \in [D -> Part]
  <2>1. part = [p \in D |-> W(part, p)]
    BY <1>2
  <2>2. \A p \in D : W(part, p) \in Part
    <3> HIDE DEF D, W, P
    <3> QED BY <1>4, <1>6
  <2> HIDE DEF D, W, P
  <2> QED BY <2>1, <2>2
<1> HIDE DEF P
<1> QED BY <1>3, <1>4, <1>7

(* There are as many numbers as objects. *)
LEMMA IdsLength ==
  ASSUME NEW os \in Seq(Objects), NEW written \in [Spots -> Written],
         NEW part \in [Parts(os) -> Part],
         \A p \in Parts(os) : part[p] = WriteBetween(os, written, part, p[1], p[2], p[3], p[4])
  PROVE  \A p \in Parts(os) : Len(part[p].ids) = IF p[2] <= p[1] THEN 0 ELSE p[2] - p[1]
<1> DEFINE D == Parts(os)
           rank == [p \in D |-> IF p[2] - p[1] >= 0 THEN p[2] - p[1] ELSE 0]
           Good(p) == Len(part[p].ids) = IF p[2] <= p[1] THEN 0 ELSE p[2] - p[1]
           S == {rank[p] : p \in {q \in D : ~Good(q)}}
<1>1. \A p \in D : rank[p] \in Nat
  BY PartsType
<1>2. \A p, q \in D : q[2] - q[1] < p[2] - p[1] /\ q[1] < q[2] => rank[q] < rank[p]
  BY NearerPlaces
<1> HIDE DEF rank, Good
<1> SUFFICES ASSUME S # {} PROVE FALSE
  BY DEF Good
<1>3. PICK n \in S : \A m \in S : n <= m
  <2>1. S \in SUBSET Nat
    BY <1>1
  <2> HIDE DEF S
  <2> QED BY <2>1, LeastNumber
<1>4. PICK p \in D : n = rank[p] /\ ~Good(p)
  BY <1>3
<1>5. ASSUME NEW q \in D, q[2] - q[1] < p[2] - p[1], q[1] < q[2] PROVE Good(q)
  <2> SUFFICES ASSUME ~Good(q) PROVE FALSE
    OBVIOUS
  <2>1. rank[q] \in S
    OBVIOUS
  <2>2. rank[q] < rank[p]
    BY <1>2, <1>5
  <2>3. rank[p] <= rank[q] /\ rank[p] \in Nat /\ rank[q] \in Nat
    BY <1>1, <1>3, <1>4, <2>1
  <2> QED BY <2>2, <2>3
<1> DEFINE lo == p[1]
           hi == p[2]
           at == p[3]
           id == p[4]
<1>6. /\ lo \in 0..Len(os) /\ hi \in 0..Len(os) /\ at \in Nat /\ id \in Nat
      /\ lo \in Nat /\ hi \in Nat
  BY PartsType
<1>7. part[p] = WriteBetween(os, written, part, lo, hi, at, id)
  OBVIOUS
<1>8. CASE hi <= lo
  <2>1. part[p] = NoPart
    BY <1>7, <1>8, WriteNone
  <2> QED BY <1>4, <1>8, <2>1, NoPartType DEF Good
<1>9. CASE ~(hi <= lo) /\ hi = lo + 1
  <2>1. part[p].ids = <<id>>
    <3> DEFINE one == written[<<os[hi], at, id>>]
    <3>1. part[p] = [bytes |-> one.bytes, offsets |-> one.offsets, ids |-> <<id>>]
      BY <1>7, <1>9, WriteSingle DEF WriteOne
    <3> HIDE DEF one, id
    <3> QED BY <3>1
  <2>2. Len(part[p].ids) = 1
    BY <2>1
  <2> QED BY <1>4, <1>6, <1>9, <2>2 DEF Good
<1>10. CASE ~(hi <= lo) /\ hi # lo + 1
  <2> DEFINE mid == (lo + hi) \div 2
             a == part[<<lo, mid, at, id>>]
             b == part[<<mid, hi, at + Len(a.bytes), id + Len(a.offsets)>>]
  <2>1. /\ mid - lo < hi - lo /\ hi - mid < hi - lo /\ mid \in 0..Len(os) /\ lo < mid /\ mid < hi
        /\ \A x, i \in Nat : <<lo, mid, x, i>> \in Parts(os) /\ <<mid, hi, x, i>> \in Parts(os)
    <3>1. IsMiddle(os, lo, mid, hi)
      BY <1>6, <1>10, WriteHalves
    <3> QED BY <3>1 DEF IsMiddle
  <2>2. part[p] = Both(a, b)
    BY <1>7, <1>10, WriteTwoHalves DEF WriteHalf
  <2> HIDE DEF mid, lo, hi, at, id
  <2>3. <<lo, mid, at, id>> \in D /\ a \in Part
    BY <1>6, <2>1
  <2>4. at + Len(a.bytes) \in Nat /\ id + Len(a.offsets) \in Nat
    BY <1>6, <2>3, PartType
  <2>5. <<mid, hi, at + Len(a.bytes), id + Len(a.offsets)>> \in D /\ b \in Part
    BY <2>1, <2>4
  <2>6. Good(<<lo, mid, at, id>>)
    BY <1>5, <2>1, <2>3 DEF lo, hi
  <2>7. Good(<<mid, hi, at + Len(a.bytes), id + Len(a.offsets)>>)
    BY <1>5, <2>1, <2>5 DEF lo, hi
  <2>8. Len(a.ids) = mid - lo
    BY <1>6, <2>1, <2>6 DEF Good
  <2>9. Len(b.ids) = hi - mid
    BY <1>6, <2>1, <2>7 DEF Good
  <2> HIDE DEF a, b
  <2>10. Len(part[p].ids) = hi - lo
    <3>1. Len(part[p].ids) = Len(a.ids) + Len(b.ids)
      <4>1. Len(Both(a, b).ids) = Len(a.ids) + Len(b.ids)
        BY <2>3, <2>5, BothType, Zenon
      <4> QED BY <2>2, <4>1, Zenon
    <3>2. mid \in Int
      BY <2>1
    <3> QED BY <1>6, <2>8, <2>9, <3>1, <3>2
  <2> QED BY <1>4, <1>10, <2>10 DEF Good, lo, hi
<1> QED BY <1>8, <1>9, <1>10

(* What is written for objects that follow each other. *)
LEMMA InTurnType ==
  ASSUME NEW os \in Seq(Objects), NEW written \in [Spots -> Written], NEW at \in Nat, NEW id \in Nat
  PROVE  /\ InTurn(os, written, at, id) \in Part
         /\ Len(InTurn(os, written, at, id).ids) = Len(os)
<1>1. PICK part \in [Parts(os) -> Part] :
        /\ \A p \in Parts(os) : part[p] = WriteBetween(os, written, part, p[1], p[2], p[3], p[4])
        /\ \A a, i \in Nat : InTurn(os, written, a, i) = part[<<0, Len(os), a, i>>]
  BY InTurnUnfolds
<1> DEFINE p == <<0, Len(os), at, id>>
<1>2. p \in Parts(os) /\ p[1] = 0 /\ p[2] = Len(os) /\ Len(os) \in Nat
  BY DEF Parts
<1>3. InTurn(os, written, at, id) = part[p]
  BY <1>1
<1> HIDE DEF p
<1>4. Len(part[p].ids) = Len(os)
  <2>1. Len(part[p].ids) = IF p[2] <= p[1] THEN 0 ELSE p[2] - p[1]
    BY <1>1, <1>2, IdsLength
  <2> QED BY <1>2, <2>1
<1> QED BY <1>2, <1>3, <1>4

(* What is written for objects that follow each other depends only on them. *)
LEMMA InTurnLocal ==
  ASSUME NEW os \in Seq(Objects), NEW g, NEW h, NEW at, NEW id,
         \A j \in 1..Len(os), a, i \in Nat : g[<<os[j], a, i>>] = h[<<os[j], a, i>>]
  PROVE  InTurn(os, g, at, id) = InTurn(os, h, at, id)
<1> DEFINE D == Parts(os)
           A(f) == [p \in D |-> WriteBetween(os, g, f, p[1], p[2], p[3], p[4])]
           B(f) == [p \in D |-> WriteBetween(os, h, f, p[1], p[2], p[3], p[4])]
<1>1. ASSUME NEW f PROVE A(f) = B(f)
  <2>1. ASSUME NEW p \in D
        PROVE  WriteBetween(os, g, f, p[1], p[2], p[3], p[4]) =
                 WriteBetween(os, h, f, p[1], p[2], p[3], p[4])
    <3>1. p[1] \in 0..Len(os) /\ p[2] \in 0..Len(os) /\ p[3] \in Nat /\ p[4] \in Nat
      BY PartsType
    <3>2. CASE p[2] = p[1] + 1
      <4>1. p[2] \in 1..Len(os)
        BY <3>1, <3>2
      <4>2. g[<<os[p[2]], p[3], p[4]>>] = h[<<os[p[2]], p[3], p[4]>>]
        BY <3>1, <4>1
      <4> QED BY <4>2 DEF WriteBetween
    <3>3. CASE p[2] # p[1] + 1
      BY <3>3 DEF WriteBetween
    <3> QED BY <3>2, <3>3
  <2> HIDE DEF D
  <2> QED BY <2>1
<1>2. InTurn(os, g, at, id) = (CHOOSE f : f = A(f))[<<0, Len(os), at, id>>]
  BY DEF InTurn
<1>3. InTurn(os, h, at, id) = (CHOOSE f : f = B(f))[<<0, Len(os), at, id>>]
  BY DEF InTurn
<1> HIDE DEF A, B
<1>4. (CHOOSE f : f = A(f)) = (CHOOSE f : f = B(f))
  BY <1>1, Zenon
<1> QED BY <1>2, <1>3, <1>4

-----------------------------------------------------------------------------
(* What is written for one object. *)

(* What an object writes: its own bytes, a table of references, its children. *)
From(o, at, w) == at + Len(Own(o)) + w * RefsOf(o)
Inner(o, at, id, w, written) == InTurn(Children(o), written, From(o, at, w), id + 1)
Table(o, at, id, w, written) == IntTable(RefOrder(o, Inner(o, at, id, w, written).ids), w)

(* How long the own bytes and the references of an object are. *)
LEMMA FromParts ==
  ASSUME NEW o \in Objects, NEW at \in Nat, NEW w \in Widths
  PROVE  /\ Own(o) \in Seq(Bytes) /\ Len(Own(o)) = OwnLength(o) /\ Len(Own(o)) \in Nat
         /\ RefsOf(o) \in Nat /\ w * RefsOf(o) \in Nat /\ From(o, at, w) \in Nat
<1>1. Own(o) \in Seq(Bytes) /\ Len(Own(o)) = OwnLength(o) /\ OwnLength(o) \in Nat
  BY OwnType
<1>2. RefsOf(o) \in Nat
  BY ChildrenType DEF RefsOf
<1>3. w * RefsOf(o) \in Nat
  BY <1>2, TableLength
<1> QED BY <1>1, <1>2, <1>3 DEF From

(* What the children of an object write. *)
LEMMA InnerType ==
  ASSUME NEW o \in Objects, NEW at \in Nat, NEW id \in Nat, NEW w \in Widths,
         NEW written \in [Spots -> Written]
  PROVE  /\ Inner(o, at, id, w, written) \in Part
         /\ Len(Inner(o, at, id, w, written).ids) = RefsOf(o)
<1>1. Children(o) \in Seq(Objects) /\ RefsOf(o) = Len(Children(o))
  BY ChildrenType DEF RefsOf
<1>2. From(o, at, w) \in Nat
  BY FromParts
<1> QED BY <1>1, <1>2, InTurnType DEF Inner

(* The references of an object. *)
LEMMA TableType ==
  ASSUME NEW o \in Objects, NEW at \in Nat, NEW id \in Nat, NEW w \in Widths,
         NEW written \in [Spots -> Written]
  PROVE  /\ Table(o, at, id, w, written) \in Seq(Bytes)
         /\ Len(Table(o, at, id, w, written)) = w * RefsOf(o)
<1> DEFINE all == Inner(o, at, id, w, written)
<1>1. all \in Part /\ Len(all.ids) = RefsOf(o)
  BY InnerType
<1> HIDE DEF all
<1>2. all.ids \in Seq(Nat)
  BY <1>1, PartType
<1>3. RefOrder(o, all.ids) \in Seq(Nat) /\ Len(RefOrder(o, all.ids)) = RefsOf(o)
  BY <1>1, <1>2, RefOrderType
<1>4. Table(o, at, id, w, written) = IntTable(RefOrder(o, all.ids), w)
  BY DEF Table, all
<1> QED BY <1>3, <1>4, IntTableType

(* What is written for an object, part by part. *)
LEMMA SerializeOneIs ==
  ASSUME NEW o, NEW at, NEW id, NEW w, NEW written
  PROVE  SerializeOne(o, at, id, w, written) =
           [bytes   |-> Own(o) \o Table(o, at, id, w, written) \o Inner(o, at, id, w, written).bytes,
            offsets |-> <<at>> \o Inner(o, at, id, w, written).offsets]
BY DEF SerializeOne, From, Inner, Table

(* The lengths of what is written for an object. *)
LEMMA SerializeOneType ==
  ASSUME NEW o \in Objects, NEW at \in Nat, NEW id \in Nat, NEW w \in Widths,
         NEW written \in [Spots -> Written]
  PROVE  /\ SerializeOne(o, at, id, w, written) \in Written
         /\ Len(SerializeOne(o, at, id, w, written).bytes) =
              OwnLength(o) + w * RefsOf(o) + Len(Inner(o, at, id, w, written).bytes)
         /\ Len(SerializeOne(o, at, id, w, written).offsets) =
              1 + Len(Inner(o, at, id, w, written).offsets)
<1> DEFINE own == Own(o)
           all == Inner(o, at, id, w, written)
           table == Table(o, at, id, w, written)
<1>1. /\ SerializeOne(o, at, id, w, written) =
           [bytes |-> own \o table \o all.bytes, offsets |-> <<at>> \o all.offsets]
      /\ own \in Seq(Bytes) /\ all \in Part /\ table \in Seq(Bytes)
      /\ Len(own) = OwnLength(o) /\ Len(table) = w * RefsOf(o)
  <2>1. /\ own \in Seq(Bytes) /\ Len(own) = OwnLength(o)
    BY FromParts
  <2>2. all \in Part
    BY InnerType
  <2>3. table \in Seq(Bytes) /\ Len(table) = w * RefsOf(o)
    BY TableType
  <2>4. SerializeOne(o, at, id, w, written) =
          [bytes |-> own \o table \o all.bytes, offsets |-> <<at>> \o all.offsets]
    BY SerializeOneIs
  <2> HIDE DEF own, all, table
  <2> QED BY <2>1, <2>2, <2>3, <2>4
<1> HIDE DEF own, all, table
<1>2. own \o table \in Seq(Bytes) /\ Len(own \o table) = Len(own) + Len(table)
  BY <1>1, JoinedType
<1>3. /\ own \o table \o all.bytes \in Seq(Bytes)
      /\ Len(own \o table \o all.bytes) = Len(own \o table) + Len(all.bytes)
  BY <1>1, <1>2, PartType, JoinedType
<1>4. <<at>> \o all.offsets \in Seq(Nat) /\ Len(<<at>> \o all.offsets) = 1 + Len(all.offsets)
  <2>1. <<at>> \in Seq(Nat) /\ all.offsets \in Seq(Nat) /\ Len(<<at>>) = 1
    BY <1>1, PartType
  <2> QED BY <2>1, JoinedType
<1>5. SerializeOne(o, at, id, w, written) \in Written
  BY <1>1, <1>3, <1>4 DEF Written
<1>6. /\ SerializeOne(o, at, id, w, written).bytes = own \o table \o all.bytes
      /\ SerializeOne(o, at, id, w, written).offsets = <<at>> \o all.offsets
  <2> DEFINE b == own \o table \o all.bytes
             c == <<at>> \o all.offsets
  <2>1. SerializeOne(o, at, id, w, written) = [bytes |-> b, offsets |-> c]
    BY <1>1
  <2> HIDE DEF b, c
  <2>2. /\ SerializeOne(o, at, id, w, written).bytes = b
        /\ SerializeOne(o, at, id, w, written).offsets = c
    BY <2>1
  <2> QED BY <2>2 DEF b, c
<1>7. /\ Len(own \o table \o all.bytes) = OwnLength(o) + w * RefsOf(o) + Len(all.bytes)
      /\ Len(<<at>> \o all.offsets) = 1 + Len(all.offsets)
  BY <1>1, <1>2, <1>3, <1>4
<1> QED BY <1>5, <1>6, <1>7 DEF all

(* What bplist_serialize_object writes. *)
LEMMA SerializeUnfolds ==
  ASSUME NEW w \in Widths
  PROVE  /\ Serialize(w) \in [Spots -> Written]
         /\ \A o \in Objects, at, id \in Nat :
              Serialize(w)[<<o, at, id>>] = SerializeOne(o, at, id, w, Serialize(w))
<1> DEFINE S1(p, g) == SerializeOne(p[1], p[2], p[3], w, g)
           rank == [p \in Spots |-> Nesting[p[1]]]
           G == [p \in Spots |-> [g \in [Spots -> Written] |-> S1(p, g)]]
           F == Serialize(w)
           P(g) == g = [p \in Spots |-> S1(p, g)]
<1>0. \A p \in Spots : p[1] \in Objects /\ p[2] \in Nat /\ p[3] \in Nat /\ p = <<p[1], p[2], p[3]>>
  BY DEF Spots
<1>1. rank \in [Spots -> Nat]
  BY <1>0, ObjectsAssumption
<1>2. G \in [Spots -> [[Spots -> Written] -> Written]]
  <2>1. ASSUME NEW p \in Spots, NEW g \in [Spots -> Written] PROVE S1(p, g) \in Written
    BY <1>0, SerializeOneType
  <2> HIDE DEF S1
  <2> QED BY <2>1
<1>3. ASSUME NEW p \in Spots, NEW g, NEW h,
             \A q \in Spots : Nesting[q[1]] < Nesting[p[1]] => g[q] = h[q]
      PROVE  S1(p, g) = S1(p, h)
  <2> DEFINE o == p[1]
             from == p[2] + Len(Own(o)) + w * RefsOf(o)
  <2>1. o \in Objects
    BY <1>0
  <2>2. \A j \in 1..Len(Children(o)), a, i \in Nat :
          g[<<Children(o)[j], a, i>>] = h[<<Children(o)[j], a, i>>]
    <3> SUFFICES ASSUME NEW j \in 1..Len(Children(o)), NEW a \in Nat, NEW i \in Nat
                 PROVE  g[<<Children(o)[j], a, i>>] = h[<<Children(o)[j], a, i>>]
      OBVIOUS
    <3> DEFINE c == Children(o)[j]
    <3>1. c \in Objects /\ Nesting[c] < Nesting[o]
      BY <2>1, ChildrenType
    <3> HIDE DEF c
    <3>2. <<c, a, i>> \in Spots /\ <<c, a, i>>[1] = c
      BY <3>1 DEF Spots
    <3>3. g[<<c, a, i>>] = h[<<c, a, i>>]
      BY <1>3, <3>1, <3>2
    <3> QED BY <3>3 DEF c
  <2>3. Children(o) \in Seq(Objects)
    BY <2>1, ChildrenType
  <2> HIDE DEF o, from
  <2>4. InTurn(Children(o), g, from, p[3] + 1) = InTurn(Children(o), h, from, p[3] + 1)
    BY <2>2, <2>3, InTurnLocal
  <2> QED BY <2>4 DEF SerializeOne, o, from
<1>4. Solvable(Spots, Written, G)
  <2>1. Written # {}
    <3>1. [bytes |-> <<>>, offsets |-> <<>>] \in Written
      BY DEF Written
    <3> QED BY <3>1
  <2>2. \A p \in Spots : \A g, h \in [Spots -> Written] :
          (\A q \in Spots : rank[q] < rank[p] => g[q] = h[q]) => G[p][g] = G[p][h]
    <3> HIDE DEF S1
    <3> QED BY <1>3
  <2> HIDE DEF rank, G
  <2>3. Equations(Spots, Written, rank, G)
    BY <1>1, <1>2, <2>1, <2>2 DEF Equations
  <2> QED BY <2>3, Recursion
<1>5. PICK f \in [Spots -> Written] : \A p \in Spots : f[p] = G[p][f]
  BY <1>4 DEF Solvable
<1>6. \A p \in Spots : f[p] = S1(p, f)
  <2> HIDE DEF S1
  <2> QED BY <1>5
<1>7. P(f)
  <2> HIDE DEF S1
  <2> QED BY <1>6
<1>8. F = CHOOSE g : P(g)
  BY DEF Serialize, Spots
<1>9. P(F)
  <2> HIDE DEF P, F
  <2> QED BY <1>7, <1>8
<1> HIDE DEF F
<1>10. \A p \in Spots : F[p] = S1(p, F)
  <2> HIDE DEF S1
  <2> QED BY <1>9
<1>11. \A p \in Spots : F[p] = f[p]
  <2> DEFINE S == {Nesting[p[1]] : p \in {q \in Spots : F[q] # f[q]}}
  <2> HIDE DEF P, S1, rank, G
  <2> SUFFICES ASSUME S # {} PROVE FALSE
    OBVIOUS
  <2>1. PICK n \in S : \A m \in S : n <= m
    <3>1. S \in SUBSET Nat
      BY <1>0, ObjectsAssumption
    <3> HIDE DEF S
    <3> QED BY <3>1, LeastNumber
  <2>2. PICK p \in Spots : n = Nesting[p[1]] /\ F[p] # f[p]
    BY <2>1
  <2>3. \A q \in Spots : Nesting[q[1]] < Nesting[p[1]] => F[q] = f[q]
    <3> SUFFICES ASSUME NEW q \in Spots, Nesting[q[1]] < Nesting[p[1]], F[q] # f[q] PROVE FALSE
      OBVIOUS
    <3>1. Nesting[q[1]] \in S
      OBVIOUS
    <3>2. /\ Nesting[p[1]] <= Nesting[q[1]]
          /\ Nesting[p[1]] \in Nat /\ Nesting[q[1]] \in Nat
      BY <1>0, <2>1, <2>2, <3>1, ObjectsAssumption
    <3> QED BY <3>2
  <2>4. S1(p, F) = S1(p, f)
    BY <1>3, <2>3
  <2> QED BY <1>6, <1>10, <2>2, <2>4
<1>12. F \in [Spots -> Written]
  <2>1. F = [p \in Spots |-> S1(p, F)]
    BY <1>9
  <2>2. \A p \in Spots : S1(p, F) \in Written
    <3> HIDE DEF S1, P
    <3> QED BY <1>10, <1>11
  <2> HIDE DEF S1, P
  <2> QED BY <2>1, <2>2
<1>13. ASSUME NEW o \in Objects, NEW at \in Nat, NEW id \in Nat
       PROVE  F[<<o, at, id>>] = SerializeOne(o, at, id, w, F)
  <2> DEFINE p == <<o, at, id>>
  <2>1. p \in Spots /\ p[1] = o /\ p[2] = at /\ p[3] = id
    BY DEF Spots
  <2> HIDE DEF p
  <2>2. F[p] = SerializeOne(p[1], p[2], p[3], w, F)
    BY <1>10, <2>1
  <2> QED BY <2>1, <2>2 DEF p
<1> QED BY <1>12, <1>13 DEF F

-----------------------------------------------------------------------------
(* The lengths agree. *)

(* The position behind the references of an object. *)
LEMMA FromType == \A o \in Objects, at \in Nat, w \in Widths : From(o, at, w) \in Nat
<1> SUFFICES ASSUME NEW o \in Objects, NEW at \in Nat, NEW w \in Widths PROVE From(o, at, w) \in Nat
  OBVIOUS
<1>1. RefsOf(o) \in Nat
  BY ChildrenType DEF RefsOf
<1>2. w * RefsOf(o) \in Nat
  BY <1>1, TableLength
<1>3. Len(Own(o)) \in Nat
  BY OwnType
<1> QED BY <1>2, <1>3 DEF From

(* That what was written is as long as analyze said: of one object, and of
   those between two places. *)
AsLong(x, size, w) ==
  Len(x.bytes) = size.bytes + w * size.refs /\ Len(x.offsets) = size.objects

(* Objects that are written as long as they were counted are so together. *)
LEMMA InTurnLengths ==
  ASSUME NEW os \in Seq(Objects), NEW written \in [Spots -> Written], NEW size \in [Objects -> Sizes],
         NEW w \in Widths, NEW at \in Nat, NEW id \in Nat,
         \A j \in 1..Len(os), a, i \in Nat : AsLong(written[<<os[j], a, i>>], size[os[j]], w)
  PROVE  AsLong(InTurn(os, written, at, id), SumOf(os, size), w)
<1>1. PICK part \in [Parts(os) -> Part] :
        /\ \A p \in Parts(os) : part[p] = WriteBetween(os, written, part, p[1], p[2], p[3], p[4])
        /\ \A a, i \in Nat : InTurn(os, written, a, i) = part[<<0, Len(os), a, i>>]
  BY InTurnUnfolds
<1>2. PICK sum \in [Places(os) -> Sizes] :
        /\ \A p \in Places(os) : sum[p] = SumBetween(os, size, sum, p[1], p[2])
        /\ SumOf(os, size) = sum[<<0, Len(os)>>]
  BY SumOfUnfolds
<1> DEFINE D == Parts(os)
           rank == [p \in D |-> IF p[2] - p[1] >= 0 THEN p[2] - p[1] ELSE 0]
           Good(p) == AsLong(part[p], sum[<<p[1], p[2]>>], w)
           S == {rank[p] : p \in {q \in D : ~Good(q)}}
<1>3. \A p \in D : rank[p] \in Nat
  BY PartsType
<1>4. \A p, q \in D : q[2] - q[1] < p[2] - p[1] /\ q[1] < q[2] => rank[q] < rank[p]
  BY NearerPlaces
<1>5. \A p \in D : Good(p)
  <2> HIDE DEF rank, Good
  <2> SUFFICES ASSUME S # {} PROVE FALSE
    OBVIOUS
  <2>3. PICK n \in S : \A m \in S : n <= m
    <3>1. S \in SUBSET Nat
      BY <1>3
    <3> HIDE DEF S
    <3> QED BY <3>1, LeastNumber
  <2>4. PICK p \in D : n = rank[p] /\ ~Good(p)
    BY <2>3
  <2>5. ASSUME NEW q \in D, q[2] - q[1] < p[2] - p[1], q[1] < q[2] PROVE Good(q)
    <3> SUFFICES ASSUME ~Good(q) PROVE FALSE
      OBVIOUS
    <3>1. rank[q] \in S
      OBVIOUS
    <3>2. rank[q] < rank[p]
      BY <1>4, <2>5
    <3>3. rank[p] <= rank[q] /\ rank[p] \in Nat /\ rank[q] \in Nat
      BY <1>3, <2>3, <2>4, <3>1
    <3> QED BY <3>2, <3>3
  <2> DEFINE lo == p[1]
             hi == p[2]
             a0 == p[3]
             i0 == p[4]
  <2>6. /\ lo \in 0..Len(os) /\ hi \in 0..Len(os) /\ a0 \in Nat /\ i0 \in Nat
        /\ lo \in Nat /\ hi \in Nat
    BY PartsType
  <2>7. part[p] = WriteBetween(os, written, part, lo, hi, a0, i0)
    BY <1>1
  <2>8. sum[<<lo, hi>>] = SumBetween(os, size, sum, lo, hi)
    <3>1. <<lo, hi>> \in Places(os) /\ <<lo, hi>>[1] = lo /\ <<lo, hi>>[2] = hi
      BY <2>6 DEF Places
    <3> HIDE DEF lo, hi
    <3> QED BY <1>2, <3>1
  <2>9. w * 0 = 0
    BY DEF Widths
  <2>10. CASE hi <= lo
    <3>1. part[p] = NoPart
      BY <2>7, <2>10, WriteNone
    <3>2. sum[<<lo, hi>>] = [objects |-> 0, bytes |-> 0, refs |-> 0]
      BY <2>8, <2>10 DEF SumBetween
    <3>3. Len(part[p].bytes) = 0 /\ Len(part[p].offsets) = 0
      BY <3>1 DEF NoPart
    <3>4. /\ sum[<<lo, hi>>].objects = 0 /\ sum[<<lo, hi>>].bytes = 0
          /\ sum[<<lo, hi>>].refs = 0
      BY <3>2
    <3> QED BY <2>4, <2>9, <3>3, <3>4 DEF Good, AsLong
  <2>11. CASE ~(hi <= lo) /\ hi = lo + 1
    <3>1. hi \in 1..Len(os)
      BY <2>6, <2>11
    <3> DEFINE one == written[<<os[hi], a0, i0>>]
    <3>2. part[p] = [bytes |-> one.bytes, offsets |-> one.offsets, ids |-> <<i0>>]
      BY <2>7, <2>11, WriteSingle DEF WriteOne
    <3>3. sum[<<lo, hi>>] = size[os[hi]]
      BY <2>8, <2>11 DEF SumBetween
    <3>4. AsLong(one, size[os[hi]], w)
      BY <2>6, <3>1
    <3> HIDE DEF one, lo, hi, a0, i0
    <3>5. part[p].bytes = one.bytes /\ part[p].offsets = one.offsets
      BY <3>2
    <3>6. AsLong(part[p], sum[<<lo, hi>>], w)
      BY <3>3, <3>4, <3>5 DEF AsLong
    <3> QED BY <2>4, <3>6 DEF Good, lo, hi
  <2>12. CASE ~(hi <= lo) /\ hi # lo + 1
    <3> DEFINE mid == (lo + hi) \div 2
               a == part[<<lo, mid, a0, i0>>]
               at1 == a0 + Len(a.bytes)
               id1 == i0 + Len(a.offsets)
               b == part[<<mid, hi, at1, id1>>]
               s == sum[<<lo, mid>>]
               t == sum[<<mid, hi>>]
    <3>1. /\ mid - lo < hi - lo /\ hi - mid < hi - lo /\ mid \in 0..Len(os) /\ lo < mid /\ mid < hi
          /\ \A x, i \in Nat : <<lo, mid, x, i>> \in Parts(os) /\ <<mid, hi, x, i>> \in Parts(os)
      <4>1. IsMiddle(os, lo, mid, hi)
        BY <2>6, <2>12, WriteHalves
      <4> QED BY <4>1 DEF IsMiddle
    <3>2. part[p] = Both(a, b)
      BY <2>7, <2>12, WriteTwoHalves DEF WriteHalf
    <3>3. sum[<<lo, hi>>] = Sum(s, t)
      BY <2>8, <2>12 DEF SumBetween
    <3> HIDE DEF mid, lo, hi, a0, i0
    <3>4. s \in Sizes /\ t \in Sizes
      BY <1>2, <2>6, <3>1 DEF Places
    <3>5. <<lo, mid, a0, i0>> \in D /\ a \in Part
      BY <2>6, <3>1
    <3>6. at1 \in Nat /\ id1 \in Nat
      <4> HIDE DEF a
      <4>1. Len(a.bytes) \in Nat /\ Len(a.offsets) \in Nat
        BY <3>5, PartType
      <4>2. a0 \in Nat /\ i0 \in Nat
        BY <2>6
      <4>3. \A x, y \in Nat : x + y \in Nat
        OBVIOUS
      <4> QED BY <4>1, <4>2, <4>3, Zenon
    <3> HIDE DEF at1, id1
    <3>7. <<mid, hi, at1, id1>> \in D /\ b \in Part
      BY <3>1, <3>6
    <3>8. Good(<<lo, mid, a0, i0>>)
      BY <2>5, <3>1, <3>5 DEF lo, hi
    <3>9. Good(<<mid, hi, at1, id1>>)
      BY <2>5, <3>1, <3>7 DEF lo, hi
    <3>10. AsLong(a, s, w) /\ AsLong(b, t, w)
      BY <3>8, <3>9 DEF Good
    <3> HIDE DEF a, b, s, t
    <3>11. /\ Len(part[p].bytes) = Len(a.bytes) + Len(b.bytes)
           /\ Len(part[p].offsets) = Len(a.offsets) + Len(b.offsets)
      <4>1. /\ Len(Both(a, b).bytes) = Len(a.bytes) + Len(b.bytes)
            /\ Len(Both(a, b).offsets) = Len(a.offsets) + Len(b.offsets)
        BY <3>5, <3>7, BothType, Zenon
      <4> QED BY <3>2, <4>1, Zenon
    <3>12. /\ Sum(s, t).bytes = s.bytes + t.bytes /\ Sum(s, t).refs = s.refs + t.refs
           /\ Sum(s, t).objects = s.objects + t.objects
      BY <3>4, SumType
    <3>13. /\ s.bytes \in Nat /\ s.refs \in Nat /\ s.objects \in Nat
           /\ t.bytes \in Nat /\ t.refs \in Nat /\ t.objects \in Nat
      BY <3>4 DEF Sizes
    <3>14. /\ w * (s.refs + t.refs) = w * s.refs + w * t.refs
           /\ w * s.refs \in Nat /\ w * t.refs \in Nat
      <4>1. TakesBoth(w, s.refs, t.refs)
        BY <3>13, TablesLength
      <4> QED BY <4>1 DEF TakesBoth
    <3>15. AsLong(part[p], Sum(s, t), w)
      <4>1. /\ Len(a.bytes) = s.bytes + w * s.refs /\ Len(a.offsets) = s.objects
            /\ Len(b.bytes) = t.bytes + w * t.refs /\ Len(b.offsets) = t.objects
        BY <3>10 DEF AsLong
      <4>2. w * Sum(s, t).refs = w * s.refs + w * t.refs
        BY <3>12, <3>14
      <4> DEFINE x == w * s.refs
                 y == w * t.refs
                 z == w * Sum(s, t).refs
      <4> HIDE DEF x, y, z
      <4>3. /\ Len(a.bytes) = s.bytes + x /\ Len(b.bytes) = t.bytes + y
            /\ z = x + y /\ x \in Nat /\ y \in Nat
        BY <3>14, <4>1, <4>2 DEF x, y, z
      <4>4. Len(part[p].bytes) = Sum(s, t).bytes + z
        <5>1. Len(part[p].bytes) = (s.bytes + x) + (t.bytes + y)
          BY <3>11, <4>3
        <5>2. Sum(s, t).bytes + z = (s.bytes + t.bytes) + (x + y)
          BY <3>12, <4>3
        <5>3. (s.bytes + x) + (t.bytes + y) = (s.bytes + t.bytes) + (x + y)
          <6>1. \A i, j, k, l \in Nat : (i + k) + (j + l) = (i + j) + (k + l)
            OBVIOUS
          <6>2. s.bytes \in Nat /\ t.bytes \in Nat /\ x \in Nat /\ y \in Nat
            BY <3>13, <4>3
          <6> QED BY <6>1, <6>2
        <5> QED BY <5>1, <5>2, <5>3, Zenon
      <4>5. Len(part[p].offsets) = Sum(s, t).objects
        BY <3>11, <3>12, <4>1
      <4> QED BY <4>4, <4>5 DEF AsLong, z
    <3> QED BY <2>4, <3>3, <3>15 DEF Good, lo, hi
  <2> QED BY <2>10, <2>11, <2>12
<1>6. <<0, Len(os), at, id>> \in D
  BY DEF Parts
<1> DEFINE q == <<0, Len(os), at, id>>
<1>7. AsLong(part[q], sum[<<q[1], q[2]>>], w)
  BY <1>5, <1>6
<1>8. q[1] = 0 /\ q[2] = Len(os)
  OBVIOUS
<1> QED BY <1>1, <1>2, <1>7, <1>8

(* What is written of an object is as long as was analyzed. *)
LEMMA SerializeLengths ==
  ASSUME NEW w \in Widths, NEW o \in Objects, NEW at \in Nat, NEW id \in Nat
  PROVE  AsLong(Serialize(w)[<<o, at, id>>], Analyze[o], w)
<1> DEFINE F == Serialize(w)
           Good(x) == \A a, i \in Nat : AsLong(F[<<x, a, i>>], Analyze[x], w)
           S == {Nesting[x] : x \in {y \in Objects : ~Good(y)}}
<1>1. F \in [Spots -> Written] /\ Analyze \in [Objects -> Sizes]
  BY SerializeUnfolds, AnalyzeUnfolds
<1> SUFFICES \A x \in Objects : Good(x)
  OBVIOUS
<1> SUFFICES ASSUME S # {} PROVE FALSE
  OBVIOUS
<1> HIDE DEF Good
<1>2. PICK n \in S : \A m \in S : n <= m
  <2>1. S \in SUBSET Nat
    BY ObjectsAssumption
  <2> HIDE DEF S
  <2> QED BY <2>1, LeastNumber
<1>3. PICK x \in Objects : n = Nesting[x] /\ ~Good(x)
  BY <1>2
<1>4. ASSUME NEW c \in Objects, Nesting[c] < Nesting[x] PROVE Good(c)
  <2> SUFFICES ASSUME ~Good(c) PROVE FALSE
    OBVIOUS
  <2>1. Nesting[c] \in S
    OBVIOUS
  <2>2. Nesting[x] <= Nesting[c] /\ Nesting[x] \in Nat /\ Nesting[c] \in Nat
    BY <1>2, <1>3, <2>1, ObjectsAssumption
  <2> QED BY <1>4, <2>2
<1>5. ASSUME NEW a \in Nat, NEW i \in Nat PROVE AsLong(F[<<x, a, i>>], Analyze[x], w)
  <2> DEFINE all == Inner(x, a, i, w, F)
             s == SumOf(Children(x), Analyze)
  <2>1. AsLong(all, s, w)
    <3>1. Children(x) \in Seq(Objects)
      BY ChildrenType
    <3>2. \A j \in 1..Len(Children(x)), b, k \in Nat :
            AsLong(F[<<Children(x)[j], b, k>>], Analyze[Children(x)[j]], w)
      <4>1. \A j \in 1..Len(Children(x)) : Good(Children(x)[j])
        BY <1>4, ChildrenType
      <4> QED BY <4>1 DEF Good
    <3>3. From(x, a, w) \in Nat /\ i + 1 \in Nat
      BY FromType
    <3> HIDE DEF F
    <3> QED BY <1>1, <3>1, <3>2, <3>3, InTurnLengths DEF Inner
  <2>2. F[<<x, a, i>>] = SerializeOne(x, a, i, w, F)
    BY SerializeUnfolds
  <2>3. Analyze[x] = AnalyzeOne(x, Analyze)
    BY AnalyzeUnfolds
  <2> HIDE DEF F
  <2>4. /\ Len(F[<<x, a, i>>].bytes) = OwnLength(x) + w * RefsOf(x) + Len(all.bytes)
        /\ Len(F[<<x, a, i>>].offsets) = 1 + Len(all.offsets)
    BY <1>1, <2>2, SerializeOneType
  <2>5. /\ s \in Sizes /\ RefsOf(x) \in Nat
        /\ Analyze[x].objects = 1 + s.objects
        /\ Analyze[x].bytes = OwnLength(x) + s.bytes
        /\ Analyze[x].refs = RefsOf(x) + s.refs
    BY <1>1, <2>3, AnalyzeOneType
  <2> HIDE DEF all, s
  <2>6. s.bytes \in Nat /\ s.refs \in Nat /\ s.objects \in Nat /\ OwnLength(x) \in Nat
    BY <2>5, OwnType DEF Sizes
  <2>7. /\ w * (RefsOf(x) + s.refs) = w * RefsOf(x) + w * s.refs
        /\ w * RefsOf(x) \in Nat /\ w * s.refs \in Nat
    <3>1. TakesBoth(w, RefsOf(x), s.refs)
      BY <2>5, <2>6, TablesLength
    <3> QED BY <3>1 DEF TakesBoth
  <2>8. Len(all.bytes) = s.bytes + w * s.refs /\ Len(all.offsets) = s.objects
    BY <2>1 DEF AsLong
  <2>9. /\ Len(F[<<x, a, i>>].bytes) = Analyze[x].bytes + w * Analyze[x].refs
        /\ Len(F[<<x, a, i>>].offsets) = Analyze[x].objects
    <3>1. \A m, l, k, r \in Nat : m + r + (l + k) = (m + l) + (r + k)
      OBVIOUS
    <3> DEFINE y == w * RefsOf(x)
               z == w * s.refs
    <3>2. /\ Len(F[<<x, a, i>>].bytes) = OwnLength(x) + y + (s.bytes + z)
          /\ w * Analyze[x].refs = y + z /\ y \in Nat /\ z \in Nat
      BY <2>4, <2>5, <2>7, <2>8
    <3> HIDE DEF y, z
    <3>3. Len(F[<<x, a, i>>].bytes) = (OwnLength(x) + s.bytes) + (y + z)
      BY <2>6, <3>1, <3>2
    <3> QED BY <2>4, <2>5, <2>8, <3>2, <3>3
  <2> QED BY <2>9 DEF AsLong
<1> QED BY <1>3, <1>5 DEF Good

-----------------------------------------------------------------------------
(* The numbers of objects and of references. *)

(* Each object but the first is referred to once. *)
Once(size) == size.objects = size.refs + 1

(* Each of several objects but the first of each is referred to once. *)
LEMMA SumOnce ==
  ASSUME NEW os \in Seq(Objects), NEW size \in [Objects -> Sizes],
         \A j \in 1..Len(os) : Once(size[os[j]])
  PROVE  SumOf(os, size).objects = SumOf(os, size).refs + Len(os)
<1>1. PICK sum \in [Places(os) -> Sizes] :
        /\ \A p \in Places(os) : sum[p] = SumBetween(os, size, sum, p[1], p[2])
        /\ SumOf(os, size) = sum[<<0, Len(os)>>]
  BY SumOfUnfolds
<1> DEFINE D == {p \in Places(os) : p[1] <= p[2]}
           Good(p) == sum[p].objects = sum[p].refs + (p[2] - p[1])
           S == {p[2] - p[1] : p \in {q \in D : ~Good(q)}}
<1>2. \A p \in D : p \in Places(os) /\ p[1] <= p[2] /\ p[2] - p[1] \in Nat
  BY PlacesType
<1>3. \A p \in D : Good(p)
  <2> HIDE DEF D, Good
  <2> SUFFICES ASSUME S # {} PROVE FALSE
    OBVIOUS
  <2>1. PICK n \in S : \A m \in S : n <= m
    <3>1. S \in SUBSET Nat
      BY <1>2
    <3> HIDE DEF S
    <3> QED BY <3>1, LeastNumber
  <2>2. PICK p \in D : n = p[2] - p[1] /\ ~Good(p)
    BY <2>1
  <2>3. ASSUME NEW q \in D, q[2] - q[1] < p[2] - p[1] PROVE Good(q)
    <3> SUFFICES ASSUME ~Good(q) PROVE FALSE
      OBVIOUS
    <3>1. q[2] - q[1] \in S
      OBVIOUS
    <3>2. p[2] - p[1] <= q[2] - q[1] /\ p[2] - p[1] \in Nat /\ q[2] - q[1] \in Nat
      BY <1>2, <2>1, <2>2, <3>1
    <3> QED BY <2>3, <3>2
  <2> DEFINE lo == p[1]
             hi == p[2]
  <2>4. /\ lo \in 0..Len(os) /\ hi \in 0..Len(os) /\ lo \in Nat /\ hi \in Nat /\ lo <= hi
        /\ p = <<lo, hi>>
    BY <1>2, PlacesType
  <2>5. sum[p] = SumBetween(os, size, sum, lo, hi)
    BY <1>1, <1>2
  <2>6. CASE hi <= lo
    <3>1. sum[p] = [objects |-> 0, bytes |-> 0, refs |-> 0]
      BY <2>5, <2>6 DEF SumBetween
    <3>2. sum[p].objects = 0 /\ sum[p].refs = 0
      BY <3>1
    <3> QED BY <2>2, <2>4, <2>6, <3>2 DEF Good
  <2>7. CASE ~(hi <= lo) /\ hi = lo + 1
    <3>1. sum[p] = size[os[hi]]
      BY <2>5, <2>7 DEF SumBetween
    <3>2. hi \in 1..Len(os)
      BY <2>4, <2>7
    <3>3. sum[p].objects = sum[p].refs + 1
      BY <3>1, <3>2 DEF Once
    <3>4. hi - lo = 1
      BY <2>4, <2>7
    <3> QED BY <2>2, <3>3, <3>4 DEF Good
  <2>8. CASE ~(hi <= lo) /\ hi # lo + 1
    <3> DEFINE mid == (lo + hi) \div 2
               s == sum[<<lo, mid>>]
               t == sum[<<mid, hi>>]
    <3>1. mid \in Nat /\ lo < mid /\ mid < hi
      BY <2>4, <2>8, Halves
    <3>2. sum[p] = Sum(s, t)
      BY <2>5, <2>8 DEF SumBetween
    <3> HIDE DEF mid, lo, hi
    <3>3. <<lo, mid>> \in Places(os) /\ <<mid, hi>> \in Places(os)
      BY <2>4, <3>1 DEF Places
    <3>4. s \in Sizes /\ t \in Sizes
      BY <1>1, <3>3
    <3>5. s.objects = s.refs + (mid - lo)
      <4>1. <<lo, mid>> \in D /\ mid - lo < hi - lo
        BY <2>4, <3>1, <3>3 DEF D
      <4>2. Good(<<lo, mid>>)
        BY <2>3, <4>1 DEF lo, hi
      <4> QED BY <4>2 DEF Good
    <3>6. t.objects = t.refs + (hi - mid)
      <4>1. <<mid, hi>> \in D /\ hi - mid < hi - lo
        BY <2>4, <3>1, <3>3 DEF D
      <4>2. Good(<<mid, hi>>)
        BY <2>3, <4>1 DEF lo, hi
      <4> QED BY <4>2 DEF Good
    <3> HIDE DEF s, t
    <3>7. /\ Sum(s, t).refs = s.refs + t.refs /\ Sum(s, t).objects = s.objects + t.objects
          /\ s.refs \in Nat /\ t.refs \in Nat
      <4>1. s.refs \in Nat /\ t.refs \in Nat
        BY <3>4 DEF Sizes
      <4> QED BY <3>4, <4>1, SumType
    <3>8. Sum(s, t).objects = Sum(s, t).refs + (hi - lo)
      <4>1. Sum(s, t).objects = (s.refs + (mid - lo)) + (t.refs + (hi - mid))
        BY <3>5, <3>6, <3>7
      <4>2. \A i, j, l, m, h \in Nat : (i + (m - l)) + (j + (h - m)) = (i + j) + (h - l)
        OBVIOUS
      <4>3. lo \in Nat /\ hi \in Nat /\ mid \in Nat
        BY <2>4, <3>1
      <4>4. Sum(s, t).objects = (s.refs + t.refs) + (hi - lo)
        BY <3>7, <4>1, <4>2, <4>3
      <4> QED BY <3>7, <4>4
    <3> QED BY <2>2, <3>2, <3>8 DEF Good, lo, hi
  <2> QED BY <2>6, <2>7, <2>8
<1>4. <<0, Len(os)>> \in D
  BY DEF Places
<1> DEFINE q == <<0, Len(os)>>
<1>5. sum[q].objects = sum[q].refs + (q[2] - q[1])
  BY <1>3, <1>4
<1>6. q[2] - q[1] = Len(os)
  OBVIOUS
<1> QED BY <1>1, <1>5, <1>6

(* Each object but the one that is written is referred to once. *)
LEMMA AnalyzeOnce == \A o \in Objects : Once(Analyze[o])
<1> DEFINE S == {Nesting[x] : x \in {y \in Objects : ~Once(Analyze[y])}}
<1> SUFFICES ASSUME S # {} PROVE FALSE
  OBVIOUS
<1>1. PICK n \in S : \A m \in S : n <= m
  <2>1. S \in SUBSET Nat
    BY ObjectsAssumption
  <2> HIDE DEF S
  <2> QED BY <2>1, LeastNumber
<1>2. PICK x \in Objects : n = Nesting[x] /\ ~Once(Analyze[x])
  BY <1>1
<1>3. ASSUME NEW c \in Objects, Nesting[c] < Nesting[x] PROVE Once(Analyze[c])
  <2> SUFFICES ASSUME ~Once(Analyze[c]) PROVE FALSE
    OBVIOUS
  <2>1. Nesting[c] \in S
    OBVIOUS
  <2>2. Nesting[x] <= Nesting[c] /\ Nesting[x] \in Nat /\ Nesting[c] \in Nat
    BY <1>1, <1>2, <2>1, ObjectsAssumption
  <2> QED BY <1>3, <2>2
<1> DEFINE s == SumOf(Children(x), Analyze)
<1>4. /\ s \in Sizes /\ RefsOf(x) \in Nat
      /\ Analyze[x].objects = 1 + s.objects
      /\ Analyze[x].refs = RefsOf(x) + s.refs
  BY AnalyzeUnfolds, AnalyzeOneType
<1>5. s.objects = s.refs + RefsOf(x)
  <2>1. \A j \in 1..Len(Children(x)) : Once(Analyze[Children(x)[j]])
    BY <1>3, ChildrenType
  <2>2. s.objects = s.refs + Len(Children(x))
    BY <2>1, ChildrenType, AnalyzeUnfolds, SumOnce
  <2> QED BY <2>2 DEF RefsOf
<1> HIDE DEF s
<1>6. s.objects \in Nat /\ s.refs \in Nat
  BY <1>4 DEF Sizes
<1> QED BY <1>2, <1>4, <1>5, <1>6 DEF Once

(* The widths and the parts of a list. *)
RefWidth(o) == Width(Analyze[o].refs)
Body(o)     == Serialize(RefWidth(o))[<<o, HeaderLength, 0>>]
Before(o)   == HeaderLength + Analyze[o].bytes + Analyze[o].refs * RefWidth(o)
OffWidth(o) == Width(Before(o))

(* The objects are as long, and as many, as bplist_analyze says. *)
LEMMA BodyType ==
  ASSUME NEW o \in Objects
  PROVE  /\ Analyze[o] \in Sizes /\ RefWidth(o) \in Widths /\ OffWidth(o) \in Widths
         /\ Before(o) \in Nat
         /\ Body(o) \in Written
         /\ HeaderLength + Len(Body(o).bytes) = Before(o)
         /\ Len(Body(o).offsets) = Analyze[o].objects
         /\ Analyze[o].objects = Analyze[o].refs + 1
<1> DEFINE size == Analyze[o]
           w == RefWidth(o)
<1>1. size \in Sizes
  BY AnalyzeUnfolds
<1>2. size.bytes \in Nat /\ size.refs \in Nat /\ size.objects \in Nat
  BY <1>1 DEF Sizes
<1>3. w \in Widths
  BY <1>2, WidthType DEF RefWidth
<1>4. <<o, HeaderLength, 0>> \in Spots /\ HeaderLength \in Nat
  BY DEF Spots, HeaderLength
<1>5. Body(o) \in Written
  <2> HIDE DEF w
  <2>1. Body(o) = Serialize(w)[<<o, HeaderLength, 0>>]
    BY DEF Body, w
  <2> QED BY <1>3, <1>4, <2>1, SerializeUnfolds
<1>6. AsLong(Body(o), size, w)
  BY <1>3, <1>4, SerializeLengths DEF Body
<1> HIDE DEF size, w
<1>7. size.refs * w = w * size.refs /\ w * size.refs \in Nat
  BY <1>2, <1>3, TableLength
<1>8. Before(o) = HeaderLength + size.bytes + w * size.refs
  BY <1>7 DEF Before, size, w
<1>9. Before(o) \in Nat
  BY <1>2, <1>7, <1>8 DEF HeaderLength
<1>10. OffWidth(o) \in Widths
  BY <1>9, WidthType DEF OffWidth
<1>11. HeaderLength + Len(Body(o).bytes) = Before(o)
  <2>1. Len(Body(o).bytes) = size.bytes + w * size.refs
    BY <1>6 DEF AsLong
  <2> QED BY <1>2, <1>7, <1>8, <2>1 DEF HeaderLength
<1>12. Len(Body(o).offsets) = size.objects
  BY <1>6 DEF AsLong
<1>13. size.objects = size.refs + 1
  BY AnalyzeOnce DEF Once, size
<1> QED BY <1>1, <1>3, <1>5, <1>9, <1>10, <1>11, <1>12, <1>13 DEF size, w

-----------------------------------------------------------------------------
(* The list, part by part. *)

(* What a concatenation takes from what was there, and what it adds. *)
LEMMA Appended ==
  ASSUME NEW S, NEW s \in Seq(S), NEW x \in Seq(S), NEW t, t = s \o x
  PROVE  /\ t \in Seq(S) /\ Len(t) = Len(s) + Len(x)
         /\ Len(s) \in Nat /\ Len(x) \in Nat /\ Len(t) \in Nat
         /\ \A k \in 1..Len(s) : k \in 1..Len(t) /\ t[k] = s[k]
         /\ \A k \in 1..Len(x) : Len(s) + k \in 1..Len(t) /\ t[Len(s) + k] = x[k]
<1>1. t \in Seq(S) /\ Len(t) = Len(s) + Len(x)
  BY JoinedType
<1>2. Len(s) \in Nat /\ Len(x) \in Nat /\ Len(t) \in Nat
  BY <1>1
<1>3. ASSUME NEW k \in 1..Len(s) PROVE k \in 1..Len(t) /\ t[k] = s[k]
  <2>1. k \in Nat /\ k \in 1..Len(t)
    BY <1>1, <1>2
  <2>2. (s \o x)[k] = s[k]
    BY <2>1, JoinedParts
  <2> QED BY <2>1, <2>2
<1>4. ASSUME NEW k \in 1..Len(x) PROVE Len(s) + k \in 1..Len(t) /\ t[Len(s) + k] = x[k]
  <2>1. k \in Nat /\ Len(s) + k \in 1..Len(t)
    BY <1>1, <1>2
  <2>2. (s \o x)[Len(s) + k] = x[k]
    BY <2>1, JoinedParts
  <2> QED BY <2>1, <2>2
<1> QED BY <1>1, <1>2, <1>3, <1>4

(* That t is s and then x, and that t starts with s. *)
Extends(t, s, x) ==
  /\ Len(t) = Len(s) + Len(x)
  /\ \A k \in 1..Len(s) : k \in 1..Len(t) /\ t[k] = s[k]
  /\ \A k \in 1..Len(x) : Len(s) + k \in 1..Len(t) /\ t[Len(s) + k] = x[k]

StartsWith(t, s) == \A k \in 1..Len(s) : k \in 1..Len(t) /\ t[k] = s[k]

(* What is appended extends what was there. *)
LEMMA AppendedIs ==
  ASSUME NEW s \in Seq(Bytes), NEW x \in Seq(Bytes)
  PROVE  s \o x \in Seq(Bytes) /\ Extends(s \o x, s, x) /\ Len(s) \in Nat /\ Len(x) \in Nat
<1> DEFINE t == s \o x
<1>1. /\ t \in Seq(Bytes) /\ Len(t) = Len(s) + Len(x)
      /\ Len(s) \in Nat /\ Len(x) \in Nat /\ Len(t) \in Nat
      /\ \A k \in 1..Len(s) : k \in 1..Len(t) /\ t[k] = s[k]
      /\ \A k \in 1..Len(x) : Len(s) + k \in 1..Len(t) /\ t[Len(s) + k] = x[k]
  BY Appended
<1> HIDE DEF t
<1>2. Extends(t, s, x)
  BY <1>1 DEF Extends
<1> QED BY <1>1, <1>2 DEF t

(* What starts a list starts what extends it. *)
LEMMA StartsTransitive ==
  ASSUME NEW s, NEW t, NEW u, NEW x, StartsWith(t, s), Extends(u, t, x)
  PROVE  StartsWith(u, s)
BY DEF StartsWith, Extends

(* What was appended stays where it is. *)
LEMMA StartsReads ==
  ASSUME NEW s, NEW x, NEW t, NEW u, Extends(t, s, x), StartsWith(u, t)
  PROVE  \A k \in 1..Len(x) : Len(s) + k \in 1..Len(u) /\ u[Len(s) + k] = x[k]
BY DEF StartsWith, Extends

(* What extends a list starts with it, and so does what starts with that. *)
LEMMA ExtendsStarts ==
  ASSUME NEW s, NEW t, NEW x, Extends(t, s, x)
  PROVE  StartsWith(t, s) /\ \A e : StartsWith(e, t) => StartsWith(e, s)
BY DEF StartsWith, Extends

(* A number of zeros. *)
LEMMA ZerosType == \A n \in Nat : Zeros(n) \in Seq(Bytes) /\ Len(Zeros(n)) = n
<1>1. Byte(0) \in Bytes
  BY DEF Byte, Bytes
<1> QED BY <1>1 DEF Zeros

(* The parts of a list, as plist_object_to_bplist writes them. *)
UpToBody(o)    == Zeros(HeaderLength) \o Body(o).bytes
UpToTable(o)   == UpToBody(o) \o IntTable(Body(o).offsets, OffWidth(o))
UpToUnused(o)  == UpToTable(o) \o Zeros(6)
UpToWidths(o)  == UpToUnused(o) \o <<Byte(OffWidth(o)), Byte(RefWidth(o))>>
UpToObjects(o) == UpToWidths(o) \o IntBytes(Analyze[o].objects, 8)
UpToRoot(o)    == UpToObjects(o) \o IntBytes(0, 8)
UpToEnd(o)     == UpToRoot(o) \o IntBytes(HeaderLength + Len(Body(o).bytes), 8)

(* The list, from one part of it to the next. *)
LEMMA PartsOfList ==
  ASSUME NEW o \in Objects
  PROVE  /\ UpToEnd(o) \in Seq(Bytes)
         /\ Extends(UpToBody(o), Zeros(HeaderLength), Body(o).bytes)
         /\ Extends(UpToTable(o), UpToBody(o), IntTable(Body(o).offsets, OffWidth(o)))
         /\ Extends(UpToUnused(o), UpToTable(o), Zeros(6))
         /\ Extends(UpToWidths(o), UpToUnused(o), <<Byte(OffWidth(o)), Byte(RefWidth(o))>>)
         /\ Extends(UpToObjects(o), UpToWidths(o), IntBytes(Analyze[o].objects, 8))
         /\ Extends(UpToRoot(o), UpToObjects(o), IntBytes(0, 8))
         /\ Extends(UpToEnd(o), UpToRoot(o), IntBytes(HeaderLength + Len(Body(o).bytes), 8))
         /\ Len(Body(o).bytes) \in Nat
<1> DEFINE b  == Body(o).bytes
           t  == IntTable(Body(o).offsets, OffWidth(o))
           w  == <<Byte(OffWidth(o)), Byte(RefWidth(o))>>
           n8 == IntBytes(Analyze[o].objects, 8)
           r8 == IntBytes(0, 8)
           e8 == IntBytes(HeaderLength + Len(Body(o).bytes), 8)
<1>1. b \in Seq(Bytes) /\ Body(o).offsets \in Seq(Nat) /\ Len(b) \in Nat
  BY BodyType, WrittenType
<1>2. t \in Seq(Bytes)
  BY <1>1, BodyType, IntTableType
<1>3. w \in Seq(Bytes)
  <2>1. OffWidth(o) \in Nat /\ RefWidth(o) \in Nat
    BY BodyType DEF Widths
  <2>2. Byte(OffWidth(o)) \in Bytes /\ Byte(RefWidth(o)) \in Bytes
    BY <2>1 DEF Byte, Bytes
  <2> QED BY <2>2
<1>4. n8 \in Seq(Bytes) /\ r8 \in Seq(Bytes) /\ e8 \in Seq(Bytes)
  <2>1. Analyze[o].objects \in Int
    BY BodyType DEF Sizes
  <2>2. HeaderLength + Len(Body(o).bytes) \in Int
    BY <1>1 DEF HeaderLength
  <2> QED BY <2>1, <2>2, EightBytesType
<1>5. Zeros(HeaderLength) \in Seq(Bytes) /\ Zeros(6) \in Seq(Bytes)
  BY ZerosType DEF HeaderLength
<1> HIDE DEF b, t, w, n8, r8, e8
<1>6. UpToBody(o) \in Seq(Bytes) /\ Extends(UpToBody(o), Zeros(HeaderLength), b)
  BY <1>1, <1>5, AppendedIs DEF UpToBody, b
<1>7. UpToTable(o) \in Seq(Bytes) /\ Extends(UpToTable(o), UpToBody(o), t)
  BY <1>2, <1>6, AppendedIs DEF UpToTable, t
<1>8. UpToUnused(o) \in Seq(Bytes) /\ Extends(UpToUnused(o), UpToTable(o), Zeros(6))
  BY <1>5, <1>7, AppendedIs DEF UpToUnused
<1>9. UpToWidths(o) \in Seq(Bytes) /\ Extends(UpToWidths(o), UpToUnused(o), w)
  BY <1>3, <1>8, AppendedIs DEF UpToWidths, w
<1>10. UpToObjects(o) \in Seq(Bytes) /\ Extends(UpToObjects(o), UpToWidths(o), n8)
  BY <1>4, <1>9, AppendedIs DEF UpToObjects, n8
<1>11. UpToRoot(o) \in Seq(Bytes) /\ Extends(UpToRoot(o), UpToObjects(o), r8)
  BY <1>4, <1>10, AppendedIs DEF UpToRoot, r8
<1>12. UpToEnd(o) \in Seq(Bytes) /\ Extends(UpToEnd(o), UpToRoot(o), e8)
  BY <1>4, <1>11, AppendedIs DEF UpToEnd, e8
<1> QED BY <1>1, <1>6, <1>7, <1>8, <1>9, <1>10, <1>11, <1>12 DEF b, t, w, n8, r8, e8

(* Where the parts are. *)
LEMMA LengthsOfList ==
  ASSUME NEW o \in Objects, NEW table, table = OffWidth(o) * Analyze[o].objects
  PROVE  /\ table \in Nat
         /\ Len(UpToBody(o)) = Before(o)
         /\ Len(UpToTable(o)) = Before(o) + table
         /\ Len(UpToUnused(o)) = Before(o) + table + 6
         /\ Len(UpToWidths(o)) = Before(o) + table + 8
         /\ Len(UpToObjects(o)) = Before(o) + table + 16
         /\ Len(UpToRoot(o)) = Before(o) + table + 24
         /\ Len(UpToEnd(o)) = Before(o) + table + 32
<1>1. Before(o) \in Nat /\ table \in Nat
  <2>1. Analyze[o].objects \in Nat
    BY BodyType DEF Sizes
  <2> QED BY <2>1, BodyType, TableLength
<1>2. Len(Zeros(HeaderLength)) = HeaderLength /\ Len(Zeros(6)) = 6
  BY ZerosType DEF HeaderLength
<1>3. Len(IntTable(Body(o).offsets, OffWidth(o))) = table
  BY BodyType, WrittenType, IntTableType
<1>4. Len(IntBytes(Analyze[o].objects, 8)) = 8 /\ Len(IntBytes(0, 8)) = 8
  <2>1. Analyze[o].objects \in Int
    BY BodyType DEF Sizes
  <2> QED BY <2>1, EightBytesType
<1>5. Len(IntBytes(HeaderLength + Len(Body(o).bytes), 8)) = 8
  <2>1. HeaderLength + Len(Body(o).bytes) \in Int
    BY <1>1, BodyType
  <2> QED BY <2>1, EightBytesType
<1>6. Len(<<Byte(OffWidth(o)), Byte(RefWidth(o))>>) = 2
  OBVIOUS
<1>7. Len(UpToBody(o)) = Before(o)
  <2>1. Len(UpToBody(o)) = Len(Zeros(HeaderLength)) + Len(Body(o).bytes)
    BY PartsOfList DEF Extends
  <2> QED BY <1>2, <2>1, BodyType
<1>8. Len(UpToTable(o)) = Before(o) + table
  BY <1>3, <1>7, PartsOfList DEF Extends
<1>9. Len(UpToUnused(o)) = Before(o) + table + 6
  BY <1>2, <1>8, PartsOfList DEF Extends
<1>10. Len(UpToWidths(o)) = Before(o) + table + 6 + 2
  BY <1>6, <1>9, PartsOfList DEF Extends
<1>11. Len(UpToObjects(o)) = Before(o) + table + 6 + 2 + 8
  BY <1>4, <1>10, PartsOfList DEF Extends
<1>12. Len(UpToRoot(o)) = Before(o) + table + 6 + 2 + 8 + 8
  BY <1>4, <1>11, PartsOfList DEF Extends
<1>13. Len(UpToEnd(o)) = Before(o) + table + 6 + 2 + 8 + 8 + 8
  BY <1>5, <1>12, PartsOfList DEF Extends
<1>14. \A b, t \in Nat : /\ b + t + 6 + 2 = b + t + 8
                         /\ b + t + 6 + 2 + 8 = b + t + 16
                         /\ b + t + 6 + 2 + 8 + 8 = b + t + 24
                         /\ b + t + 6 + 2 + 8 + 8 + 8 = b + t + 32
  OBVIOUS
<1>15. /\ Before(o) + table + 6 + 2 = Before(o) + table + 8
       /\ Before(o) + table + 6 + 2 + 8 = Before(o) + table + 16
       /\ Before(o) + table + 6 + 2 + 8 + 8 = Before(o) + table + 24
       /\ Before(o) + table + 6 + 2 + 8 + 8 + 8 = Before(o) + table + 32
  BY <1>1, <1>14
<1> QED BY <1>1, <1>7, <1>8, <1>9, <1>10, <1>11, <1>12, <1>13, <1>15, Zenon

(* No zeros follow a list that fills its buffer. *)
LEMMA NoZeros == \A s \in Seq(Bytes) : s \o Zeros(0) = s
<1>1. Zeros(0) = <<>>
  BY DEF Zeros
<1> QED BY <1>1

(* What plist_object_to_bplist writes fills what it allocates. *)
LEMMA BplistIs ==
  ASSUME NEW o \in Objects
  PROVE  /\ Bplist(o).bytes = UpToEnd(o)
         /\ Bplist(o).length = Len(UpToEnd(o))
         /\ Bplist(o).allocated = Len(UpToEnd(o))
<1> DEFINE table == OffWidth(o) * Analyze[o].objects
           buffer == Before(o) + Analyze[o].objects * OffWidth(o) + TrailerLength
<1>1. Bplist(o) = [bytes |-> UpToEnd(o) \o Zeros(buffer - Len(UpToEnd(o))),
                   length |-> Len(UpToEnd(o)), allocated |-> buffer]
  BY DEF Bplist, UpToEnd, UpToRoot, UpToObjects, UpToWidths, UpToUnused, UpToTable, UpToBody,
         Body, Before, OffWidth, RefWidth
<1>2. buffer = Before(o) + table + 32
  <2>1. Analyze[o].objects \in Nat /\ OffWidth(o) \in Widths
    BY BodyType DEF Sizes
  <2>2. Analyze[o].objects * OffWidth(o) = table
    BY <2>1, TableLength
  <2> QED BY <2>2 DEF TrailerLength
<1>3. Len(UpToEnd(o)) = Before(o) + table + 32 /\ Before(o) \in Nat /\ table \in Nat
  BY LengthsOfList, BodyType
<1> HIDE DEF buffer, table
<1>4. buffer - Len(UpToEnd(o)) = 0
  BY <1>2, <1>3
<1>5. UpToEnd(o) \o Zeros(buffer - Len(UpToEnd(o))) = UpToEnd(o)
  BY <1>4, PartsOfList, NoZeros
<1>6. Bplist(o) = [bytes |-> UpToEnd(o), length |-> Len(UpToEnd(o)), allocated |-> buffer]
  BY <1>1, <1>5
<1>7. buffer = Len(UpToEnd(o))
  BY <1>2, <1>3
<1> QED BY <1>6, <1>7

-----------------------------------------------------------------------------
(* What an object is read as. *)

(* The values of an array or a dictionary are among its children. *)
LEMMA ValuesAreChildren ==
  ASSUME NEW o \in Objects, o.type \in {"array", "dict"}, NEW i \in 1..Len(o.values)
  PROVE  o.values[i] \in Objects /\ Nesting[o.values[i]] < Nesting[o]
<1>1. CASE o.type = "array"
  <2>1. Children(o) = o.values
    BY <1>1 DEF Children
  <2> QED BY <2>1, ChildrenType
<1>2. CASE o.type = "dict"
  <2>1. i \in 1..Len(o.keys) /\ Len(o.keys) \in Nat /\ i \in Nat
    BY <1>2, Kinds
  <2>2. Children(o)[2 * i] = o.values[i]
    BY <1>2, <2>1, RefsOfDict
  <2>3. Len(Children(o)) = 2 * Len(o.keys)
    BY <1>2, RefsOfDict DEF RefsOf
  <2>4. 2 * i \in 1..Len(Children(o))
    BY <2>1, <2>3
  <2> QED BY <2>2, <2>4, ChildrenType
<1> QED BY <1>1, <1>2

(* What an object is read as depends on what is nested in it. *)
LEMMA ReadsAsLocal ==
  ASSUME NEW o \in Objects, NEW g, NEW h,
         \A c \in Objects : Nesting[c] < Nesting[o] => g[c] = h[c]
  PROVE  ReadsAsOne(o, g) = ReadsAsOne(o, h)
<1>1. CASE o.type = "array"
  <2>1. [i \in 1..Len(o.values) |-> g[o.values[i]]] = [i \in 1..Len(o.values) |-> h[o.values[i]]]
    BY <1>1, ValuesAreChildren
  <2> QED BY <1>1, <2>1 DEF ReadsAsOne
<1>2. CASE o.type = "dict"
  <2>1. Len(o.keys) = Len(o.values)
    BY <1>2, Kinds
  <2>2. [i \in 1..Len(o.keys) |-> g[o.values[i]]] = [i \in 1..Len(o.keys) |-> h[o.values[i]]]
    BY <1>2, <2>1, ValuesAreChildren
  <2> QED BY <1>2, <2>2 DEF ReadsAsOne
<1>3. CASE o.type \notin {"array", "dict"}
  BY <1>3 DEF ReadsAsOne
<1> QED BY <1>1, <1>2, <1>3

(* What objects are read as, by their nesting. *)
LEMMA ReadsAsUnfolds == \A o \in Objects : ReadsAs[o] = ReadsAsOne(o, ReadsAs)
<1> DEFINE D == Objects
           R(x, f) == ReadsAsOne(x, f)
           Good(n, f) == \A x \in D : Nesting[x] < n => f[x] = R(x, f)
<1>0. \A x \in D : Nesting[x] \in Nat
  BY ObjectsAssumption
<1>a. ASSUME NEW x \in D, NEW g, NEW h, \A y \in D : Nesting[y] < Nesting[x] => g[y] = h[y]
      PROVE  R(x, g) = R(x, h)
  BY <1>a, ReadsAsLocal
<1> HIDE DEF R, D
<1>1. \A n \in Nat : \E f : Good(n, f)
  <2> DEFINE S == {n \in Nat : ~(\E f : Good(n, f))}
  <2> SUFFICES ASSUME S # {} PROVE FALSE
    OBVIOUS
  <2>1. PICK n \in S : \A m \in S : n <= m
    <3> HIDE DEF S
    <3>1. S \in SUBSET Nat
      BY DEF S
    <3> QED BY <3>1, LeastNumber
  <2>2. Good(0, [x \in D |-> x])
    BY <1>0
  <2>3. n # 0 /\ n \in Nat
    BY <2>1, <2>2
  <2>4. PICK f : Good(n - 1, f)
    <3> HIDE DEF Good
    <3>1. n - 1 \in Nat /\ ~(n <= n - 1)
      BY <2>3
    <3> QED BY <2>1, <3>1
  <2> DEFINE g == [x \in D |-> R(x, f)]
  <2>5. \A x \in D : Nesting[x] < n - 1 => g[x] = f[x]
    BY <2>4
  <2>6. ASSUME NEW x \in D, Nesting[x] < n PROVE g[x] = R(x, g)
    <3>1. \A y \in D : Nesting[y] < Nesting[x] => Nesting[y] < n - 1
      BY <1>0, <2>3, <2>6
    <3>2. \A y \in D : Nesting[y] < Nesting[x] => g[y] = f[y]
      BY <2>5, <3>1
    <3> HIDE DEF g
    <3>3. R(x, g) = R(x, f)
      BY <1>a, <3>2
    <3>4. g[x] = R(x, f)
      BY DEF g
    <3> QED BY <3>3, <3>4
  <2>7. Good(n, g)
    BY <2>6
  <2> QED BY <2>1, <2>7
<1>2. ASSUME NEW n \in Nat, NEW m \in Nat, NEW f, NEW g, Good(n, f), Good(m, g),
             NEW x \in D, Nesting[x] < n, Nesting[x] < m
      PROVE  f[x] = g[x]
  <2> DEFINE S == {k \in Nat : \E y \in D : Nesting[y] = k /\ k < n /\ k < m /\ f[y] # g[y]}
  <2> SUFFICES ASSUME S # {} PROVE FALSE
    BY <1>0, <1>2
  <2>1. PICK k \in S : \A j \in S : k <= j
    <3> HIDE DEF S
    <3>1. S \in SUBSET Nat
      BY DEF S
    <3> QED BY <3>1, LeastNumber
  <2>2. PICK y \in D : Nesting[y] = k /\ k < n /\ k < m /\ f[y] # g[y]
    BY <2>1
  <2>3. \A z \in D : Nesting[z] < Nesting[y] => f[z] = g[z]
    <3> SUFFICES ASSUME NEW z \in D, Nesting[z] < Nesting[y], f[z] # g[z] PROVE FALSE
      OBVIOUS
    <3>0. Nesting[z] \in Nat /\ Nesting[z] < n /\ Nesting[z] < m
      BY <1>0, <2>2
    <3>1. Nesting[z] \in S
      BY <3>0
    <3> QED BY <2>1, <2>2, <3>0, <3>1
  <2>4. R(y, f) = R(y, g)
    BY <1>a, <2>3
  <2> QED BY <1>2, <2>2, <2>4
<1> DEFINE F == [n \in Nat |-> CHOOSE f : Good(n, f)]
           f == [x \in D |-> F[Nesting[x] + 1][x]]
<1>3. \A n \in Nat : Good(n, F[n])
  <2> HIDE DEF Good
  <2> QED BY <1>1
<1> HIDE DEF F
<1>4. ASSUME NEW x \in D PROVE f[x] = R(x, f)
  <2> DEFINE h == F[Nesting[x] + 1]
  <2>1. Nesting[x] + 1 \in Nat /\ Good(Nesting[x] + 1, h)
    BY <1>0, <1>3
  <2>2. \A y \in D : Nesting[y] < Nesting[x] => f[y] = h[y]
    <3> SUFFICES ASSUME NEW y \in D, Nesting[y] < Nesting[x] PROVE f[y] = h[y]
      OBVIOUS
    <3>1. Nesting[y] + 1 \in Nat /\ Good(Nesting[y] + 1, F[Nesting[y] + 1])
      BY <1>0, <1>3
    <3>2. Nesting[y] < Nesting[y] + 1 /\ Nesting[y] < Nesting[x] + 1
      BY <1>0
    <3> HIDE DEF Good, h
    <3>3. F[Nesting[y] + 1][y] = h[y]
      BY <1>2, <2>1, <3>1, <3>2
    <3> QED BY <3>3
  <2>3. R(x, h) = R(x, f)
    <3> HIDE DEF h, f
    <3> QED BY <1>a, <2>2
  <2>4. Nesting[x] < Nesting[x] + 1
    BY <1>0
  <2>5. h[x] = R(x, h) /\ f[x] = h[x]
    BY <2>1, <2>4
  <2> QED BY <2>3, <2>5
<1> DEFINE P(g) == g = [x \in D |-> R(x, g)]
<1>5. P(f)
  <2>1. \A x \in D : f[x] = R(x, f)
    BY <1>4
  <2>2. f = [x \in D |-> f[x]]
    OBVIOUS
  <2> HIDE DEF f
  <2> QED BY <2>1, <2>2
<1>6. ReadsAs = CHOOSE g : P(g)
  BY DEF ReadsAs, R, D
<1>7. P(ReadsAs)
  <2> HIDE DEF P, f
  <2> QED BY <1>5, <1>6
<1> QED BY <1>7 DEF R, D

-----------------------------------------------------------------------------
(* What is written stands in the list. *)

(* That s stands in d behind the position at. *)
Contains(d, at, s) == \A k \in 1..Len(s) : at + k \in 1..Len(d) /\ d[at + k] = s[k]

(* Where two sequences stand one behind the other, both stand. *)
LEMMA ContainsParts ==
  ASSUME NEW S, NEW s \in Seq(S), NEW t \in Seq(S), NEW d, NEW at \in Nat, Contains(d, at, s \o t)
  PROVE  Contains(d, at, s) /\ Contains(d, at + Len(s), t)
<1> DEFINE u == s \o t
<1>1. /\ Len(s) \in Nat /\ Len(t) \in Nat /\ Len(u) \in Nat
      /\ \A k \in 1..Len(s) : k \in 1..Len(u) /\ u[k] = s[k]
      /\ \A k \in 1..Len(t) : Len(s) + k \in 1..Len(u) /\ u[Len(s) + k] = t[k]
  BY Appended
<1> HIDE DEF u
<1>2. \A k \in 1..Len(u) : at + k \in 1..Len(d) /\ d[at + k] = u[k]
  BY DEF Contains, u
<1>3. Contains(d, at, s)
  BY <1>1, <1>2 DEF Contains
<1>4. ASSUME NEW k \in 1..Len(t) PROVE (at + Len(s)) + k \in 1..Len(d) /\ d[(at + Len(s)) + k] = t[k]
  <2>1. at + (Len(s) + k) \in 1..Len(d) /\ d[at + (Len(s) + k)] = t[k]
    BY <1>1, <1>2
  <2>2. at + (Len(s) + k) = (at + Len(s)) + k
    BY <1>1
  <2> QED BY <2>1, <2>2
<1> QED BY <1>3, <1>4 DEF Contains

(* That c, the object number i, stands somewhere in d, with its positions among
   offs, no more than n of them. *)
IsWritten(d, offs, written, c, i, n) ==
  /\ i \in Nat
  /\ \E a \in Nat : /\ Contains(d, a, written[<<c, a, i>>].bytes)
                    /\ Contains(offs, i, written[<<c, a, i>>].offsets)
                    /\ Len(written[<<c, a, i>>].offsets) <= n

(* What is written of an object is also within a larger depth. *)
LEMMA IsWrittenMore ==
  ASSUME NEW os \in Seq(Objects), NEW written \in [Spots -> Written], NEW d, NEW offs, NEW j \in 1..Len(os),
         NEW i, NEW n \in Nat, NEW m \in Nat, n <= m, IsWritten(d, offs, written, os[j], i, n)
  PROVE  IsWritten(d, offs, written, os[j], i, m)
<1>1. i \in Nat
  BY DEF IsWritten
<1>2. PICK a \in Nat : /\ Contains(d, a, written[<<os[j], a, i>>].bytes)
                       /\ Contains(offs, i, written[<<os[j], a, i>>].offsets)
                       /\ Len(written[<<os[j], a, i>>].offsets) <= n
  BY DEF IsWritten
<1>3. written[<<os[j], a, i>>] \in Written
  BY <1>1 DEF Spots
<1>4. Len(written[<<os[j], a, i>>].offsets) \in Nat
  BY <1>3, WrittenType
<1>5. Len(written[<<os[j], a, i>>].offsets) <= m
  BY <1>2, <1>4
<1> QED BY <1>1, <1>2, <1>5 DEF IsWritten

(* The numbers of two parts, by the place of the object. *)
AreHalves(s, t, lo, mid, hi, j) ==
  /\ j \in Nat /\ lo < j /\ j <= hi
  /\ s \in Seq(Nat) /\ t \in Seq(Nat)
  /\ lo \in Nat /\ mid \in Nat /\ hi \in Nat
  /\ Len(s) = mid - lo /\ Len(t) = hi - mid /\ lo < mid /\ mid < hi

OneOfHalves(s, t, lo, mid, hi, j) ==
  /\ j <= mid => (s \o t)[j - lo] = s[j - lo]
  /\ ~(j <= mid) => (s \o t)[j - lo] = t[j - mid]

(* Each number of two halves is one of a half. *)
LEMMA JoinedIds ==
  ASSUME NEW s, NEW t, NEW lo, NEW mid, NEW hi, NEW j, AreHalves(s, t, lo, mid, hi, j)
  PROVE  OneOfHalves(s, t, lo, mid, hi, j)
<1>0. /\ j \in Nat /\ lo < j /\ j <= hi
      /\ s \in Seq(Nat) /\ t \in Seq(Nat)
      /\ lo \in Nat /\ mid \in Nat /\ hi \in Nat
      /\ Len(s) = mid - lo /\ Len(t) = hi - mid /\ lo < mid /\ mid < hi
  BY DEF AreHalves
<1>1. ASSUME j <= mid PROVE (s \o t)[j - lo] = s[j - lo]
  <2>1. j - lo \in Nat /\ j - lo \in 1..Len(s)
    BY <1>0, <1>1
  <2>2. \A k \in Nat : k \in 1..Len(s) => (s \o t)[k] = s[k]
    BY <1>0, JoinedParts
  <2> QED BY <2>1, <2>2
<1>2. ASSUME ~(j <= mid) PROVE (s \o t)[j - lo] = t[j - mid]
  <2>1. j - mid \in Nat /\ j - mid \in 1..Len(t) /\ Len(s) + (j - mid) = j - lo
    BY <1>0, <1>2
  <2>2. \A k \in Nat : k \in 1..Len(t) => (s \o t)[Len(s) + k] = t[k]
    <3> SUFFICES ASSUME NEW k \in Nat, k \in 1..Len(t) PROVE (s \o t)[Len(s) + k] = t[k]
      OBVIOUS
    <3>1. s \in Seq(Nat) /\ t \in Seq(Nat)
      BY <1>0
    <3> HIDE <1>0, <1>2
    <3> QED BY <3>1, JoinedParts
  <2>3. (s \o t)[Len(s) + (j - mid)] = t[j - mid]
    BY <2>1, <2>2
  <2> QED BY <2>1, <2>3
<1> QED BY <1>1, <1>2 DEF OneOfHalves

(* If what InTurn writes stands in d, so does each of the objects, and has the
   number that InTurn says. *)
LEMMA InTurnWritten ==
  ASSUME NEW os \in Seq(Objects), NEW written \in [Spots -> Written],
         NEW at \in Nat, NEW id \in Nat, NEW d, NEW offs,
         Contains(d, at, InTurn(os, written, at, id).bytes),
         Contains(offs, id, InTurn(os, written, at, id).offsets)
  PROVE  \A j \in 1..Len(os) :
           IsWritten(d, offs, written, os[j], InTurn(os, written, at, id).ids[j],
                     Len(InTurn(os, written, at, id).offsets))
<1>1. PICK part \in [Parts(os) -> Part] :
        /\ \A p \in Parts(os) : part[p] = WriteBetween(os, written, part, p[1], p[2], p[3], p[4])
        /\ \A a, i \in Nat : InTurn(os, written, a, i) = part[<<0, Len(os), a, i>>]
  BY InTurnUnfolds
<1> DEFINE D == Parts(os)
           rank == [p \in D |-> IF p[2] - p[1] >= 0 THEN p[2] - p[1] ELSE 0]
           Stands(p) == Contains(d, p[3], part[p].bytes) /\ Contains(offs, p[4], part[p].offsets)
           Good(p) == Stands(p) => \A j \in 1..Len(os) : p[1] < j /\ j <= p[2] =>
                        IsWritten(d, offs, written, os[j], part[p].ids[j - p[1]], Len(part[p].offsets))
           S == {rank[p] : p \in {q \in D : ~Good(q)}}
<1>2. \A p \in D : Len(part[p].ids) = IF p[2] <= p[1] THEN 0 ELSE p[2] - p[1]
  BY <1>1, IdsLength
<1>3. \A p \in D : rank[p] \in Nat
  BY PartsType
<1>4. \A p, q \in D : q[2] - q[1] < p[2] - p[1] /\ q[1] < q[2] => rank[q] < rank[p]
  BY NearerPlaces
<1>5. \A p \in D : Good(p)
  <2> HIDE DEF rank, Good, Stands
  <2> SUFFICES ASSUME S # {} PROVE FALSE
    OBVIOUS
  <2>3. PICK n \in S : \A m \in S : n <= m
    <3>1. S \in SUBSET Nat
      BY <1>3
    <3> HIDE DEF S
    <3> QED BY <3>1, LeastNumber
  <2>4. PICK p \in D : n = rank[p] /\ ~Good(p)
    BY <2>3
  <2>5. ASSUME NEW q \in D, q[2] - q[1] < p[2] - p[1], q[1] < q[2] PROVE Good(q)
    <3> SUFFICES ASSUME ~Good(q) PROVE FALSE
      OBVIOUS
    <3>1. rank[q] \in S
      OBVIOUS
    <3>2. rank[q] < rank[p]
      BY <1>4, <2>5
    <3>3. rank[p] <= rank[q] /\ rank[p] \in Nat /\ rank[q] \in Nat
      BY <1>3, <2>3, <2>4, <3>1
    <3> QED BY <3>2, <3>3
  <2> DEFINE lo == p[1]
             hi == p[2]
             a0 == p[3]
             i0 == p[4]
  <2>6. /\ lo \in 0..Len(os) /\ hi \in 0..Len(os) /\ a0 \in Nat /\ i0 \in Nat
        /\ lo \in Nat /\ hi \in Nat
    BY PartsType
  <2>7. part[p] = WriteBetween(os, written, part, lo, hi, a0, i0)
    BY <1>1
  <2>8. Stands(p)
    BY <2>4 DEF Good
  <2>9. PICK j \in 1..Len(os) :
          /\ lo < j /\ j <= hi
          /\ ~IsWritten(d, offs, written, os[j], part[p].ids[j - lo], Len(part[p].offsets))
    BY <2>4 DEF Good
  <2>11. CASE hi = lo + 1
    <3>1. j = hi /\ ~(hi <= lo) /\ j - lo = 1
      BY <2>6, <2>9, <2>11
    <3> DEFINE one == written[<<os[hi], a0, i0>>]
    <3>2. part[p] = [bytes |-> one.bytes, offsets |-> one.offsets, ids |-> <<i0>>]
      BY <2>7, <2>11, <3>1, WriteSingle DEF WriteOne
    <3>3. one \in Written /\ Len(one.offsets) \in Nat
      <4>1. one \in Written
        <5>1. hi \in 1..Len(os)
          BY <2>6, <3>1
        <5> HIDE DEF hi, a0, i0
        <5>2. os[hi] \in Objects
          BY <5>1
        <5>3. <<os[hi], a0, i0>> \in Spots
          BY <2>6, <5>2 DEF Spots
        <5> QED BY <5>3
      <4> QED BY <4>1, WrittenType
    <3>4. Contains(d, a0, part[p].bytes) /\ Contains(offs, i0, part[p].offsets)
      BY <2>8 DEF Stands
    <3> HIDE DEF one, lo, hi, a0, i0
    <3>5. part[p].bytes = one.bytes /\ part[p].offsets = one.offsets /\ part[p].ids[1] = i0
      BY <3>2
    <3>6. Contains(d, a0, one.bytes) /\ Contains(offs, i0, one.offsets) /\ Len(one.offsets) <= Len(one.offsets)
      BY <3>3, <3>4, <3>5
    <3>7. IsWritten(d, offs, written, os[hi], i0, Len(one.offsets))
      BY <2>6, <3>6 DEF IsWritten, one
    <3> QED BY <2>9, <3>1, <3>5, <3>7
  <2>12. CASE hi # lo + 1
    <3> DEFINE mid == (lo + hi) \div 2
               a == part[<<lo, mid, a0, i0>>]
               at1 == a0 + Len(a.bytes)
               id1 == i0 + Len(a.offsets)
               b == part[<<mid, hi, at1, id1>>]
    <3>0. ~(hi <= lo)
      BY <2>6, <2>9
    <3>1. /\ mid - lo < hi - lo /\ hi - mid < hi - lo /\ mid \in 0..Len(os) /\ lo < mid /\ mid < hi
          /\ mid \in Nat
          /\ \A x, i \in Nat : <<lo, mid, x, i>> \in Parts(os) /\ <<mid, hi, x, i>> \in Parts(os)
      <4>1. IsMiddle(os, lo, mid, hi)
        BY <2>6, <2>12, <3>0, WriteHalves
      <4> QED BY <4>1 DEF IsMiddle
    <3>2. part[p] = Both(a, b)
      BY <2>7, <2>12, <3>0, WriteTwoHalves DEF WriteHalf
    <3>3. Contains(d, a0, part[p].bytes) /\ Contains(offs, i0, part[p].offsets)
      BY <2>8 DEF Stands
    <3> HIDE DEF mid, lo, hi, a0, i0
    <3>5. <<lo, mid, a0, i0>> \in D /\ a \in Part
      BY <2>6, <3>1
    <3>6. at1 \in Nat /\ id1 \in Nat
      <4> HIDE DEF a
      <4>1. Len(a.bytes) \in Nat /\ Len(a.offsets) \in Nat
        BY <3>5, PartType
      <4>2. a0 \in Nat /\ i0 \in Nat
        BY <2>6
      <4>3. \A x, y \in Nat : x + y \in Nat
        OBVIOUS
      <4> QED BY <4>1, <4>2, <4>3, Zenon
    <3>7. <<mid, hi, at1, id1>> \in D /\ b \in Part
      <4> HIDE DEF at1, id1
      <4> QED BY <3>1, <3>6
    <3>8. Good(<<lo, mid, a0, i0>>)
      BY <2>5, <3>1, <3>5 DEF lo, hi
    <3>9. Good(<<mid, hi, at1, id1>>)
      <4> HIDE DEF at1, id1
      <4> QED BY <2>5, <3>1, <3>7 DEF lo, hi
    <3>10. Len(a.ids) = mid - lo
      BY <1>2, <2>6, <3>1, <3>5
    <3>21. Len(b.ids) = hi - mid
      <4> HIDE DEF at1, id1
      <4> DEFINE r == <<mid, hi, at1, id1>>
      <4>1. r \in D /\ r[1] = mid /\ r[2] = hi
        BY <3>7
      <4> HIDE DEF r
      <4>2. Len(part[r].ids) = IF hi <= mid THEN 0 ELSE hi - mid
        BY <1>2, <4>1
      <4>3. hi \in Nat /\ mid \in Nat /\ ~(hi <= mid)
        BY <2>6, <3>1 DEF hi
      <4> QED BY <4>2, <4>3 DEF r
    <3>11. /\ Contains(d, a0, a.bytes) /\ Contains(d, at1, b.bytes)
           /\ Contains(offs, i0, a.offsets) /\ Contains(offs, id1, b.offsets)
      <4> HIDE DEF a, b
      <4>1. /\ a.bytes \in Seq(Bytes) /\ b.bytes \in Seq(Bytes)
            /\ a.offsets \in Seq(Nat) /\ b.offsets \in Seq(Nat)
        BY <3>5, <3>7, PartType
      <4>2. part[p].bytes = a.bytes \o b.bytes /\ part[p].offsets = a.offsets \o b.offsets
        <5>1. Both(a, b).bytes = a.bytes \o b.bytes /\ Both(a, b).offsets = a.offsets \o b.offsets
          BY <3>5, <3>7, BothType, Zenon
        <5> QED BY <3>2, <5>1, Zenon
      <4>3. Contains(d, a0, a.bytes) /\ Contains(d, a0 + Len(a.bytes), b.bytes)
        <5>1. Contains(d, a0, a.bytes \o b.bytes) /\ a0 \in Nat
          BY <2>6, <3>3, <4>2
        <5> QED BY <4>1, <5>1, ContainsParts
      <4>4. Contains(offs, i0, a.offsets) /\ Contains(offs, i0 + Len(a.offsets), b.offsets)
        <5>1. Contains(offs, i0, a.offsets \o b.offsets) /\ i0 \in Nat
          BY <2>6, <3>3, <4>2
        <5> QED BY <4>1, <5>1, ContainsParts
      <4> QED BY <4>3, <4>4
    <3> HIDE DEF at1, id1
    <3>12. Stands(<<lo, mid, a0, i0>>) /\ Stands(<<mid, hi, at1, id1>>)
      BY <3>11 DEF Stands
    <3>13. lo < j /\ j <= mid => IsWritten(d, offs, written, os[j], a.ids[j - lo], Len(a.offsets))
      BY <3>8, <3>12 DEF Good
    <3>14. mid < j /\ j <= hi => IsWritten(d, offs, written, os[j], b.ids[j - mid], Len(b.offsets))
      BY <3>9, <3>12 DEF Good
    <3> HIDE DEF a, b
    <3>15. /\ part[p].ids = a.ids \o b.ids
           /\ Len(part[p].offsets) = Len(a.offsets) + Len(b.offsets)
      <4>1. Both(a, b).ids = a.ids \o b.ids /\ Len(Both(a, b).offsets) = Len(a.offsets) + Len(b.offsets)
        BY <3>5, <3>7, BothType, Zenon
      <4> QED BY <3>2, <4>1, Zenon
    <3>16. /\ a.ids \in Seq(Nat) /\ b.ids \in Seq(Nat)
           /\ Len(a.offsets) \in Nat /\ Len(b.offsets) \in Nat /\ Len(b.ids) \in Nat
      BY <3>5, <3>7, PartType
    <3>17. Len(part[p].offsets) \in Nat /\ Len(a.offsets) <= Len(part[p].offsets)
           /\ Len(b.offsets) <= Len(part[p].offsets)
      <4>1. \A x, y \in Nat : x + y \in Nat /\ x <= x + y /\ y <= x + y
        OBVIOUS
      <4>2. Len(a.offsets) \in Nat /\ Len(b.offsets) \in Nat
        BY <3>16
      <4> QED BY <3>15, <4>1, <4>2
    <3>18. j \in Nat
      OBVIOUS
    <3>22. /\ j <= mid => (a.ids \o b.ids)[j - lo] = a.ids[j - lo]
           /\ ~(j <= mid) => (a.ids \o b.ids)[j - lo] = b.ids[j - mid]
      <4>1. lo < j /\ j <= hi
        BY <2>9 DEF lo, hi
      <4>2. a.ids \in Seq(Nat) /\ b.ids \in Seq(Nat)
        BY <3>16
      <4>3. /\ lo \in Nat /\ mid \in Nat /\ hi \in Nat /\ j \in Nat
            /\ Len(a.ids) = mid - lo /\ Len(b.ids) = hi - mid /\ lo < mid /\ mid < hi
        BY <2>6, <3>1, <3>10, <3>18, <3>21
      <4>4. AreHalves(a.ids, b.ids, lo, mid, hi, j)
        BY <4>1, <4>2, <4>3 DEF AreHalves
      <4>5. OneOfHalves(a.ids, b.ids, lo, mid, hi, j)
        BY <4>4, JoinedIds
      <4> QED BY <4>5 DEF OneOfHalves
    <3>19. CASE j <= mid
      <4>1. part[p].ids[j - lo] = a.ids[j - lo]
        BY <3>15, <3>19, <3>22
      <4>2. IsWritten(d, offs, written, os[j], a.ids[j - lo], Len(a.offsets))
        BY <2>9, <3>13, <3>19 DEF lo
      <4>3. IsWritten(d, offs, written, os[j], a.ids[j - lo], Len(part[p].offsets))
        BY <3>16, <3>17, <4>2, IsWrittenMore
      <4> QED BY <2>9, <4>1, <4>3 DEF lo
    <3>20. CASE ~(j <= mid)
      <4>1. part[p].ids[j - lo] = b.ids[j - mid]
        BY <3>15, <3>20, <3>22
      <4>2. IsWritten(d, offs, written, os[j], b.ids[j - mid], Len(b.offsets))
        <5>1. mid < j /\ j <= hi
          BY <2>9, <3>1, <3>18, <3>20 DEF hi
        <5> QED BY <3>14, <5>1
      <4>3. IsWritten(d, offs, written, os[j], b.ids[j - mid], Len(part[p].offsets))
        BY <3>16, <3>17, <4>2, IsWrittenMore
      <4> QED BY <2>9, <4>1, <4>3 DEF lo
    <3> QED BY <3>19, <3>20
  <2> QED BY <2>11, <2>12
<1>6. <<0, Len(os), at, id>> \in D /\ Len(os) \in Nat
  BY DEF Parts
<1> DEFINE q == <<0, Len(os), at, id>>
<1>7. Good(q)
  BY <1>5, <1>6
<1>8. q[1] = 0 /\ q[2] = Len(os) /\ q[3] = at /\ q[4] = id /\ InTurn(os, written, at, id) = part[q]
  BY <1>1
<1> HIDE DEF q
<1>9. Stands(q)
  BY <1>8
<1>10. \A j \in 1..Len(os) : q[1] < j /\ j <= q[2] /\ j - q[1] = j
  BY <1>6, <1>8
<1> HIDE DEF Stands
<1> QED BY <1>7, <1>8, <1>9, <1>10

(* What stands in the start of a list stands in the list. *)
LEMMA ContainsMore ==
  ASSUME NEW d, NEW u, NEW at, NEW s, Contains(d, at, s), StartsWith(u, d)
  PROVE  Contains(u, at, s)
BY DEF Contains, StartsWith

(* What stands in a list does not reach beyond its end. *)
LEMMA ContainsReaches ==
  ASSUME NEW d, Len(d) \in Nat, NEW at \in Nat, NEW s, Len(s) \in Nat, Len(s) # 0, Contains(d, at, s)
  PROVE  at + Len(s) <= Len(d) /\ at < Len(d)
<1>1. at + Len(s) \in 1..Len(d)
  BY DEF Contains
<1> QED BY <1>1

(* The parts of an object that stands in d. *)
StandsAt(d, offs, w, o, at, id, ids, n) ==
  /\ ids \in Seq(Nat) /\ Len(ids) = RefsOf(o)
  /\ n # 0
  /\ id + 1 \in 1..Len(offs) /\ offs[id + 1] = at
  /\ Contains(d, at, Own(o))
  /\ Contains(d, at + Len(Own(o)), IntTable(RefOrder(o, ids), w))
  /\ \A j \in 1..RefsOf(o) : IsWritten(d, offs, Serialize(w), Children(o)[j], ids[j], n - 1)

(* Of an object that is written, its own bytes and its references stand. *)
LEMMA WrittenStands ==
  ASSUME NEW w \in Widths, NEW o \in Objects, NEW id, NEW n \in Nat, NEW d, NEW offs,
         IsWritten(d, offs, Serialize(w), o, id, n)
  PROVE  id \in Nat /\ \E at \in Nat : \E ids : StandsAt(d, offs, w, o, at, id, ids, n)
<1> DEFINE F == Serialize(w)
<1>1. F \in [Spots -> Written]
  BY SerializeUnfolds
<1>2. PICK at \in Nat : /\ Contains(d, at, F[<<o, at, id>>].bytes)
                        /\ Contains(offs, id, F[<<o, at, id>>].offsets)
                        /\ Len(F[<<o, at, id>>].offsets) <= n
  BY DEF IsWritten
<1>3. id \in Nat
  BY DEF IsWritten
<1>4. F[<<o, at, id>>] = SerializeOne(o, at, id, w, F)
  BY <1>3, SerializeUnfolds
<1> HIDE DEF F
<1> DEFINE all == Inner(o, at, id, w, F)
           ids == all.ids
           t   == Table(o, at, id, w, F)
<1>5. /\ Own(o) \in Seq(Bytes) /\ t \in Seq(Bytes) /\ all \in Part
      /\ Len(ids) = RefsOf(o) /\ RefsOf(o) \in Nat /\ From(o, at, w) \in Nat
      /\ Len(Own(o)) \in Nat /\ Len(t) = w * RefsOf(o) /\ w * RefsOf(o) \in Nat
  <2>1. all \in Part /\ Len(ids) = RefsOf(o)
    BY <1>1, <1>3, InnerType
  <2>2. t \in Seq(Bytes) /\ Len(t) = w * RefsOf(o)
    BY <1>1, <1>3, TableType
  <2> HIDE DEF all, ids, t
  <2> QED BY <2>1, <2>2, FromParts
<1>6. F[<<o, at, id>>] = [bytes |-> Own(o) \o t \o all.bytes, offsets |-> <<at>> \o all.offsets]
  BY <1>4, SerializeOneIs
<1>7. all = InTurn(Children(o), F, From(o, at, w), id + 1)
  BY DEF Inner
<1>8. t = IntTable(RefOrder(o, ids), w)
  BY DEF Table
<1> HIDE DEF all, t
<1>9. F[<<o, at, id>>].bytes = Own(o) \o t \o all.bytes /\ F[<<o, at, id>>].offsets = <<at>> \o all.offsets
  <2> DEFINE x == Own(o) \o t \o all.bytes
             y == <<at>> \o all.offsets
  <2>1. F[<<o, at, id>>] = [bytes |-> x, offsets |-> y]
    BY <1>6
  <2> HIDE DEF x, y
  <2>2. F[<<o, at, id>>].bytes = x /\ F[<<o, at, id>>].offsets = y
    BY <2>1
  <2> QED BY <2>2 DEF x, y
<1>10. /\ all.bytes \in Seq(Bytes) /\ all.offsets \in Seq(Nat) /\ ids \in Seq(Nat)
       /\ Len(all.offsets) \in Nat
  BY <1>5, PartType
<1>11. /\ Contains(d, at, Own(o)) /\ Contains(d, at + Len(Own(o)), t)
       /\ Contains(d, From(o, at, w), all.bytes)
  <2>1. Own(o) \o t \in Seq(Bytes) /\ Len(Own(o) \o t) = Len(Own(o)) + Len(t)
    BY <1>5, JoinedType
  <2>2. Contains(d, at, Own(o) \o t) /\ Contains(d, at + Len(Own(o) \o t), all.bytes)
    <3> DEFINE h == Own(o) \o t
    <3>1. h \in Seq(Bytes)
      BY <2>1
    <3>2. Contains(d, at, h \o all.bytes)
      BY <1>2, <1>9
    <3> HIDE DEF h
    <3>3. Contains(d, at, h) /\ Contains(d, at + Len(h), all.bytes)
      BY <1>10, <3>1, <3>2, ContainsParts
    <3> QED BY <3>3 DEF h
  <2>3. Contains(d, at, Own(o)) /\ Contains(d, at + Len(Own(o)), t)
    BY <1>5, <2>2, ContainsParts
  <2>4. at + Len(Own(o) \o t) = From(o, at, w)
    <3>1. \A x, y, z \in Nat : x + (y + z) = x + y + z
      OBVIOUS
    <3>2. at + (Len(Own(o)) + w * RefsOf(o)) = at + Len(Own(o)) + w * RefsOf(o)
      BY <1>5, <3>1
    <3> QED BY <1>5, <2>1, <3>2 DEF From
  <2> QED BY <2>2, <2>3, <2>4
<1>12. /\ Contains(offs, id, <<at>>) /\ Contains(offs, id + 1, all.offsets)
       /\ Len(F[<<o, at, id>>].offsets) = 1 + Len(all.offsets)
  <2>1. <<at>> \in Seq(Nat) /\ Len(<<at>>) = 1
    OBVIOUS
  <2> DEFINE h == <<at>>
  <2> HIDE DEF h
  <2>2. h \in Seq(Nat) /\ Len(h) = 1
    BY <2>1 DEF h
  <2>3. Contains(offs, id, h \o all.offsets)
    BY <1>2, <1>9 DEF h
  <2>4. Contains(offs, id, h) /\ Contains(offs, id + Len(h), all.offsets)
    BY <1>3, <1>10, <2>2, <2>3, ContainsParts
  <2>5. Len(h \o all.offsets) = Len(h) + Len(all.offsets)
    BY <1>10, <2>2, JoinedType
  <2> QED BY <1>9, <2>2, <2>4, <2>5 DEF h
<1>13. id + 1 \in 1..Len(offs) /\ offs[id + 1] = at
  <2>1. <<at>>[1] = at /\ 1 \in 1..Len(<<at>>)
    OBVIOUS
  <2> QED BY <1>12, <2>1 DEF Contains
<1>14. n # 0 /\ n - 1 \in Nat /\ Len(all.offsets) <= n - 1
  BY <1>2, <1>10, <1>12
<1>15. ASSUME NEW j \in 1..RefsOf(o)
       PROVE  IsWritten(d, offs, F, Children(o)[j], ids[j], n - 1)
  <2>1. Children(o) \in Seq(Objects) /\ j \in 1..Len(Children(o))
    BY ChildrenType DEF RefsOf
  <2>2. id + 1 \in Nat
    BY <1>3
  <2>3. IsWritten(d, offs, F, Children(o)[j], all.ids[j], Len(all.offsets))
    BY <1>1, <1>5, <1>7, <1>11, <1>12, <2>1, <2>2, InTurnWritten
  <2> QED BY <1>1, <1>10, <1>14, <2>1, <2>3, IsWrittenMore
<1> HIDE DEF ids
<1>16. StandsAt(d, offs, w, o, at, id, ids, n)
  BY <1>5, <1>8, <1>10, <1>11, <1>13, <1>14, <1>15 DEF StandsAt, F, ids
<1> QED BY <1>3, <1>16

(* A number of a table is read where it stands. *)
LEMMA EntryIsRead ==
  ASSUME NEW w \in Widths, NEW ns \in Seq(Nat), NEW d, NEW at \in Nat, Contains(d, at, IntTable(ns, w)),
         NEW i \in 1..Len(ns), Fits(ns[i], w)
  PROVE  ReadInt(d, at + (i - 1) * w, w) = ns[i]
<1>1. i \in Nat /\ i - 1 \in Nat /\ ns[i] \in Int
  OBVIOUS
<1>2. w * (i - 1) \in Nat /\ (i - 1) * w = w * (i - 1)
  BY <1>1, TableLength
<1> DEFINE x == w * (i - 1)
<1>3. Len(IntTable(ns, w)) = w * Len(ns)
  BY IntTableType
<1>4. ASSUME NEW k \in 1..w PROVE d[(at + x) + k] = IntBytes(ns[i], w)[k]
  <2>1. x + k \in 1..Len(IntTable(ns, w)) /\ IntTable(ns, w)[x + k] = IntBytes(ns[i], w)[k]
    BY <1>3, IntTableValues
  <2>2. d[at + (x + k)] = IntTable(ns, w)[x + k]
    BY <2>1 DEF Contains
  <2> HIDE DEF x
  <2>3. at + (x + k) = (at + x) + k
    <3>1. w \in Nat
      BY DEF Widths
    <3> QED BY <1>2, <3>1 DEF x
  <2> QED BY <2>1, <2>2, <2>3
<1>5. at + x \in Nat
  BY <1>2
<1> HIDE DEF x
<1>6. ReadInt(d, at + x, w) = ns[i]
  BY <1>1, <1>4, <1>5, IntIsRead DEF Shows
<1> QED BY <1>2, <1>6 DEF x

(* What is less than a number of 32 bits is one. *)
LEMMA ShortLess == \A n \in Nat : \A m \in 0..n : Short(n) => Short(m)
<1>1. \A n \in Nat : \A m \in 0..n : m \div 65536 <= n \div 65536 /\ m \div 65536 \in Int /\ n \div 65536 \in Int
  OBVIOUS
<1>2. \A n \in Nat : \A m \in 0..n : High(m) <= High(n) /\ High(m) \in Int /\ High(n) \in Int
  BY <1>1 DEF High
<1> QED BY <1>2 DEF Short

(* The head of an object, which tells its type and a length. *)
LEMMA HeadIsRead ==
  ASSUME NEW type \in {"data", "string", "array", "dict"}, NEW n \in Nat, Short(n), NEW d, NEW at \in Nat,
         Contains(d, at, HeadOf(type, n)), Len(d) \in Nat
  PROVE  /\ at < Len(d)
         /\ At(d, at).type = type
         /\ LengthAt(d, at) = [ok |-> TRUE, n |-> n, next |-> at + Len(HeadOf(type, n))]
<1> DEFINE w == Width(n)
           h == HeadOf(type, n)
<1>0. h \in Seq(Bytes) /\ Len(h) = HeadLength(n, w)
  BY HeadOfType
<1>1. Len(h) = HeadLength(n, w) /\ Len(h) \in Nat
  <2> HIDE DEF h
  <2> QED BY <1>0
<1>2. w \in Widths /\ WidthLog(w) \in 0..3 /\ 2 ^ WidthLog(w) = w
  BY WidthType, WidthLogType
<1>3. Len(h) # 0
  BY <1>1, <1>2 DEF HeadLength, Widths
<1>4. at + Len(h) <= Len(d) /\ at < Len(d)
  BY <1>1, <1>3, ContainsReaches
<1>5. CASE n < 15
  <2>1. h = <<Tag(type, n)>>
    BY <1>5 DEF HeadOf
  <2>2. Len(h) = 1 /\ h[1] = Tag(type, n)
    BY <2>1
  <2>3. d[at + 1] = Tag(type, n)
    BY <2>2 DEF Contains
  <2>4. At(d, at).type = type /\ At(d, at).low = n
    BY <2>3 DEF At, Tag
  <2>5. LengthAt(d, at) = [ok |-> TRUE, n |-> n, next |-> at + 1]
    BY <1>5, <2>4 DEF LengthAt
  <2> QED BY <1>4, <2>2, <2>4, <2>5
<1>6. CASE ~(n < 15)
  <2> DEFINE s == <<Tag(type, 15), Tag("integer", WidthLog(w))>>
             t == IntBytes(n, w)
  <2>1. h = s \o t
    BY <1>6 DEF HeadOf
  <2>2. s \in Seq(Bytes) /\ Len(s) = 2 /\ s[1] = Tag(type, 15) /\ s[2] = Tag("integer", WidthLog(w))
    <3>1. Tag(type, 15) \in Bytes /\ Tag("integer", WidthLog(w)) \in Bytes
      BY <1>2 DEF Tag, Bytes
    <3> QED BY <3>1
  <2>3. t \in Seq(Bytes) /\ Len(t) = w
    BY <1>2, IntBytesType
  <2> HIDE DEF s, t, w
  <2>4. Contains(d, at, s) /\ Contains(d, at + 2, t)
    <3>1. Contains(d, at, s \o t)
      BY <2>1
    <3>2. Contains(d, at, s) /\ Contains(d, at + Len(s), t)
      BY <2>2, <2>3, <3>1, ContainsParts
    <3> QED BY <2>2, <3>2
  <2>5. d[at + 1] = Tag(type, 15) /\ d[at + 2] = Tag("integer", WidthLog(w))
    BY <2>2, <2>4 DEF Contains
  <2>6. /\ At(d, at).type = type /\ At(d, at).low = 15
        /\ At(d, at + 1).type = "integer" /\ At(d, at + 1).low = WidthLog(w)
    <3>1. (at + 1) + 1 = at + 2
      OBVIOUS
    <3> QED BY <2>5, <3>1 DEF At, Tag
  <2>7. ReadInt(d, at + 2, w) = n
    <3>1. \A k \in 1..w : d[(at + 2) + k] = t[k]
      BY <2>3, <2>4 DEF Contains
    <3>2. Fits(n, w)
      BY ShortIsInt64, WidthFits DEF w
    <3>3. n \in Int /\ at + 2 \in Nat
      OBVIOUS
    <3>4. Shows(d, at + 2, n, w)
      BY <3>1 DEF t, Shows
    <3> QED BY <1>2, <3>2, <3>3, <3>4, IntIsRead
  <2>8. Len(h) = 2 + w /\ w \in Nat
    BY <1>1, <1>2, <1>6 DEF HeadLength, Widths
  <2>9. at + 2 + w <= Len(d) /\ at + 1 < Len(d) /\ at + Len(h) = at + 2 + w
    <3>1. w # 0
      BY <1>2 DEF Widths
    <3>2. at + (2 + w) = at + 2 + w
      BY <2>8
    <3> QED BY <1>4, <2>8, <3>1, <3>2
  <2>10. LengthAt(d, at) = [ok |-> n >= 0, n |-> n, next |-> at + 2 + w]
    <3>1. 2 ^ At(d, at + 1).low = w
      BY <1>2, <2>6
    <3>2. ~(At(d, at).low < 15)
      BY <2>6
    <3> QED BY <1>2, <2>6, <2>7, <2>9, <3>1, <3>2 DEF LengthAt
  <2>11. (n >= 0) = TRUE
    OBVIOUS
  <2> QED BY <1>4, <2>6, <2>9, <2>10, <2>11
<1> QED BY <1>5, <1>6

-----------------------------------------------------------------------------
(* Reading an object without references. *)

(* What is read of an object is never the null pointer. *)
LEMMA NeverNull == \A o \in Objects : ReadsAs[o] # Null
<1> SUFFICES ASSUME NEW o \in Objects PROVE ReadsAs[o].type # "null"
  BY DEF Null
<1> DEFINE f == [i \in 1..8 |-> o.order[9 - i]]
           g == [i \in 1..Len(o.values) |-> ReadsAs[o.values[i]]]
           h == [i \in 1..Len(o.keys) |-> ReadsAs[o.values[i]]]
<1>1. ReadsAs[o] = CASE o.type = "null"  -> Primitive(0)
                     [] o.type = "real"  -> Real(f)
                     [] o.type = "array" -> Array(g)
                     [] o.type = "dict"  -> Dict(o.keys, h)
                     [] OTHER -> o
  BY ReadsAsUnfolds DEF ReadsAsOne
<1> HIDE DEF f, g, h
<1> QED BY <1>1 DEF Primitive, Real, Array, Dict

(* What is read of an object that refers to no other. *)
LEMMA ParseSimple ==
  ASSUME NEW d, NEW refs, NEW w, NEW id, NEW inner, NEW at, NEW n, NEW next,
         At(refs, id) = at, ~(at >= Len(d)), At(d, at).type \notin {"array", "dict"},
         LengthAt(d, at) = [ok |-> TRUE, n |-> n, next |-> next]
  PROVE  ParseOne(d, refs, w, id, inner) = ReadSimple(d, At(d, at).type, n, next)
<1>1. LengthAt(d, at).ok /\ LengthAt(d, at).n = n /\ LengthAt(d, at).next = next
  OBVIOUS
<1> QED BY <1>1 DEF ParseOne

(* That x follows a byte of type t and number n at the position at. *)
TagAt(d, at, t, n, x) ==
  /\ ~(at >= Len(d)) /\ at + 1 \in Nat /\ (at + 1) + Len(x) <= Len(d)
  /\ At(d, at).type = t /\ At(d, at).low = n
  /\ Contains(d, at + 1, x)

(* The byte that starts an object. *)
LEMMA TagIsRead ==
  ASSUME NEW d, NEW at \in Nat, NEW t, NEW n, NEW x \in Seq(Bytes), Tag(t, n) \in Bytes, Len(d) \in Nat,
         Contains(d, at, <<Tag(t, n)>> \o x)
  PROVE  TagAt(d, at, t, n, x)
<1> SUFFICES /\ ~(at >= Len(d)) /\ at + 1 \in Nat /\ (at + 1) + Len(x) <= Len(d)
             /\ At(d, at).type = t /\ At(d, at).low = n
             /\ Contains(d, at + 1, x)
  BY DEF TagAt
<1> DEFINE s == <<Tag(t, n)>>
<1>1. s \in Seq(Bytes) /\ Len(s) = 1 /\ s[1] = Tag(t, n)
  OBVIOUS
<1> HIDE DEF s
<1>2. Contains(d, at, s) /\ Contains(d, at + 1, x)
  <2>1. Contains(d, at, s \o x)
    BY DEF s
  <2> QED BY <1>1, <2>1, ContainsParts
<1>3. at + 1 \in 1..Len(d) /\ d[at + 1] = Tag(t, n)
  BY <1>1, <1>2 DEF Contains
<1>4. (at + 1) + Len(x) <= Len(d)
  <2>1. Len(x) \in Nat
    OBVIOUS
  <2>2. CASE Len(x) = 0
    BY <1>3, <2>2
  <2>3. CASE Len(x) # 0
    <3>1. at + 1 \in Nat
      OBVIOUS
    <3> DEFINE a == at + 1
    <3> HIDE DEF a
    <3>2. a + Len(x) \in 1..Len(d)
      BY <1>2, <2>1, <2>3 DEF Contains, a
    <3>3. a + Len(x) <= Len(d)
      BY <3>2
    <3> QED BY <3>3 DEF a
  <2> QED BY <2>2, <2>3
<1>5. At(d, at).type = t /\ At(d, at).low = n
  BY <1>3 DEF At, Tag
<1> QED BY <1>2, <1>3, <1>4, <1>5

(* A length below 15 is read from the byte that starts an object. *)
LEMMA NumberIsRead ==
  ASSUME NEW d, NEW at, NEW n, At(d, at).low = n, n < 15
  PROVE  LengthAt(d, at) = [ok |-> TRUE, n |-> n, next |-> at + 1]
BY DEF LengthAt

(* Nothing may follow. *)
LEMMA EmptyJoined == \A s \in Seq(Bytes) : s = s \o <<>>
OBVIOUS

(* Null, a primitive, an integer, a real, data and a text are read as they
   were written. *)
LEMMA SimpleIsRead ==
  ASSUME NEW o \in Objects, o.type # "array", o.type # "dict", NEW at \in Nat, NEW d, Len(d) \in Nat,
         Short(Len(d)), Contains(d, at, Own(o)), NEW refs, NEW w, NEW id, NEW inner, At(refs, id) = at
  PROVE  ParseOne(d, refs, w, id, inner) = ReadsAs[o]
<1>0. ReadsAs[o] = ReadsAsOne(o, ReadsAs)
  BY ReadsAsUnfolds
<1>1. CASE o.type \in {"null", "primitive"}
  <2> DEFINE n == IF o.type = "null" THEN 0 ELSE o.code
  <2>1. n < 15 /\ n \in Nat /\ Tag("primitive", n) \in Bytes
    <3>1. n < 15 /\ n \in Nat
      BY <1>1, Kinds DEF TrueCode, FalseCode
    <3> QED BY <3>1 DEF Tag, Bytes
  <2>2. Own(o) = <<Tag("primitive", n)>>
    BY <1>1 DEF Own
  <2>3. ReadsAs[o] = Primitive(n)
    BY <1>0, <1>1, Kinds DEF ReadsAsOne
  <2> HIDE DEF n
  <2>4. Own(o) = <<Tag("primitive", n)>> \o <<>> /\ <<>> \in Seq(Bytes)
    <3>1. <<Tag("primitive", n)>> \in Seq(Bytes)
      BY <2>1
    <3> QED BY <2>2, <3>1, EmptyJoined
  <2>5. ~(at >= Len(d)) /\ At(d, at).type = "primitive" /\ At(d, at).low = n
    <3> DEFINE e == <<>>
    <3> HIDE DEF e
    <3>1. e \in Seq(Bytes) /\ Contains(d, at, <<Tag("primitive", n)>> \o e)
      BY <2>4 DEF e
    <3> QED BY <2>1, <3>1, TagIsRead DEF TagAt
  <2>6. LengthAt(d, at) = [ok |-> TRUE, n |-> n, next |-> at + 1]
    BY <2>1, <2>5, NumberIsRead
  <2>7. ParseOne(d, refs, w, id, inner) = ReadSimple(d, "primitive", n, at + 1)
    BY <2>5, <2>6, ParseSimple
  <2>8. ReadSimple(d, "primitive", n, at + 1) = Primitive(n)
    BY DEF ReadSimple
  <2> QED BY <2>3, <2>7, <2>8
<1>2. CASE o.type = "integer"
  <2> DEFINE v == Width(o.int)
             x == IntBytes(o.int, v)
             n == WidthLog(v)
  <2>0. o.int \in Int /\ Int64(o.int) /\ o = Integer(o.int)
    BY <1>2, Kinds
  <2>1. v \in Widths /\ n \in 0..3 /\ 2 ^ n = v
    BY <2>0, WidthType, WidthLogType
  <2>2. x \in Seq(Bytes) /\ Len(x) = v
    BY <2>0, <2>1, IntBytesType
  <2>3. Own(o) = <<Tag("integer", n)>> \o x
    BY <1>2 DEF Own
  <2>4. ReadsAs[o] = Integer(o.int)
    BY <1>0, <1>2, <2>0 DEF ReadsAsOne
  <2>5. Fits(o.int, v)
    BY <2>0, WidthFits
  <2> HIDE DEF v, x, n
  <2>6. Tag("integer", n) \in Bytes /\ n < 15
    BY <2>1 DEF Tag, Bytes
  <2>7. /\ ~(at >= Len(d)) /\ at + 1 \in Nat /\ (at + 1) + Len(x) <= Len(d)
        /\ At(d, at).type = "integer" /\ At(d, at).low = n
        /\ Contains(d, at + 1, x)
    <3>1. TagAt(d, at, "integer", n, x)
      BY <2>2, <2>3, <2>6, TagIsRead
    <3> QED BY <3>1 DEF TagAt
  <2>8. LengthAt(d, at) = [ok |-> TRUE, n |-> n, next |-> at + 1]
    BY <2>6, <2>7, NumberIsRead
  <2>9. ParseOne(d, refs, w, id, inner) = ReadSimple(d, "integer", n, at + 1)
    BY <2>7, <2>8, ParseSimple
  <2>10. ReadInt(d, at + 1, v) = o.int
    <3>1. \A k \in 1..v : d[(at + 1) + k] = IntBytes(o.int, v)[k]
      BY <2>2, <2>7 DEF Contains, x
    <3>2. Shows(d, at + 1, o.int, v)
      BY <3>1 DEF Shows
    <3> QED BY <2>0, <2>1, <2>5, <2>7, <3>2, IntIsRead
  <2>11. ReadSimple(d, "integer", n, at + 1) = Integer(o.int)
    <3>1. (at + 1) + 2 ^ n <= Len(d) /\ 2 ^ n \in Widths
      BY <2>1, <2>2, <2>7
    <3>2. ReadInt(d, at + 1, 2 ^ n) = o.int
      BY <2>1, <2>10
    <3> QED BY <3>1, <3>2 DEF ReadSimple
  <2> QED BY <2>4, <2>9, <2>11
<1>3. CASE o.type = "real"
  <2> DEFINE x == [i \in 1..8 |-> Byte(o.order[9 - i])]
  <2>0. o.order \in [1..8 -> Octet]
    BY <1>3, Kinds
  <2>1. x \in Seq(Bytes) /\ Len(x) = 8
    <3>1. \A i \in 1..8 : 9 - i \in 1..8
      OBVIOUS
    <3>2. \A i \in 1..8 : Byte(o.order[9 - i]) \in Bytes
      BY <2>0, <3>1, OctetType
    <3> QED BY <3>2
  <2>2. \A i \in 1..8 : x[i].low = o.order[9 - i]
    BY DEF Byte
  <2>3. Own(o) = <<Tag("real", 3)>> \o x
    BY <1>3 DEF Own
  <2>4. ReadsAs[o] = Real([i \in 1..8 |-> o.order[9 - i]])
    BY <1>0, <1>3 DEF ReadsAsOne
  <2> HIDE DEF x
  <2>6. Tag("real", 3) \in Bytes
    BY DEF Tag, Bytes
  <2>7. /\ ~(at >= Len(d)) /\ at + 1 \in Nat /\ (at + 1) + Len(x) <= Len(d)
        /\ At(d, at).type = "real" /\ At(d, at).low = 3
        /\ Contains(d, at + 1, x)
    <3>1. TagAt(d, at, "real", 3, x)
      BY <2>1, <2>3, <2>6, TagIsRead
    <3> QED BY <3>1 DEF TagAt
  <2>8. LengthAt(d, at) = [ok |-> TRUE, n |-> 3, next |-> at + 1]
    BY <2>7, NumberIsRead
  <2>9. ParseOne(d, refs, w, id, inner) = ReadSimple(d, "real", 3, at + 1)
    BY <2>7, <2>8, ParseSimple
  <2>10. Characters(d, at + 1, 8) = [i \in 1..8 |-> o.order[9 - i]]
    <3>1. \A i \in 1..8 : ((at + 1) + i - 1) + 1 = (at + 1) + i
      OBVIOUS
    <3>2. \A i \in 1..8 : d[(at + 1) + i] = x[i]
      BY <2>1, <2>7 DEF Contains
    <3>3. \A i \in 1..8 : At(d, (at + 1) + i - 1).low = o.order[9 - i]
      BY <2>2, <3>1, <3>2 DEF At
    <3> QED BY <3>3 DEF Characters
  <2>11. 2 ^ 3 = 8
    <3>1. 2 ^ 3 = 2 * 2 * 2
      OBVIOUS
    <3> QED BY <3>1
  <2>12. ReadSimple(d, "real", 3, at + 1) = ReadReal(d, at + 1, 8)
    BY <2>1, <2>7, <2>11 DEF ReadSimple
  <2>13. ReadReal(d, at + 1, 8) = Real(Characters(d, at + 1, 8))
    BY DEF ReadReal
  <2> QED BY <2>4, <2>9, <2>10, <2>12, <2>13
<1>4. CASE o.type \in {"data", "string"}
  <2> DEFINE n == Len(o.chars)
             h == HeadOf(o.type, n)
             x == [i \in 1..n |-> Byte(o.chars[i])]
  <2>0. o.chars \in Seq(Octet) /\ n \in Nat /\ o = Text(o.type, o.chars)
    BY <1>4, Kinds
  <2>1. x \in Seq(Bytes) /\ Len(x) = n
    <3>1. \A i \in 1..n : o.chars[i] \in Octet
      BY <2>0
    <3>2. \A i \in 1..n : Byte(o.chars[i]) \in Bytes
      BY <3>1, OctetType
    <3> QED BY <2>0, <3>2
  <2>2. \A i \in 1..n : x[i].low = o.chars[i]
    BY DEF Byte
  <2>3. Own(o) = h \o x
    BY <1>4 DEF Own
  <2>4. ReadsAs[o] = Text(o.type, o.chars)
    BY <1>0, <1>4, <2>0 DEF ReadsAsOne
  <2>5. h \in Seq(Bytes)
    BY <1>4, <2>0, HeadOfType
  <2>14. o.chars = [i \in 1..n |-> o.chars[i]]
    BY <2>0
  <2>15. Len(h) \in Nat
    BY <2>5
  <2> HIDE DEF n, h, x
  <2>6. Contains(d, at, h) /\ Contains(d, at + Len(h), x)
    BY <2>1, <2>3, <2>5, ContainsParts
  <2>7. (at + Len(h)) + n <= Len(d) /\ at + Len(h) \in Nat
    <3> DEFINE a == at + Len(h)
    <3>1. a \in Nat
      BY <2>15
    <3> HIDE DEF a
    <3>2. CASE n = 0
      <4>0. Len(h) = HeadLength(n, Width(n))
        BY <1>4, <2>0, HeadOfType DEF h
      <4>1. Len(h) # 0
        BY <3>2, <4>0 DEF HeadLength
      <4>2. at + Len(h) <= Len(d)
        BY <2>6, <2>15, <4>1, ContainsReaches
      <4> QED BY <2>15, <3>1, <3>2, <4>2 DEF a
    <3>3. CASE n # 0
      <4>1. a + Len(x) <= Len(d)
        BY <2>0, <2>1, <2>6, <3>1, <3>3, ContainsReaches DEF a, n
      <4> QED BY <2>1, <3>1, <4>1 DEF a
    <3> QED BY <3>2, <3>3
  <2>8. Short(n)
    <3>2. \A a, k, l \in Nat : a + k <= l => k \in 0..l
      OBVIOUS
    <3>3. n \in Nat
      BY <2>0 DEF n
    <3>1. n \in 0..Len(d)
      BY <2>7, <3>2, <3>3
    <3> QED BY <3>1, ShortLess
  <2>9. /\ at < Len(d) /\ At(d, at).type = o.type
        /\ LengthAt(d, at) = [ok |-> TRUE, n |-> n, next |-> at + Len(h)]
    <3>1. n \in Nat
      BY <2>0 DEF n
    <3>2. o.type \in {"data", "string", "array", "dict"}
      BY <1>4
    <3>3. Contains(d, at, HeadOf(o.type, n))
      BY <2>6 DEF h
    <3> DEFINE t == o.type
    <3> HIDE DEF t
    <3>4. /\ at < Len(d) /\ At(d, at).type = t
          /\ LengthAt(d, at) = [ok |-> TRUE, n |-> n, next |-> at + Len(HeadOf(t, n))]
      BY <2>8, <3>1, <3>2, <3>3, HeadIsRead DEF t
    <3> QED BY <3>4 DEF h, t
  <2>10. ParseOne(d, refs, w, id, inner) = ReadSimple(d, o.type, n, at + Len(h))
    <3>1. ~(at >= Len(d))
      BY <2>9
    <3> QED BY <2>9, <3>1, ParseSimple
  <2>11. Characters(d, at + Len(h), n) = o.chars
    <3> DEFINE a == at + Len(h)
    <3> HIDE DEF a
    <3>1. \A i \in 1..n : (a + i - 1) + 1 = a + i
      <4>1. a \in Nat
        BY <2>7 DEF a
      <4> QED BY <4>1
    <3>2. \A i \in 1..n : d[a + i] = x[i]
      BY <2>1, <2>6 DEF Contains, a
    <3>3. \A i \in 1..n : At(d, a + i - 1).low = o.chars[i]
      BY <2>2, <3>1, <3>2 DEF At
    <3>4. Characters(d, a, n) = [i \in 1..n |-> o.chars[i]]
      BY <3>3 DEF Characters
    <3> QED BY <2>14, <3>4 DEF a
  <2>12. ReadSimple(d, o.type, n, at + Len(h)) = Text(o.type, Characters(d, at + Len(h), n))
    BY <1>4, <2>7 DEF ReadSimple
  <2> QED BY <2>4, <2>10, <2>11, <2>12
<1> QED BY <1>1, <1>2, <1>3, <1>4, Kinds

-----------------------------------------------------------------------------
(* Reading an array. *)

(* A concatenation with nothing changes nothing. *)
LEMMA Untouched == \A n \in Nat : \A f : <<>> \o [i \in 1..n |-> f[i]] = [i \in 1..n |-> f[i]]
<1> SUFFICES ASSUME NEW n \in Nat, NEW f PROVE <<>> \o [i \in 1..n |-> f[i]] = [i \in 1..n |-> f[i]]
  OBVIOUS
<1> DEFINE S == {f[i] : i \in 1..n}
           s == [i \in 1..n |-> f[i]]
<1>1. s \in Seq(S)
  OBVIOUS
<1> HIDE DEF s, S
<1>2. <<>> \o s = s
  BY <1>1
<1> QED BY <1>2 DEF s

(* That the reference number i, of those that stand at next, leads to x; and
   that n references lead to what kid says. *)
LeadsTo(d, refs, w, inner, next, i, x) ==
  /\ ReadInt(d, next + (i - 1) * w, w) \in 0..(Len(refs) - 1)
  /\ inner[ReadInt(d, next + (i - 1) * w, w)] = x
  /\ x # Null

Lead(d, refs, w, inner, next, n, kid) ==
  \A i \in 1..n : LeadsTo(d, refs, w, inner, next, i, kid[i])

(* What is read of an array and of a dictionary. *)
LEMMA ParseArray ==
  ASSUME NEW d, NEW refs, NEW w \in Widths, NEW id, NEW inner, NEW at, NEW n \in Nat, NEW next, NEW kid,
         At(refs, id) = at, ~(at >= Len(d)), At(d, at).type = "array",
         LengthAt(d, at) = [ok |-> TRUE, n |-> n, next |-> next],
         ~(next + n * w > Len(d)), Lead(d, refs, w, inner, next, n, kid)
  PROVE  ParseOne(d, refs, w, id, inner) = Array([i \in 1..n |-> kid[i]])
<1>1. LengthAt(d, at).ok /\ LengthAt(d, at).n = n /\ LengthAt(d, at).next = next
  OBVIOUS
<1> DEFINE ref(i) == ReadInt(d, next + (i - 1) * w, w)
           s == [i \in 1..n |-> IF ref(i) \in 0..(Len(refs) - 1) THEN inner[ref(i)] ELSE Null]
           k == [i \in 1..n |-> kid[i]]
<1>2. s = k
  BY DEF Lead, LeadsTo
<1>3. <<>> \o s = k
  BY <1>2, Untouched
<1>4. \A i \in 1..n : k[i] # Null
  BY DEF Lead, LeadsTo
<1> DEFINE t == <<>> \o s
<1>5. ParseOne(d, refs, w, id, inner) =
        IF \/ next + n * w > Len(d) \/ (n > 0 /\ w \notin Widths) \/ \E i \in 1..n : t[i] = Null
        THEN Null ELSE Array(t)
  <2> HIDE DEF t
  <2>1. t = <<>> \o [i \in 1..n |-> IF ref(i) \in 0..(Len(refs) - 1) THEN inner[ref(i)] ELSE Null]
    BY DEF t
  <2> QED BY <1>1, <2>1 DEF ParseOne
<1>6. t = k
  BY <1>3
<1> HIDE DEF t, k
<1> QED BY <1>4, <1>5, <1>6 DEF k

(* A dictionary is read from what its references lead to. *)
LEMMA ParseDict ==
  ASSUME NEW d, NEW refs, NEW w \in Widths, NEW id, NEW inner, NEW at, NEW n \in Nat, NEW next, NEW kid,
         At(refs, id) = at, ~(at >= Len(d)), At(d, at).type = "dict",
         LengthAt(d, at) = [ok |-> TRUE, n |-> n, next |-> next],
         ~(next + (2 * n) * w > Len(d)), Lead(d, refs, w, inner, next, 2 * n, kid)
  PROVE  ParseOne(d, refs, w, id, inner) = ReadDict(n, [i \in 1..(2 * n) |-> kid[i]])
<1>1. LengthAt(d, at).ok /\ LengthAt(d, at).n = n /\ LengthAt(d, at).next = next
  OBVIOUS
<1> DEFINE m == 2 * n
           ref(i) == ReadInt(d, next + (i - 1) * w, w)
           s == [i \in 1..m |-> IF ref(i) \in 0..(Len(refs) - 1) THEN inner[ref(i)] ELSE Null]
           k == [i \in 1..m |-> kid[i]]
<1>0. m \in Nat
  OBVIOUS
<1> HIDE DEF m
<1>2. s = k
  BY DEF Lead, LeadsTo, m
<1>3. <<>> \o s = k
  BY <1>0, <1>2, Untouched
<1>4. \A i \in 1..m : k[i] # Null
  BY DEF Lead, LeadsTo, m
<1> DEFINE t == <<>> \o s
<1>5. ParseOne(d, refs, w, id, inner) =
        IF \/ next + m * w > Len(d) \/ (m > 0 /\ w \notin Widths) \/ \E i \in 1..m : t[i] = Null
        THEN Null ELSE ReadDict(n, t)
  <2> HIDE DEF t
  <2>1. t = <<>> \o [i \in 1..m |-> IF ref(i) \in 0..(Len(refs) - 1) THEN inner[ref(i)] ELSE Null]
    BY DEF t
  <2> QED BY <1>1, <2>1 DEF ParseOne, m
<1>6. t = k
  BY <1>3
<1>7. ~(next + m * w > Len(d))
  BY DEF m
<1> HIDE DEF t, k
<1>8. ParseOne(d, refs, w, id, inner) = ReadDict(n, k)
  BY <1>4, <1>5, <1>6, <1>7
<1> QED BY <1>8 DEF k, m

(* The references in their order. *)
LEMMA RefOrderParts ==
  ASSUME NEW o \in Objects, NEW ids
  PROVE  /\ o.type # "dict" => RefOrder(o, ids) = ids
         /\ o.type = "dict" /\ Len(ids) = RefsOf(o) =>
              \A k \in 1..Len(o.keys) :
                /\ RefOrder(o, ids)[k] = ids[2 * k - 1]
                /\ RefOrder(o, ids)[Len(o.keys) + k] = ids[2 * k]
<1>1. o.type # "dict" => RefOrder(o, ids) = ids
  BY DEF RefOrder
<1>2. ASSUME o.type = "dict", Len(ids) = RefsOf(o), NEW k \in 1..Len(o.keys)
      PROVE  RefOrder(o, ids)[k] = ids[2 * k - 1] /\ RefOrder(o, ids)[Len(o.keys) + k] = ids[2 * k]
  <2> DEFINE n == Len(o.keys)
  <2>1. n \in Nat /\ Len(ids) = 2 * n
    BY <1>2, RefsOfDict
  <2> HIDE DEF n
  <2>2. RefOrder(o, ids) = [j \in 1..(2 * n) |-> IF j <= n THEN ids[2 * j - 1] ELSE ids[2 * (j - n)]]
    BY <1>2, <2>1 DEF RefOrder, n
  <2>3. k \in 1..(2 * n) /\ n + k \in 1..(2 * n) /\ k <= n /\ ~(n + k <= n) /\ (n + k) - n = k
    BY <2>1 DEF n
  <2> QED BY <2>2, <2>3 DEF n
<1> QED BY <1>1, <1>2

(* Where an object stands with its references, each of which leads to what is
   read of a child, it is read. *)
Known(d, refs, w, o, ids, inner) ==
  /\ ids \in Seq(Nat) /\ Len(ids) = RefsOf(o)
  /\ \A j \in 1..RefsOf(o) :
       /\ ids[j] \in 0..(Len(refs) - 1)
       /\ Fits(ids[j], w)
       /\ inner[ids[j]] = ReadsAs[Children(o)[j]]

(* A reference leads to the child whose number it is. *)
LEMMA KnownLeads ==
  ASSUME NEW w \in Widths, NEW d, NEW refs, NEW inner, NEW next \in Nat, NEW o \in Objects, NEW ids,
         Known(d, refs, w, o, ids, inner), Contains(d, next, IntTable(RefOrder(o, ids), w)),
         NEW i \in 1..RefsOf(o), NEW j \in 1..RefsOf(o), RefOrder(o, ids)[i] = ids[j]
  PROVE  LeadsTo(d, refs, w, inner, next, i, ReadsAs[Children(o)[j]])
<1> DEFINE ns == RefOrder(o, ids)
<1>1. ns \in Seq(Nat) /\ Len(ns) = RefsOf(o)
  BY RefOrderType DEF Known
<1>2. Fits(ns[i], w)
  BY DEF Known
<1>3. ReadInt(d, next + (i - 1) * w, w) = ns[i]
  <2> HIDE DEF ns
  <2>1. Contains(d, next, IntTable(ns, w)) /\ i \in 1..Len(ns)
    BY <1>1 DEF ns
  <2> QED BY <1>1, <1>2, <2>1, EntryIsRead
<1>4. Children(o)[j] \in Objects
  BY ChildrenType DEF RefsOf
<1> QED BY <1>3, <1>4, NeverNull DEF Known, LeadsTo

(* A table of references that stands in a list ends in it. *)
LEMMA TableReaches ==
  ASSUME NEW w \in Widths, NEW d, Len(d) \in Nat, NEW next \in Nat, next <= Len(d), NEW ns \in Seq(Nat),
         Contains(d, next, IntTable(ns, w))
  PROVE  ~(next + Len(ns) * w > Len(d))
<1>1. IntTable(ns, w) \in Seq(Bytes) /\ Len(IntTable(ns, w)) = w * Len(ns)
  BY IntTableType
<1>2. Len(ns) \in Nat
  OBVIOUS
<1>3. w * Len(ns) \in Nat /\ Len(ns) * w = w * Len(ns)
  BY <1>2, TableLength
<1> DEFINE x == w * Len(ns)
<1> HIDE DEF x
<1>4. CASE x = 0
  BY <1>3, <1>4 DEF x
<1>5. CASE x # 0
  <2>1. next + x <= Len(d)
    BY <1>1, <1>3, <1>5, ContainsReaches DEF x
  <2> QED BY <1>3, <2>1 DEF x
<1> QED BY <1>4, <1>5

(* An array is read as it should be, if what it refers to is. *)
LEMMA ArrayIsRead ==
  ASSUME NEW o \in Objects, o.type = "array", NEW w \in Widths, NEW at \in Nat, NEW d, Len(d) \in Nat,
         Short(Len(d)), NEW refs, NEW id, NEW inner, NEW ids, At(refs, id) = at,
         Contains(d, at, Own(o)), Contains(d, at + Len(Own(o)), IntTable(RefOrder(o, ids), w)),
         Known(d, refs, w, o, ids, inner)
  PROVE  ParseOne(d, refs, w, id, inner) = ReadsAs[o]
<1> DEFINE n == Len(o.values)
           next == at + Len(Own(o))
           kid == [i \in 1..n |-> ReadsAs[o.values[i]]]
<1>1. n \in Nat /\ Children(o) = o.values /\ RefsOf(o) = n
  <2>1. o.values \in Seq(Objects)
    BY Kinds
  <2> QED BY <2>1 DEF Children, RefsOf
<1>2. Own(o) = HeadOf("array", n) /\ Own(o) \in Seq(Bytes) /\ Len(Own(o)) # 0
  BY OwnType DEF Own
<1>3. Len(Own(o)) \in Nat /\ next \in Nat
  BY OwnType
<1>4. next <= Len(d)
  BY <1>2, <1>3, ContainsReaches
<1>5. ids \in Seq(Nat) /\ Len(ids) = n /\ RefOrder(o, ids) = ids
  BY <1>1, RefOrderParts DEF Known
<1>6. ~(next + n * w > Len(d))
  BY <1>3, <1>4, <1>5, TableReaches
<1>7. Short(n)
  <2>1. n * w = w * n /\ n <= w * n /\ w * n \in Nat
    BY <1>1, TableLength
  <2>2. n \in 0..Len(d)
    <3> DEFINE x == n * w
    <3>1. x \in Nat /\ n <= x /\ ~(next + x > Len(d))
      BY <1>6, <2>1
    <3> HIDE DEF x, next
    <3>2. \A a, b, c, l \in Nat : a <= b /\ ~(c + b > l) => a \in 0..l
      OBVIOUS
    <3>3. next \in Nat
      BY <1>3
    <3> HIDE DEF n
    <3> QED BY <1>1, <3>1, <3>2, <3>3
  <2> QED BY <2>2, ShortLess
<1>8. /\ ~(at >= Len(d)) /\ At(d, at).type = "array"
      /\ LengthAt(d, at) = [ok |-> TRUE, n |-> n, next |-> next]
  <2>1. Contains(d, at, HeadOf("array", n))
    BY <1>2
  <2>2. /\ at < Len(d) /\ At(d, at).type = "array"
        /\ LengthAt(d, at) = [ok |-> TRUE, n |-> n, next |-> at + Len(HeadOf("array", n))]
    <3>1. "array" \in {"data", "string", "array", "dict"} /\ "dict" \in {"data", "string", "array", "dict"}
      OBVIOUS
    <3> HIDE DEF n
    <3> QED BY <1>1, <1>7, <2>1, <3>1, HeadIsRead
  <2>3. ~(at >= Len(d))
    BY <2>2
  <2> QED BY <1>2, <2>2, <2>3
<1>9. Lead(d, refs, w, inner, next, n, kid)
  <2> SUFFICES ASSUME NEW i \in 1..n PROVE LeadsTo(d, refs, w, inner, next, i, kid[i])
    BY DEF Lead
  <2>1. RefOrder(o, ids)[i] = ids[i] /\ kid[i] = ReadsAs[Children(o)[i]] /\ i \in 1..RefsOf(o)
    BY <1>1, <1>5
  <2>2. Contains(d, next, IntTable(RefOrder(o, ids), w))
    OBVIOUS
  <2>4. next \in Nat
    BY <1>3
  <2> HIDE DEF next, kid, n
  <2>3. LeadsTo(d, refs, w, inner, next, i, ReadsAs[Children(o)[i]])
    BY <2>1, <2>2, <2>4, KnownLeads
  <2> QED BY <2>1, <2>3
<1>10. ReadsAs[o] = Array([i \in 1..n |-> kid[i]])
  <2>1. ReadsAs[o] = Array([i \in 1..n |-> ReadsAs[o.values[i]]])
    BY ReadsAsUnfolds DEF ReadsAsOne
  <2>2. [i \in 1..n |-> kid[i]] = [i \in 1..n |-> ReadsAs[o.values[i]]]
    OBVIOUS
  <2> QED BY <2>1, <2>2
<1> HIDE DEF n, next, kid
<1> QED BY <1>1, <1>6, <1>8, <1>9, <1>10, ParseArray

-----------------------------------------------------------------------------
(* Reading a dictionary. *)

(* What is read of the keys and the values of a dictionary, in the order of
   its references. *)
KeysThenValues(o) ==
  [i \in 1..(2 * Len(o.keys)) |->
     IF i <= Len(o.keys) THEN Text("string", o.keys[i]) ELSE ReadsAs[o.values[i - Len(o.keys)]]]

(* A key is read as the text that it is. *)
LEMMA KeyIsRead ==
  ASSUME NEW o \in Objects, o.type = "dict", NEW i \in 1..Len(o.keys)
  PROVE  ReadsAs[Text("string", o.keys[i])] = Text("string", o.keys[i])
<1> DEFINE t == Text("string", o.keys[i])
<1>1. Len(o.keys) \in Nat /\ Children(o)[2 * i - 1] = t /\ Len(Children(o)) = 2 * Len(o.keys)
  BY RefsOfDict DEF RefsOf
<1>2. 2 * i - 1 \in 1..Len(Children(o))
  BY <1>1
<1>3. t \in Objects
  BY <1>1, <1>2, ChildrenType
<1>4. t.type = "string"
  BY DEF Text
<1> HIDE DEF t
<1>5. ReadsAs[t] = t
  BY <1>3, <1>4, ReadsAsUnfolds DEF ReadsAsOne
<1> QED BY <1>5 DEF t

(* The references of a dictionary lead to its keys, then to its values. *)
LEMMA DictLeads ==
  ASSUME NEW o \in Objects, o.type = "dict", NEW w \in Widths, NEW d, NEW refs, NEW inner, NEW next \in Nat,
         NEW ids, Known(d, refs, w, o, ids, inner), Contains(d, next, IntTable(RefOrder(o, ids), w))
  PROVE  Lead(d, refs, w, inner, next, 2 * Len(o.keys), KeysThenValues(o))
<1> DEFINE n == Len(o.keys)
<1>1. /\ n \in Nat /\ RefsOf(o) = 2 * n
      /\ \A k \in 1..n : /\ Children(o)[2 * k - 1] = Text("string", o.keys[k])
                         /\ Children(o)[2 * k] = o.values[k]
  BY RefsOfDict
<1>2. \A k \in 1..n : RefOrder(o, ids)[k] = ids[2 * k - 1] /\ RefOrder(o, ids)[n + k] = ids[2 * k]
  BY RefOrderParts DEF Known
<1> SUFFICES ASSUME NEW i \in 1..(2 * n) PROVE LeadsTo(d, refs, w, inner, next, i, KeysThenValues(o)[i])
  BY DEF Lead
<1>3. CASE i <= n
  <2>1. i \in 1..n /\ i \in 1..RefsOf(o) /\ 2 * i - 1 \in 1..RefsOf(o)
    BY <1>1, <1>3
  <2>2. KeysThenValues(o)[i] = ReadsAs[Children(o)[2 * i - 1]]
    <3>1. KeysThenValues(o)[i] = Text("string", o.keys[i])
      BY <1>3 DEF KeysThenValues
    <3> QED BY <1>1, <2>1, <3>1, KeyIsRead
  <2>3. RefOrder(o, ids)[i] = ids[2 * i - 1]
    BY <1>2, <2>1
  <2> DEFINE j == 2 * i - 1
  <2> HIDE DEF j
  <2>4. LeadsTo(d, refs, w, inner, next, i, ReadsAs[Children(o)[j]])
    BY <2>1, <2>3, KnownLeads DEF j
  <2> QED BY <2>2, <2>4 DEF j
<1>4. CASE ~(i <= n)
  <2> DEFINE k == i - n
             j == 2 * k
  <2>1. k \in 1..n /\ n + k = i /\ i \in 1..RefsOf(o) /\ j \in 1..RefsOf(o)
    BY <1>1, <1>4
  <2>2. KeysThenValues(o)[i] = ReadsAs[Children(o)[j]]
    <3>1. KeysThenValues(o)[i] = ReadsAs[o.values[k]]
      BY <1>4 DEF KeysThenValues
    <3> QED BY <1>1, <2>1, <3>1
  <2>3. RefOrder(o, ids)[i] = ids[j]
    BY <1>2, <2>1
  <2> HIDE DEF j
  <2>4. LeadsTo(d, refs, w, inner, next, i, ReadsAs[Children(o)[j]])
    BY <2>1, <2>3, KnownLeads
  <2> QED BY <2>2, <2>4
<1> QED BY <1>3, <1>4

(* A dictionary is read as it should be, if what it refers to is. *)
LEMMA DictIsRead ==
  ASSUME NEW o \in Objects, o.type = "dict", NEW w \in Widths, NEW at \in Nat, NEW d, Len(d) \in Nat,
         NEW refs, NEW id, NEW inner, NEW ids, At(refs, id) = at,
         Contains(d, at, Own(o)), Contains(d, at + Len(Own(o)), IntTable(RefOrder(o, ids), w)),
         Known(d, refs, w, o, ids, inner)
  PROVE  ParseOne(d, refs, w, id, inner) = ReadsAs[o]
<1> DEFINE n == Len(o.keys)
           next == at + Len(Own(o))
           kid == KeysThenValues(o)
<1>1. n \in Nat /\ RefsOf(o) = 2 * n
  BY RefsOfDict
<1>0. n <= 127 /\ Len(o.values) = n
  BY Kinds
<1>2. Own(o) = HeadOf("dict", n) /\ Own(o) \in Seq(Bytes) /\ Len(Own(o)) # 0
  BY <1>0, OwnType DEF Own
<1>3. Len(Own(o)) \in Nat /\ next \in Nat
  BY OwnType
<1>4. next <= Len(d)
  BY <1>2, <1>3, ContainsReaches
<1>5. ids \in Seq(Nat) /\ Len(ids) = 2 * n
  BY <1>1 DEF Known
<1>6. ~(next + (2 * n) * w > Len(d))
  <2> DEFINE ns == RefOrder(o, ids)
  <2>1. ns \in Seq(Nat) /\ Len(ns) = 2 * n
    BY <1>1, <1>5, RefOrderType
  <2>2. Contains(d, next, IntTable(ns, w))
    OBVIOUS
  <2> HIDE DEF ns, next
  <2>3. ~(next + Len(ns) * w > Len(d))
    BY <1>3, <1>4, <2>1, <2>2, TableReaches DEF next
  <2> QED BY <2>1, <2>3
<1>7. Short(n)
  <2>1. \A m \in Nat : m <= 127 => m \div 65536 = 0
    OBVIOUS
  <2> HIDE DEF n
  <2>2. n \div 65536 = 0
    BY <1>0, <1>1, <2>1
  <2> QED BY <2>2 DEF Short, High
<1>8. /\ ~(at >= Len(d)) /\ At(d, at).type = "dict"
      /\ LengthAt(d, at) = [ok |-> TRUE, n |-> n, next |-> next]
  <2>1. Contains(d, at, HeadOf("dict", n))
    BY <1>2
  <2>2. /\ at < Len(d) /\ At(d, at).type = "dict"
        /\ LengthAt(d, at) = [ok |-> TRUE, n |-> n, next |-> at + Len(HeadOf("dict", n))]
    <3>1. "array" \in {"data", "string", "array", "dict"} /\ "dict" \in {"data", "string", "array", "dict"}
      OBVIOUS
    <3> HIDE DEF n
    <3> QED BY <1>1, <1>7, <2>1, <3>1, HeadIsRead
  <2>3. ~(at >= Len(d))
    BY <2>2
  <2> QED BY <1>2, <2>2, <2>3
<1>9. Lead(d, refs, w, inner, next, 2 * n, kid)
  BY <1>3, DictLeads
<1>10. ParseOne(d, refs, w, id, inner) = ReadDict(n, [i \in 1..(2 * n) |-> kid[i]])
  <2> HIDE DEF n, next, kid
  <2> QED BY <1>1, <1>6, <1>8, <1>9, ParseDict
<1>11. ReadDict(n, [i \in 1..(2 * n) |-> kid[i]]) = ReadsAs[o]
  <2> DEFINE k == [i \in 1..(2 * n) |-> kid[i]]
  <2>1. \A i \in 1..n : /\ i \in 1..(2 * n) /\ n + i \in 1..(2 * n)
                        /\ i <= n /\ ~(n + i <= n) /\ (n + i) - n = i
    BY <1>1
  <2>2. \A i \in 1..n : k[i] = Text("string", o.keys[i]) /\ k[n + i] = ReadsAs[o.values[i]]
    BY <2>1 DEF KeysThenValues
  <2> HIDE DEF k
  <2>8. \A c : Text("string", c).type = "string" /\ Text("string", c).chars = c
    BY DEF Text
  <2>3. \A i \in 1..n : k[i].type = "string" /\ k[i].chars = o.keys[i]
    BY <2>2, <2>8
  <2>4. ReadDict(n, k) = Dict([i \in 1..n |-> k[i].chars], [i \in 1..n |-> k[n + i]])
    BY <2>3 DEF ReadDict
  <2>5. [i \in 1..n |-> k[i].chars] = o.keys
    <3>1. o.keys = [i \in 1..n |-> o.keys[i]]
      BY Kinds
    <3> QED BY <2>3, <3>1
  <2>6. [i \in 1..n |-> k[n + i]] = [i \in 1..n |-> ReadsAs[o.values[i]]]
    BY <2>2
  <2>7. ReadsAs[o] = Dict(o.keys, [i \in 1..n |-> ReadsAs[o.values[i]]])
    BY ReadsAsUnfolds DEF ReadsAsOne
  <2> QED BY <2>4, <2>5, <2>6, <2>7 DEF k
<1> QED BY <1>10, <1>11

(* So is an object of any type. *)
LEMMA OneIsRead ==
  ASSUME NEW o \in Objects, NEW w \in Widths, NEW at \in Nat, NEW d, Len(d) \in Nat, Short(Len(d)),
         NEW refs, NEW id, NEW inner, NEW ids, At(refs, id) = at,
         Contains(d, at, Own(o)), Contains(d, at + Len(Own(o)), IntTable(RefOrder(o, ids), w)),
         Known(d, refs, w, o, ids, inner)
  PROVE  ParseOne(d, refs, w, id, inner) = ReadsAs[o]
<1>1. CASE o.type = "array"
  BY <1>1, ArrayIsRead
<1>2. CASE o.type = "dict"
  BY <1>2, DictIsRead
<1>3. CASE o.type # "array" /\ o.type # "dict"
  BY <1>3, SimpleIsRead
<1> QED BY <1>1, <1>2, <1>3

-----------------------------------------------------------------------------
(* Reading an object at its depth. *)

(* What is read of each object when no more than k are nested in each other. *)
ParseStep(d, refs, w, k, g) ==
  [id \in 0..(Len(refs) - 1) |-> IF k = 0 THEN Null ELSE ParseOne(d, refs, w, id, g)]

Parses(d, refs, w, m, f) == f = [k \in 0..m |-> ParseStep(d, refs, w, k, f[k - 1])]

(* The recursion over depths has a solution. *)
LEMMA ParseExists ==
  ASSUME NEW d, NEW refs, NEW w, NEW n \in Nat
  PROVE  \E f : Parses(d, refs, w, n, f)
<1> DEFINE P(k, g) == ParseStep(d, refs, w, k, g)
           Good(m) == \E f : f = [k \in 0..m |-> P(k, f[k - 1])]
           S == {m \in Nat : ~Good(m)}
<1>1. \A g, h : P(0, g) = P(0, h)
  BY DEF ParseStep
<1> HIDE DEF P
<1> SUFFICES ASSUME S # {} PROVE FALSE
  BY DEF P, Parses
<1>2. PICK m \in S : \A i \in S : m <= i
  <2> HIDE DEF S
  <2>1. S \in SUBSET Nat
    BY DEF S
  <2> QED BY <2>1, LeastNumber
<1>3. m \in Nat /\ ~Good(m)
  BY <1>2
<1>4. m # 0
  <2> DEFINE f == [k \in 0..0 |-> P(0, 0)]
  <2> SUFFICES ASSUME m = 0 PROVE FALSE
    OBVIOUS
  <2>1. f = [k \in 0..0 |-> P(k, f[k - 1])]
    <3>1. \A k \in 0..0 : k = 0
      OBVIOUS
    <3>2. \A k \in 0..0 : P(k, f[k - 1]) = P(0, 0)
      BY <1>1, <3>1
    <3> QED BY <3>2
  <2> HIDE DEF f
  <2> QED BY <1>3, <2>1
<1>5. m - 1 \in Nat /\ ~(m <= m - 1)
  BY <1>3, <1>4
<1>6. PICK f : f = [k \in 0..(m - 1) |-> P(k, f[k - 1])]
  <2>1. Good(m - 1)
    <3> HIDE DEF Good
    <3> QED BY <1>2, <1>5
  <2> QED BY <2>1
<1> DEFINE g == [k \in 0..m |-> IF k < m THEN f[k] ELSE P(m, f[m - 1])]
<1>7. \A k \in 0..m : g[k] = P(k, g[k - 1])
  <2> SUFFICES ASSUME NEW k \in 0..m PROVE g[k] = P(k, g[k - 1])
    OBVIOUS
  <2>1. CASE k = 0
    <3>1. 0 \in 0..(m - 1) /\ 0 < m
      BY <1>3, <1>4
    <3>2. f[0] = P(0, f[0 - 1])
      BY <1>6, <3>1
    <3>3. g[0] = f[0]
      BY <1>3, <3>1
    <3> HIDE DEF g
    <3> QED BY <1>1, <2>1, <3>2, <3>3
  <2>2. CASE k # 0 /\ k < m
    <3>1. k \in 0..(m - 1) /\ k - 1 \in 0..m /\ k - 1 < m
      BY <1>3, <2>2
    <3>2. f[k] = P(k, f[k - 1])
      BY <1>6, <3>1
    <3>3. g[k] = f[k] /\ g[k - 1] = f[k - 1]
      BY <2>2, <3>1
    <3> HIDE DEF g
    <3> QED BY <3>2, <3>3
  <2>3. CASE k # 0 /\ ~(k < m)
    <3>1. k = m /\ m - 1 \in 0..m /\ m - 1 < m
      BY <1>3, <1>4, <2>3
    <3>2. g[m] = P(m, f[m - 1]) /\ g[m - 1] = f[m - 1]
      BY <1>3, <3>1
    <3> HIDE DEF g
    <3> QED BY <3>1, <3>2
  <2> QED BY <2>1, <2>2, <2>3
<1>8. g = [k \in 0..m |-> g[k]]
  OBVIOUS
<1> HIDE DEF g
<1>9. g = [k \in 0..m |-> P(k, g[k - 1])]
  BY <1>7, <1>8
<1> QED BY <1>3, <1>9

(* What is read of each number, one depth after the other. *)
ReadsByDepth(d, refs, w, parse) ==
  /\ \A k \in 0..Len(refs) : parse[k] = ParseStep(d, refs, w, k, parse[k - 1])
  /\ ParseObject(d, refs, w) = parse[Len(refs)]

(* What bplist_parse_object reads, one depth after the other. *)
LEMMA ParseUnfolds ==
  ASSUME NEW d, NEW refs, NEW w, Len(refs) \in Nat
  PROVE  \E parse : ReadsByDepth(d, refs, w, parse)
<1> DEFINE P(f) == f = [k \in 0..Len(refs) |-> ParseStep(d, refs, w, k, f[k - 1])]
           parse == CHOOSE f : P(f)
<1>1. ParseObject(d, refs, w) = parse[Len(refs)]
  BY DEF ParseObject, ParseStep
<1>2. P(parse)
  <2>1. \E f : P(f)
    <3>1. \E f : Parses(d, refs, w, Len(refs), f)
      BY ParseExists
    <3> QED BY <3>1 DEF Parses
  <2> HIDE DEF P
  <2> QED BY <2>1
<1> HIDE DEF parse
<1>3. \A k \in 0..Len(refs) : parse[k] = ParseStep(d, refs, w, k, parse[k - 1])
  BY <1>2
<1> QED BY <1>1, <1>3 DEF ReadsByDepth

(* That d starts with what was written, and refs holds the positions of what
   stands there. *)
Readable(d, d0, refs, offs, w) ==
  /\ Len(d) \in Nat /\ Short(Len(d)) /\ Len(d0) \in Nat /\ StartsWith(d, d0)
  /\ Len(refs) \in Nat /\ Len(offs) = Len(refs)
  /\ \A i \in 1..Len(offs) : offs[i] \in Nat /\ offs[i] < Len(d0) => refs[i] = offs[i]
  /\ \A i \in 1..Len(offs) : Fits(i - 1, w)

(* The number and the position of an object that is written are in the list. *)
LEMMA StandsInRange ==
  ASSUME NEW w \in Widths, NEW d, NEW d0, NEW refs, NEW offs, Readable(d, d0, refs, offs, w),
         NEW o \in Objects, NEW at \in Nat, NEW id \in Nat, NEW ids, NEW n,
         StandsAt(d0, offs, w, o, at, id, ids, n)
  PROVE  /\ id \in 0..(Len(refs) - 1) /\ Fits(id, w) /\ At(refs, id) = at
         /\ Contains(d, at, Own(o)) /\ Contains(d, at + Len(Own(o)), IntTable(RefOrder(o, ids), w))
<1>1. id + 1 \in 1..Len(offs) /\ offs[id + 1] = at /\ Contains(d0, at, Own(o))
  BY DEF StandsAt
<1>2. Len(refs) \in Nat /\ Len(offs) = Len(refs) /\ Len(d0) \in Nat
  BY DEF Readable
<1>3. id \in 0..(Len(refs) - 1)
  BY <1>1, <1>2
<1>4. Fits(id, w)
  <2>1. (id + 1) - 1 = id
    OBVIOUS
  <2>2. Fits((id + 1) - 1, w)
    BY <1>1 DEF Readable
  <2> QED BY <2>1, <2>2
<1>5. at < Len(d0)
  <2>1. Len(Own(o)) \in Nat /\ Len(Own(o)) # 0
    BY OwnType
  <2> QED BY <1>1, <1>2, <2>1, ContainsReaches
<1>6. At(refs, id) = at
  BY <1>1, <1>5 DEF Readable, At
<1>7. Contains(d, at, Own(o)) /\ Contains(d, at + Len(Own(o)), IntTable(RefOrder(o, ids), w))
  BY ContainsMore DEF StandsAt, Readable
<1> QED BY <1>3, <1>4, <1>6, <1>7

(* What was written is read as deep as it is nested. *)
LEMMA WrittenIsRead ==
  ASSUME NEW w \in Widths, NEW d, NEW d0, NEW refs, NEW offs, Readable(d, d0, refs, offs, w), NEW parse,
         \A k \in 0..Len(refs) : parse[k] = ParseStep(d, refs, w, k, parse[k - 1])
  PROVE  \A n \in 0..Len(refs) : \A o \in Objects : \A id :
           IsWritten(d0, offs, Serialize(w), o, id, n) => parse[n][id] = ReadsAs[o]
<1> DEFINE Good(n) == \A o \in Objects : \A id :
                        IsWritten(d0, offs, Serialize(w), o, id, n) => parse[n][id] = ReadsAs[o]
           S == {n \in 0..Len(refs) : ~Good(n)}
<1> SUFFICES ASSUME S # {} PROVE FALSE
  OBVIOUS
<1>0. Len(refs) \in Nat
  BY DEF Readable
<1>1. PICK n \in S : \A m \in S : n <= m
  <2> HIDE DEF Good
  <2>1. S \in SUBSET Nat
    BY <1>0
  <2> HIDE DEF S
  <2> QED BY <2>1, LeastNumber
<1>2. n \in 0..Len(refs) /\ n \in Nat /\ ~Good(n)
  BY <1>0, <1>1
<1>3. PICK o \in Objects : \E id : IsWritten(d0, offs, Serialize(w), o, id, n) /\ parse[n][id] # ReadsAs[o]
  BY <1>2
<1>4. PICK id : IsWritten(d0, offs, Serialize(w), o, id, n) /\ parse[n][id] # ReadsAs[o]
  BY <1>3
<1>5. id \in Nat /\ \E at \in Nat : \E ids : StandsAt(d0, offs, w, o, at, id, ids, n)
  BY <1>2, <1>4, WrittenStands
<1>6. PICK at \in Nat : \E ids : StandsAt(d0, offs, w, o, at, id, ids, n)
  BY <1>5
<1>7. PICK ids : StandsAt(d0, offs, w, o, at, id, ids, n)
  BY <1>6
<1>8. n - 1 \in 0..Len(refs) /\ ~(n <= n - 1) /\ n # 0 /\ n - 1 \in Nat
  <2>1. n # 0
    BY <1>7 DEF StandsAt
  <2> QED BY <1>0, <1>2, <2>1
<1>9. Good(n - 1)
  <2> HIDE DEF Good
  <2> QED BY <1>1, <1>8
<1>10. /\ id \in 0..(Len(refs) - 1) /\ At(refs, id) = at
       /\ Contains(d, at, Own(o)) /\ Contains(d, at + Len(Own(o)), IntTable(RefOrder(o, ids), w))
  BY <1>5, <1>7, StandsInRange
<1> DEFINE inner == parse[n - 1]
<1>11. Known(d, refs, w, o, ids, inner)
  <2>1. ids \in Seq(Nat) /\ Len(ids) = RefsOf(o)
    BY <1>7 DEF StandsAt
  <2>2. ASSUME NEW j \in 1..RefsOf(o)
        PROVE  ids[j] \in 0..(Len(refs) - 1) /\ Fits(ids[j], w) /\ inner[ids[j]] = ReadsAs[Children(o)[j]]
    <3> DEFINE c == Children(o)[j]
               i == ids[j]
    <3>1. c \in Objects
      BY ChildrenType DEF RefsOf
    <3>2. IsWritten(d0, offs, Serialize(w), c, i, n - 1)
      BY <1>7 DEF StandsAt
    <3> HIDE DEF c, i
    <3>3. i \in Nat /\ \E a \in Nat : \E is : StandsAt(d0, offs, w, c, a, i, is, n - 1)
      BY <1>8, <3>1, <3>2, WrittenStands
    <3>4. i \in 0..(Len(refs) - 1) /\ Fits(i, w)
      BY <3>1, <3>3, StandsInRange
    <3>5. inner[i] = ReadsAs[c]
      BY <1>9, <3>1, <3>2
    <3> QED BY <3>4, <3>5 DEF c, i
  <2> HIDE DEF inner
  <2> QED BY <2>1, <2>2 DEF Known
<1>12. parse[n][id] = ParseOne(d, refs, w, id, inner)
  <2>1. parse[n] = ParseStep(d, refs, w, n, inner)
    BY <1>2
  <2> HIDE DEF inner
  <2> QED BY <1>8, <1>10, <2>1 DEF ParseStep
<1> HIDE DEF inner, Good
<1>13. ParseOne(d, refs, w, id, inner) = ReadsAs[o]
  <2>1. Len(d) \in Nat /\ Short(Len(d))
    BY DEF Readable
  <2> QED BY <1>10, <1>11, <2>1, OneIsRead
<1> QED BY <1>4, <1>12, <1>13

-----------------------------------------------------------------------------
(* The trailer and the table of positions. *)

(* Each part of the list, up to its end, starts it. *)
LEMMA ListStarts ==
  ASSUME NEW o \in Objects
  PROVE  /\ StartsWith(UpToEnd(o), UpToEnd(o)) /\ StartsWith(UpToEnd(o), UpToRoot(o))
         /\ StartsWith(UpToEnd(o), UpToObjects(o)) /\ StartsWith(UpToEnd(o), UpToWidths(o))
         /\ StartsWith(UpToEnd(o), UpToTable(o)) /\ StartsWith(UpToEnd(o), UpToBody(o))
<1> DEFINE e == UpToEnd(o)
<1>1. StartsWith(e, e)
  BY DEF StartsWith
<1>2. StartsWith(e, UpToRoot(o))
  BY PartsOfList, ExtendsStarts
<1> HIDE DEF e
<1>3. StartsWith(e, UpToObjects(o))
  BY <1>2, PartsOfList, ExtendsStarts
<1>4. StartsWith(e, UpToWidths(o))
  BY <1>3, PartsOfList, ExtendsStarts
<1>5. StartsWith(e, UpToUnused(o))
  BY <1>4, PartsOfList, ExtendsStarts
<1>6. StartsWith(e, UpToTable(o))
  BY <1>5, PartsOfList, ExtendsStarts
<1>7. StartsWith(e, UpToBody(o))
  BY <1>6, PartsOfList, ExtendsStarts
<1> QED BY <1>1, <1>2, <1>3, <1>4, <1>6, <1>7 DEF e

(* A number of eight bytes that was appended is read back. *)
LEMMA EightIsRead ==
  ASSUME NEW s, NEW t, NEW d, NEW n \in Nat, Short(n), Extends(t, s, IntBytes(n, 8)), StartsWith(d, t),
         Len(s) \in Nat
  PROVE  ReadInt(d, Len(s), 8) = n
<1>1. Len(IntBytes(n, 8)) = 8 /\ 8 \in Widths /\ n \in Int
  BY EightBytesType DEF Widths
<1>2. \A k \in 1..8 : d[Len(s) + k] = IntBytes(n, 8)[k]
  BY <1>1, StartsReads
<1>3. Fits(n, 8)
  BY WidthFits
<1>4. Shows(d, Len(s), n, 8)
  BY <1>2 DEF Shows
<1> QED BY <1>1, <1>3, <1>4, IntIsRead

(* The numbers of a list whose length is no more than MaxLength are short. *)
LEMMA ListIsShort ==
  ASSUME NEW o \in Objects, Len(UpToEnd(o)) <= MaxLength
  PROVE  /\ Len(UpToEnd(o)) \in Nat /\ Short(Len(UpToEnd(o)))
         /\ Short(Before(o)) /\ Short(Analyze[o].objects) /\ Short(Analyze[o].refs)
         /\ Analyze[o].objects \in Nat /\ Analyze[o].refs \in Nat
<1> DEFINE n == Analyze[o].objects
           r == Analyze[o].refs
           table == OffWidth(o) * n
           b == Before(o)
           l == Len(UpToEnd(o))
<1>1. n \in Nat /\ r \in Nat /\ OffWidth(o) \in Widths /\ b \in Nat /\ n = r + 1
  BY BodyType DEF Sizes
<1>2. l = b + table + 32 /\ table \in Nat
  BY LengthsOfList
<1>3. n <= table
  BY <1>1, TableLength
<1> HIDE DEF n, r, table, b, l
<1>4. l \in Nat /\ b \in 0..l /\ n \in 0..l /\ r \in 0..l /\ l \in 0..MaxLength
  <2>1. \A x, y, z, k, m \in Nat : z = x + y + 32 /\ k <= y /\ k = m + 1 =>
          x \in 0..z /\ k \in 0..z /\ m \in 0..z
    OBVIOUS
  <2>2. l \in Nat
    BY <1>1, <1>2
  <2>3. l \in 0..MaxLength
    BY <2>2, LengthAssumption DEF l
  <2> QED BY <1>1, <1>2, <1>3, <2>1, <2>2, <2>3
<1>5. Short(l)
  BY <1>4, LengthAssumption, ShortLess
<1>6. Short(b) /\ Short(n) /\ Short(r)
  BY <1>4, <1>5, ShortLess
<1> QED BY <1>1, <1>4, <1>5, <1>6 DEF n, r, b, l

(* Where the last 32 bytes start. *)
TrailerAt(o) == Before(o) + OffWidth(o) * Analyze[o].objects

(* What plist_object_from_bplist reads in the trailer. *)
LEMMA TrailerIsRead ==
  ASSUME NEW o \in Objects, Len(UpToEnd(o)) <= MaxLength
  PROVE  /\ TrailerAt(o) \in Nat /\ Len(UpToEnd(o)) = TrailerAt(o) + 32
         /\ At(UpToEnd(o), TrailerAt(o) + 6).low = OffWidth(o)
         /\ At(UpToEnd(o), TrailerAt(o) + 7).low = RefWidth(o)
         /\ ReadInt(UpToEnd(o), TrailerAt(o) + 8, 8) = Analyze[o].objects
         /\ ReadInt(UpToEnd(o), TrailerAt(o) + 16, 8) = 0
         /\ ReadInt(UpToEnd(o), TrailerAt(o) + 24, 8) = Before(o)
<1> DEFINE table == OffWidth(o) * Analyze[o].objects
           at == TrailerAt(o)
           d == UpToEnd(o)
<1>1. /\ table \in Nat /\ Before(o) \in Nat
      /\ Len(UpToUnused(o)) = Before(o) + table + 6
      /\ Len(UpToWidths(o)) = Before(o) + table + 8
      /\ Len(UpToObjects(o)) = Before(o) + table + 16
      /\ Len(UpToRoot(o)) = Before(o) + table + 24
      /\ Len(UpToEnd(o)) = Before(o) + table + 32
  <2>1. Before(o) \in Nat
    BY BodyType
  <2>2. PICK t : t = OffWidth(o) * Analyze[o].objects
    OBVIOUS
  <2>3. /\ t \in Nat
        /\ Len(UpToUnused(o)) = Before(o) + t + 6
        /\ Len(UpToWidths(o)) = Before(o) + t + 8
        /\ Len(UpToObjects(o)) = Before(o) + t + 16
        /\ Len(UpToRoot(o)) = Before(o) + t + 24
        /\ Len(UpToEnd(o)) = Before(o) + t + 32
    BY <2>2, LengthsOfList
  <2> QED BY <2>1, <2>2, <2>3
<1>2. at = Before(o) + table
  BY DEF TrailerAt
<1> HIDE DEF table, at, d
<1>3. /\ at \in Nat /\ Len(d) = at + 32
      /\ Len(UpToUnused(o)) = at + 6 /\ Len(UpToWidths(o)) = at + 8
      /\ Len(UpToObjects(o)) = at + 16 /\ Len(UpToRoot(o)) = at + 24
  <2>1. Len(d) = Before(o) + table + 32
    BY <1>1 DEF d
  <2>2. at \in Nat
    <3>1. \A x, y \in Nat : x + y \in Nat
      OBVIOUS
    <3> QED BY <1>1, <1>2, <3>1
  <2> QED BY <1>1, <1>2, <2>1, <2>2
<1>4. At(d, at + 6).low = OffWidth(o) /\ At(d, at + 7).low = RefWidth(o)
  <2> DEFINE w == <<Byte(OffWidth(o)), Byte(RefWidth(o))>>
  <2>1. Len(w) = 2 /\ w[1] = Byte(OffWidth(o)) /\ w[2] = Byte(RefWidth(o))
    OBVIOUS
  <2>2. Extends(UpToWidths(o), UpToUnused(o), w)
    BY PartsOfList
  <2> HIDE DEF w
  <2>6. StartsWith(d, UpToWidths(o))
    BY ListStarts DEF d
  <2>7. \A k \in 1..Len(w) : d[Len(UpToUnused(o)) + k] = w[k]
    BY <2>2, <2>6, StartsReads
  <2>3. \A k \in 1..Len(w) : d[(at + 6) + k] = w[k]
    BY <1>3, <2>7
  <2>4. 1 \in 1..Len(w) /\ 2 \in 1..Len(w) /\ (at + 6) + 2 = (at + 7) + 1
    BY <1>3, <2>1
  <2>5. d[(at + 6) + 1] = Byte(OffWidth(o)) /\ d[(at + 7) + 1] = Byte(RefWidth(o))
    <3>1. d[(at + 6) + 2] = w[2] /\ d[(at + 6) + 1] = w[1]
      BY <2>3, <2>4
    <3> QED BY <2>1, <2>4, <3>1
  <2> QED BY <2>5 DEF At, Byte
<1>5. ReadInt(d, at + 8, 8) = Analyze[o].objects
  <2>1. ReadInt(d, Len(UpToWidths(o)), 8) = Analyze[o].objects
    <3>1. Len(UpToWidths(o)) \in Nat
      BY <1>3
    <3>2. Extends(UpToObjects(o), UpToWidths(o), IntBytes(Analyze[o].objects, 8))
      BY PartsOfList
    <3>3. StartsWith(d, UpToObjects(o))
      BY ListStarts DEF d
    <3> QED BY <3>1, <3>2, <3>3, ListIsShort, EightIsRead
  <2> QED BY <1>3, <2>1
<1>6. ReadInt(d, at + 16, 8) = 0
  <2>1. Short(0)
    BY DEF Short, High
  <2>2. ReadInt(d, Len(UpToObjects(o)), 8) = 0
    <3>1. Len(UpToObjects(o)) \in Nat /\ 0 \in Nat
      BY <1>3
    <3>2. Extends(UpToRoot(o), UpToObjects(o), IntBytes(0, 8))
      BY PartsOfList
    <3>3. StartsWith(d, UpToRoot(o))
      BY ListStarts DEF d
    <3> QED BY <2>1, <3>1, <3>2, <3>3, EightIsRead
  <2> QED BY <1>3, <2>2
<1>7. ReadInt(d, at + 24, 8) = Before(o)
  <2>1. HeaderLength + Len(Body(o).bytes) = Before(o)
    BY BodyType
  <2>2. Extends(UpToEnd(o), UpToRoot(o), IntBytes(Before(o), 8))
    BY <2>1, PartsOfList
  <2>3. ReadInt(d, Len(UpToRoot(o)), 8) = Before(o)
    <3>1. Len(UpToRoot(o)) \in Nat
      BY <1>3
    <3>3. StartsWith(d, UpToEnd(o))
      BY ListStarts DEF d
    <3> QED BY <1>1, <2>2, <3>1, <3>3, ListIsShort, EightIsRead
  <2> QED BY <1>3, <2>3
<1> QED BY <1>3, <1>4, <1>5, <1>6, <1>7 DEF at, d

(* The positions as they are read. *)
Positions(o) ==
  [i \in 1..Analyze[o].objects |->
     ReadInt(UpToEnd(o), Before(o) + (i - 1) * OffWidth(o), OffWidth(o))]

(* The list that is written can be read: every object is where its number says. *)
LEMMA ListIsReadable ==
  ASSUME NEW o \in Objects, Len(UpToEnd(o)) <= MaxLength
  PROVE  Readable(UpToEnd(o), UpToBody(o), Positions(o), Body(o).offsets, RefWidth(o))
<1> DEFINE n == Analyze[o].objects
           d == UpToEnd(o)
           offs == Body(o).offsets
           v == OffWidth(o)
           refs == Positions(o)
<1>1. /\ n \in Nat /\ v \in Widths /\ Before(o) \in Nat /\ Len(offs) = n /\ n = Analyze[o].refs + 1
  BY BodyType, ListIsShort
<1>2. offs \in Seq(Nat)
  BY BodyType, WrittenType
<1>3. Len(refs) = n
  BY <1>1 DEF Positions
<1>4. Contains(d, Before(o), IntTable(offs, v))
  <2>1. Len(UpToBody(o)) = Before(o)
    BY LengthsOfList
  <2>2. Extends(UpToTable(o), UpToBody(o), IntTable(offs, v)) /\ StartsWith(d, UpToTable(o))
    BY PartsOfList, ListStarts
  <2> HIDE DEF d, offs, v
  <2>3. \A k \in 1..Len(IntTable(offs, v)) :
          Len(UpToBody(o)) + k \in 1..Len(d) /\ d[Len(UpToBody(o)) + k] = IntTable(offs, v)[k]
    BY <2>2, StartsReads
  <2> QED BY <2>1, <2>3 DEF Contains
<1>5. ASSUME NEW i \in 1..Len(offs), offs[i] \in Nat, offs[i] < Len(UpToBody(o))
      PROVE  refs[i] = offs[i]
  <2>1. Len(UpToBody(o)) = Before(o)
    BY LengthsOfList
  <2>2. Fits(offs[i], v)
    <3>1. offs[i] \in 0..Before(o) /\ Short(Before(o))
      BY <1>1, <1>5, <2>1, ListIsShort
    <3> QED BY <1>1, <3>1, WidthFits DEF OffWidth
  <2>3. refs[i] = ReadInt(d, Before(o) + (i - 1) * v, v)
    BY <1>1 DEF Positions
  <2> HIDE DEF d, offs, v, refs
  <2>4. ReadInt(d, Before(o) + (i - 1) * v, v) = offs[i]
    BY <1>1, <1>2, <1>4, <2>2, EntryIsRead
  <2> QED BY <2>3, <2>4
<1>6. ASSUME NEW i \in 1..Len(offs) PROVE Fits(i - 1, RefWidth(o))
  <2>1. i - 1 \in 0..Analyze[o].refs /\ Analyze[o].refs \in Nat /\ Short(Analyze[o].refs)
    BY <1>1, ListIsShort
  <2> QED BY <2>1, WidthFits DEF RefWidth
<1>7. Len(d) \in Nat /\ Short(Len(d)) /\ Len(UpToBody(o)) \in Nat /\ StartsWith(d, UpToBody(o))
  BY <1>1, ListIsShort, LengthsOfList, ListStarts
<1> HIDE DEF n, d, offs, refs, v
<1>8. Readable(d, UpToBody(o), refs, offs, RefWidth(o))
  BY <1>1, <1>3, <1>5, <1>6, <1>7 DEF Readable
<1> QED BY <1>8 DEF d, refs, offs

(* What was written is read back. *)
LEMMA ListIsRead ==
  ASSUME NEW o \in Objects, Len(UpToEnd(o)) <= MaxLength
  PROVE  FromBplist(UpToEnd(o)) = ReadsAs[o]
<1> DEFINE n == Analyze[o].objects
           d == UpToEnd(o)
           offs == Body(o).offsets
           v == OffWidth(o)
           w == RefWidth(o)
           refs == Positions(o)
           at == TrailerAt(o)
<1>1. /\ n \in Nat /\ v \in Widths /\ w \in Widths /\ Before(o) \in Nat /\ Len(offs) = n
      /\ n = Analyze[o].refs + 1 /\ Analyze[o].refs \in Nat
  BY BodyType, ListIsShort
<1>2. v * n \in Nat /\ n * v = v * n
  BY <1>1, TableLength
<1>3. /\ at \in Nat /\ Len(d) = at + 32
      /\ At(d, at + 6).low = v /\ At(d, at + 7).low = w
      /\ ReadInt(d, at + 8, 8) = n /\ ReadInt(d, at + 16, 8) = 0
      /\ ReadInt(d, at + 24, 8) = Before(o)
  BY TrailerIsRead
<1>4. Before(o) >= HeaderLength
  <2>1. Len(Body(o).bytes) \in Nat /\ HeaderLength + Len(Body(o).bytes) = Before(o)
    BY BodyType, PartsOfList
  <2> QED BY <2>1 DEF HeaderLength
<1>5. Readable(d, UpToBody(o), refs, offs, w)
  BY ListIsReadable
<1>6. Len(refs) = n
  BY <1>1 DEF Positions
<1>7. IsWritten(UpToBody(o), offs, Serialize(w), o, 0, n)
  <2>1. Contains(UpToBody(o), HeaderLength, Body(o).bytes)
    <3>1. Len(Zeros(HeaderLength)) = HeaderLength
      BY ZerosType DEF HeaderLength
    <3> DEFINE b == Body(o).bytes
    <3> HIDE DEF b
    <3>2. Extends(UpToBody(o), Zeros(HeaderLength), b)
      BY PartsOfList DEF b
    <3>3. Contains(UpToBody(o), HeaderLength, b)
      BY <3>1, <3>2 DEF Extends, Contains
    <3> QED BY <3>3 DEF b
  <2>2. Contains(offs, 0, offs)
    BY <1>1 DEF Contains
  <2>3. Body(o) = Serialize(w)[<<o, HeaderLength, 0>>]
    BY DEF Body
  <2>4. HeaderLength \in Nat /\ 0 \in Nat /\ n <= n
    BY <1>1 DEF HeaderLength
  <2> HIDE DEF w, n
  <2> QED BY <1>1, <2>1, <2>2, <2>3, <2>4 DEF IsWritten
<1>8. ParseObject(d, refs, w)[0] = ReadsAs[o]
  <2> HIDE DEF n, d, offs, v, w, refs
  <2>1. Len(refs) \in Nat
    BY <1>1, <1>6
  <2>0. PICK parse : ReadsByDepth(d, refs, w, parse)
    BY <2>1, ParseUnfolds
  <2>2. /\ \A k \in 0..Len(refs) : parse[k] = ParseStep(d, refs, w, k, parse[k - 1])
        /\ ParseObject(d, refs, w) = parse[Len(refs)]
    BY <2>0 DEF ReadsByDepth
  <2>3. \A m \in 0..Len(refs) : \A c \in Objects : \A id :
          IsWritten(UpToBody(o), offs, Serialize(w), c, id, m) => parse[m][id] = ReadsAs[c]
    BY <1>1, <1>5, <2>2, WrittenIsRead
  <2>4. n \in 0..Len(refs)
    BY <1>1, <1>6
  <2>5. parse[n][0] = ReadsAs[o]
    BY <1>7, <2>3, <2>4
  <2> QED BY <1>6, <2>2, <2>5
<1>9. FromBplist(d) = ParseObject(d, refs, w)[0]
  <2>1. Len(d) - TrailerLength = at
    BY <1>3 DEF TrailerLength
  <2>2. refs = [i \in 1..n |-> ReadInt(d, Before(o) + (i - 1) * v, v)]
    BY DEF Positions
  <2>3. ~(at < 0) /\ ~(n <= 0) /\ ~(0 >= n) /\ ~(Before(o) < HeaderLength) /\ ~(Before(o) + n * v > Len(d))
    <3>1. n # 0
      BY <1>1
    <3> HIDE DEF n, d, v, at
    <3>2. ~(at < 0) /\ ~(n <= 0) /\ ~(0 >= n)
      BY <1>1, <1>3, <3>1
    <3>3. ~(Before(o) < HeaderLength)
      BY <1>1, <1>4 DEF HeaderLength
    <3>4. Before(o) + n * v = at
      BY <1>2 DEF TrailerAt, at, v, n
    <3>5. ~(at > Len(d))
      BY <1>3
    <3> QED BY <3>2, <3>3, <3>4, <3>5
  <2> HIDE DEF n, d, v, w, refs, at
  <2> DEFINE Refs(k, t, x) == [i \in 1..k |-> ReadInt(d, t + (i - 1) * x, x)]
  <2>4. refs = Refs(n, Before(o), v)
    BY <2>2
  <2>5. FromBplist(d) =
          LET offWidth == At(d, at + 6).low
              refWidth == At(d, at + 7).low
              objects  == ReadInt(d, at + 8, 8)
              root     == ReadInt(d, at + 16, 8)
              table    == ReadInt(d, at + 24, 8)
          IN IF \/ at < 0
                \/ objects <= 0
                \/ root < 0 \/ root >= objects
                \/ table < HeaderLength \/ table + objects * offWidth > Len(d)
             THEN Null
             ELSE ParseObject(d, Refs(objects, table, offWidth), refWidth)[root]
    BY <2>1 DEF FromBplist
  <2> HIDE DEF Refs
  <2> QED BY <1>3, <2>3, <2>4, <2>5
<1> QED BY <1>8, <1>9

-----------------------------------------------------------------------------
(* The invariant of the specification. *)

(* What is written is the list of the object, and what is read is read of it. *)
ListInv ==
  /\ object \in Objects
  /\ phase \in {"built", "written", "read"}
  /\ phase = "built" => data.length = data.allocated
  /\ phase # "built" => data = Bplist(object) /\ data.allocated <= MaxLength
  /\ phase = "read" => parsed = FromBplist(data.bytes)

(* The invariant holds in every behaviour. *)
LEMMA ListInvHolds == Spec => []ListInv
<1>1. Init => ListInv
  BY DEF Init, ListInv
<1>2. ListInv /\ [Next]_vars => ListInv'
  <2> SUFFICES ASSUME ListInv, [Next]_vars PROVE ListInv'
    OBVIOUS
  <2>1. CASE ToBplist
    BY <2>1 DEF ToBplist, ListInv
  <2>2. CASE Read
    BY <2>2 DEF Read, ListInv
  <2>3. CASE UNCHANGED vars
    BY <2>3 DEF vars, ListInv
  <2> QED BY <2>1, <2>2, <2>3 DEF Next
<1> QED BY <1>1, <1>2, PTL DEF Spec

(* What plist_object_to_bplist writes fills exactly what it allocated, whatever
   is written. *)
THEOREM LengthsAlwaysAgree == Spec => []LengthsAgree
<1>1. ListInv => LengthsAgree
  <2> SUFFICES ASSUME ListInv PROVE data.length = data.allocated
    BY DEF LengthsAgree
  <2>1. CASE phase = "built"
    BY <2>1 DEF ListInv
  <2>2. CASE phase # "built"
    <3>1. object \in Objects /\ data = Bplist(object)
      BY <2>2 DEF ListInv
    <3> QED BY <3>1, BplistIs
  <2> QED BY <2>1, <2>2
<1> QED BY <1>1, ListInvHolds, PTL

(* Whatever is written is read back. *)
LEMMA ParsedIs == ListInv => ReadsBack
<1> SUFFICES ASSUME ListInv, phase = "read" PROVE parsed = ReadsAs[object]
  BY DEF ReadsBack
<1>1. /\ object \in Objects /\ data = Bplist(object) /\ data.allocated <= MaxLength
      /\ parsed = FromBplist(data.bytes)
  BY DEF ListInv
<1>2. data.bytes = UpToEnd(object) /\ data.allocated = Len(UpToEnd(object))
  BY <1>1, BplistIs
<1>3. Len(UpToEnd(object)) <= MaxLength
  BY <1>1, <1>2
<1>4. FromBplist(UpToEnd(object)) = ReadsAs[object]
  BY <1>1, <1>3, ListIsRead
<1> QED BY <1>1, <1>2, <1>4

(* Whatever the object, plist_object_from_bplist reads back what
   plist_object_to_bplist wrote of it (ReadsBack), as the handlers of SETUP,
   of the casting requests and of the answers rely on. *)
THEOREM AlwaysReadsBack == Spec => []ReadsBack
BY ListInvHolds, ParsedIs, PTL

(* A key that is there once is found, with its value. *)
LEMMA DictGetFinds ==
  ASSUME NEW o \in Objects, o.type = "dict", NEW vs, NEW i \in 1..Len(o.keys)
  PROVE  /\ DictGet(Dict(o.keys, vs), o.keys[i]) = vs[i]
         /\ DictGetKeyValue(Dict(o.keys, vs), i - 1) = <<o.keys[i], vs[i]>>
<1> DEFINE x == Dict(o.keys, vs)
           key == o.keys[i]
           P(k) == x.keys[k] = key /\ \A j \in 1..(k - 1) : x.keys[j] # key
<1>1. Len(o.keys) \in Nat /\ \A k, j \in 1..Len(o.keys) : o.keys[k] = o.keys[j] => k = j
  BY Kinds, RefsOfDict
<1>2. x.type = "dict" /\ x.keys = o.keys /\ x.values = vs
  BY DEF Dict
<1> HIDE DEF x
<1>3. P(i)
  <2>1. \A j \in 1..(i - 1) : j \in 1..Len(o.keys) /\ j # i
    BY <1>1
  <2> QED BY <1>1, <1>2, <2>1
<1>4. \A k \in 1..Len(o.keys) : P(k) => k = i
  BY <1>1, <1>2
<1>5. (CHOOSE k \in 1..Len(x.keys) : P(k)) = i
  <2> HIDE DEF P
  <2> QED BY <1>2, <1>3, <1>4
<1>6. DictGet(x, key) = x.values[CHOOSE k \in 1..Len(x.keys) : P(k)]
  BY <1>2 DEF DictGet
<1>7. DictGetKeyValue(x, i - 1) = <<o.keys[i], vs[i]>>
  <2>1. (i - 1) + 1 = i /\ ~(i - 1 >= Len(x.keys))
    BY <1>1, <1>2
  <2> QED BY <1>2, <2>1 DEF DictGetKeyValue
<1> QED BY <1>2, <1>5, <1>6, <1>7 DEF x

(* plist_object_array_get_value finds each value, and none beyond the end. *)
LEMMA ArrayGetFinds ==
  ASSUME NEW n \in Nat, NEW f, NEW i \in 1..(n + 1)
  PROVE  ArrayGet(Array([k \in 1..n |-> f[k]]), i - 1) = IF i > n THEN Null ELSE f[i]
<1> DEFINE s == [k \in 1..n |-> f[k]]
           x == Array(s)
<1>1. Len(s) = n /\ \A k \in 1..n : s[k] = f[k]
  OBVIOUS
<1> HIDE DEF s
<1>2. x.type = "array" /\ x.values = s
  BY DEF Array
<1> HIDE DEF x
<1>3. (i - 1) + 1 = i /\ (i - 1 >= n <=> i > n) /\ (~(i > n) => i \in 1..n)
  OBVIOUS
<1>4. ArrayGet(x, i - 1) = IF i > n THEN Null ELSE f[i]
  BY <1>1, <1>2, <1>3 DEF ArrayGet
<1> QED BY <1>4 DEF x, s

(* The accessors find in what was read every value that was written. *)
THEOREM ValuesAlwaysFound == Spec => []EveryValueIsFound
<1>1. ASSUME ListInv, phase = "read" PROVE parsed = ReadsAs[object] /\ object \in Objects
  BY <1>1, ParsedIs DEF ReadsBack, ListInv
<1>2. ASSUME ListInv, phase = "read", object.type = "dict", NEW i \in 1..Len(object.keys)
      PROVE  /\ DictGet(parsed, object.keys[i]) = ReadsAs[object.values[i]]
             /\ DictGetKeyValue(parsed, i - 1) = <<object.keys[i], ReadsAs[object.values[i]]>>
  <2> DEFINE vs == [k \in 1..Len(object.keys) |-> ReadsAs[object.values[k]]]
  <2>1. parsed = Dict(object.keys, vs)
    BY <1>1, <1>2, ReadsAsUnfolds DEF ReadsAsOne
  <2>2. vs[i] = ReadsAs[object.values[i]]
    OBVIOUS
  <2> HIDE DEF vs
  <2>3. /\ DictGet(Dict(object.keys, vs), object.keys[i]) = vs[i]
        /\ DictGetKeyValue(Dict(object.keys, vs), i - 1) = <<object.keys[i], vs[i]>>
    BY <1>1, <1>2, DictGetFinds
  <2> QED BY <2>1, <2>2, <2>3
<1>3. ASSUME ListInv, phase = "read", object.type = "array", NEW i \in 1..(Len(object.values) + 1)
      PROVE  ArrayGet(parsed, i - 1) = IF i > Len(object.values) THEN Null ELSE ReadsAs[object.values[i]]
  <2> DEFINE n == Len(object.values)
             f == [k \in 1..n |-> ReadsAs[object.values[k]]]
  <2>1. parsed = Array(f) /\ n \in Nat
    <3>1. object.values \in Seq(Objects)
      BY <1>1, <1>3, Kinds
    <3>2. n \in Nat
      BY <3>1
    <3>3. parsed = Array(f)
      BY <1>1, <1>3, ReadsAsUnfolds DEF ReadsAsOne
    <3> QED BY <3>2, <3>3
  <2>2. f = [k \in 1..n |-> f[k]] /\ \A k \in 1..n : f[k] = ReadsAs[object.values[k]]
    OBVIOUS
  <2>3. ~(i > n) => i \in 1..n
    BY <2>1
  <2> HIDE DEF f, n
  <2>4. ArrayGet(Array([k \in 1..n |-> f[k]]), i - 1) = IF i > n THEN Null ELSE f[i]
    <3>1. i \in 1..(n + 1)
      BY DEF n
    <3> QED BY <2>1, <3>1, ArrayGetFinds
  <2>5. ArrayGet(parsed, i - 1) = IF i > n THEN Null ELSE ReadsAs[object.values[i]]
    BY <2>1, <2>2, <2>3, <2>4
  <2> QED BY <2>5 DEF n
<1>4. ListInv => EveryValueIsFound
  BY <1>1, <1>2, <1>3 DEF EveryValueIsFound
<1> QED BY <1>4, ListInvHolds, PTL
=============================================================================
