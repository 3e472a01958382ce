------------------------- MODULE AudioStreamProofs --------------------------
(***************************************************************************)
(* Theorems about AudioStream for every value of its constants.            *)
(*                                                                         *)
(* The types, with the bound on the cache, need no assumption.  The bound  *)
(* on the wait holds when the stream ends before its sequence numbers wrap *)
(* (NoWrap), duplicated datagrams or not; the playout order needs, besides *)
(* NoWrap, that nothing has been duplicated yet (NoDups).  That the        *)
(* receiver skips nothing it could play needs NoWrap, and that what is     *)
(* played on arrival is the next packet that may be played needs also that *)
(* the copies cannot fill the cache: MaxDups <= MaxCached.  The run        *)
(* AudioWrapWait shows that NoWrap is necessary; on a network that keeps   *)
(* the order, loses and duplicates nothing (InSequence) it is not.         *)
(***************************************************************************)
EXTENDS AudioStream, FiniteSetTheorems, SequenceTheorems, TLAPS

(* What the receiver reads in a packet is a sequence number. *)
LEMMA SeqOfType == \A d \in Datagrams : SeqOf(d) \in 0..(SeqMod - 1)
BY ConstantsAssumption DEF SeqOf, Datagrams, Packets

(* The assignment of expected_seq_ keeps it a sequence number. *)
LEMMA SuccType == \A x \in Nat : Succ(x) \in 0..(SeqMod - 1)
BY ConstantsAssumption DEF Succ

(* Handing a datagram over keeps the types of the variables it assigns. *)
LEMMA HandOverType ==
  ASSUME TypeOK, NEW d \in Datagrams, HandOver(d)
  PROVE  /\ delivered' \in Seq(Packets)
         /\ expected' \in 0..(SeqMod - 1)
         /\ waiting' \in Nat
BY SeqOfType, SuccType, ConstantsAssumption DEF HandOver, TypeOK, Datagrams

(* The types of all variables, and the bound on the reordering cache. *)
THEOREM TypeCorrect == Spec => []TypeOK
<1>1. Init => TypeOK
  <2>1. <<>> \in Seq(Packets)
    OBVIOUS
  <2>2. IsFiniteSet({}) /\ Cardinality({}) = 0
    BY FS_EmptySet
  <2>3. ASSUME Init PROVE crowded \in BOOLEAN /\ receiving \in BOOLEAN
    BY <2>3, Zenon DEF Init
  <2>4. ASSUME Init
        PROVE  IsFiniteSet(cached) /\ Cardinality(cached) <= MaxCached /\ cached \subseteq Datagrams
    BY <2>2, <2>4, ConstantsAssumption DEF Init
  <2>5. ASSUME Init
        PROVE  /\ sent \in 0..NumPackets /\ losses \in 0..MaxLosses /\ dups \in 0..MaxDups
               /\ expected \in 0..(SeqMod - 1) /\ waiting \in Nat /\ net \subseteq Datagrams
    BY <2>5, ConstantsAssumption DEF Init
  <2>6. ASSUME Init PROVE delivered \in Seq(Packets) /\ mode \in {"idle", "drain", "flush"}
    BY <2>1, <2>6 DEF Init
  <2> QED BY <2>3, <2>4, <2>5, <2>6 DEF TypeOK
<1>2. TypeOK /\ [Next]_vars => TypeOK'
  <2> SUFFICES ASSUME TypeOK, [Next]_vars PROVE TypeOK'
    OBVIOUS
  <2> USE ConstantsAssumption DEF netVars, recvVars
  <2>1. CASE Send
    BY <2>1 DEF TypeOK, Send, Datagrams, Packets
  <2>2. ASSUME NEW d \in net, Lose(d) PROVE TypeOK'
    BY <2>2 DEF TypeOK, Lose
  <2>3. ASSUME NEW d \in net, Duplicate(d) PROVE TypeOK'
    <3>1. [pkt |-> d.pkt, copy |-> dups + 1] \in Datagrams
      BY <2>3 DEF TypeOK, Duplicate, Datagrams
    <3> QED BY <2>3, <3>1 DEF TypeOK, Duplicate
  <2>4. ASSUME NEW d \in net, Deliver(d) PROVE TypeOK'
    BY <2>4, HandOverType DEF TypeOK, Deliver, Arrive
  <2>5. ASSUME NEW d \in net, CachePacket(d) PROVE TypeOK'
    <3>1. IsFiniteSet(cached') /\ Cardinality(cached') <= MaxCached
      <4>1. IsFiniteSet(cached) /\ cached' = cached \cup {d} /\ Cardinality(cached) < MaxCached
        BY <2>5 DEF TypeOK, CachePacket
      <4>2. /\ IsFiniteSet(cached')
            /\ Cardinality(cached') \in {Cardinality(cached), Cardinality(cached) + 1}
        BY <4>1, FS_AddElement
      <4>3. Cardinality(cached) \in Nat
        BY <4>1, FS_CardinalityType
      <4> QED BY <4>1, <4>2, <4>3
    <3> QED BY <2>5, <3>1 DEF TypeOK, CachePacket, Arrive, StillWaiting
  <2>6. ASSUME NEW d \in net, Flush(d) PROVE TypeOK'
    BY <2>6 DEF TypeOK, Flush, Arrive
  <2>7. ASSUME NEW d \in net, Abandon(d) PROVE TypeOK'
    BY <2>7 DEF TypeOK, Abandon, Arrive, StillWaiting
  <2>8. ASSUME NEW d \in Tops, Pop(d) PROVE TypeOK'
    <3>1. d \in Datagrams /\ cached' \subseteq Datagrams
      BY <2>8 DEF Tops, TypeOK, Pop
    <3>2. IsFiniteSet(cached') /\ Cardinality(cached') <= MaxCached
      <4>1. IsFiniteSet(cached) /\ cached' = cached \ {d} /\ Cardinality(cached) <= MaxCached
        BY <2>8 DEF TypeOK, Pop
      <4>2. d \in cached
        BY <2>8 DEF Tops
      <4>3. IsFiniteSet(cached') /\ Cardinality(cached') = Cardinality(cached) - 1
        BY <4>1, <4>2, FS_RemoveElement
      <4>4. Cardinality(cached) \in Nat
        BY <4>1, FS_CardinalityType
      <4> QED BY <4>1, <4>3, <4>4, ConstantsAssumption
    <3> QED BY <2>8, <3>1, <3>2, HandOverType DEF TypeOK, Pop
  <2>9. CASE LoopEnds
    BY <2>9 DEF TypeOK, LoopEnds
  <2>10. CASE RecvError
    BY <2>10 DEF TypeOK, RecvError
  <2>11. CASE UNCHANGED vars
    BY <2>11 DEF TypeOK, vars
  <2> QED
    BY <2>1, <2>2, <2>3, <2>4, <2>5, <2>6, <2>7, <2>8, <2>9, <2>10, <2>11
    DEF Next, DataHandler, ProcessCachedPacket
<1> QED BY <1>1, <1>2, PTL DEF Spec

-----------------------------------------------------------------------------
(***************************************************************************)
(* The wait for a late packet is bounded.                                  *)
(*                                                                         *)
(* Without wrap-around, sequence numbers order the stream, and the         *)
(* expected number is one past the packet delivered last.  A packet that   *)
(* is younger than all delivered ones is therefore never abandoned: if it  *)
(* is not delivered it is cached, so that the size of the cache bounds the *)
(* wait.  For this a datagram must not be cached twice, hence Unique.      *)
(***************************************************************************)

(* A number below the modulus is its own remainder. *)
LEMMA ModSmall ==
  ASSUME NEW m \in Nat, NEW x \in Nat, x < m
  PROVE  x % m = x
OBVIOUS

(* Without wrap-around the 16-bit sequence numbers count the packets of the
   stream from FirstSeq on. *)
LEMMA NoWrapSeq ==
  ASSUME NoWrap
  PROVE  \A d \in Datagrams :
           /\ d.pkt \in Nat
           /\ SeqOf(d) = FirstSeq + d.pkt
           /\ Succ(SeqOf(d)) = FirstSeq + d.pkt + 1
<1> TAKE d \in Datagrams
<1>1. d.pkt \in Nat /\ FirstSeq \in Nat /\ SeqMod \in Nat \ {0} /\ FirstSeq + d.pkt + 1 < SeqMod
  BY ConstantsAssumption DEF NoWrap, Datagrams, Packets
<1>2. FirstSeq + d.pkt \in Nat /\ FirstSeq + d.pkt < SeqMod /\ FirstSeq + d.pkt + 1 \in Nat
  BY <1>1
<1>3. SeqOf(d) = FirstSeq + d.pkt
  BY <1>1, <1>2, ModSmall DEF SeqOf
<1>4. Succ(FirstSeq + d.pkt) = FirstSeq + d.pkt + 1
  BY <1>1, <1>2, ModSmall DEF Succ
<1> QED BY <1>1, <1>3, <1>4

(* expected_seq_ is one past the packet delivered last. *)
ExpectsTheNext ==
  IF delivered = <<>> THEN expected = 0
                      ELSE expected = FirstSeq + delivered[Len(delivered)] + 1

(* The first packet of the session is delivered on arrival, never cached. *)
NothingCachedBeforeTheFirst == delivered = <<>> => cached = {} /\ mode = "idle"

(* A datagram is in flight or cached, and new ones are new. *)
Unique ==
  /\ net \cap cached = {}
  /\ \A d \in net \cup cached : d.pkt < sent /\ d.copy <= dups

(* The inductive invariant that bounds the wait. *)
WaitInv ==
  /\ ExpectsTheNext
  /\ NothingCachedBeforeTheFirst
  /\ Unique
  /\ waiting <= Cardinality(cached)

(* Where the packet delivered last is found. *)
LEMMA LastDelivered ==
  ASSUME TypeOK, delivered # <<>>
  PROVE  /\ Len(delivered) \in DOMAIN delivered
         /\ DOMAIN delivered = 1..Len(delivered)
         /\ delivered[Len(delivered)] \in Packets
<1>1. delivered \in Seq(Packets)
  BY DEF TypeOK
<1>2. Len(delivered) \in Nat \ {0}
  BY <1>1, EmptySeq
<1>3. DOMAIN delivered = 1..Len(delivered)
  BY <1>1, LenProperties
<1>4. delivered[Len(delivered)] \in Packets
  BY <1>1, <1>2, ElementOfSeq
<1> QED BY <1>2, <1>3, <1>4

(* A packet younger than every packet delivered is the expected one or ahead
   of it. *)
LEMMA YoungerIsNotBehind ==
  ASSUME NoWrap, TypeOK, ExpectsTheNext, NEW d \in Datagrams, Younger(d.pkt)
  PROVE  SeqOf(d) >= Awaited(d)
<1>1. SeqOf(d) = FirstSeq + d.pkt /\ d.pkt \in Nat /\ FirstSeq \in Nat
  BY NoWrapSeq, ConstantsAssumption
<1>2. CASE delivered = <<>>
  BY <1>1, <1>2 DEF ExpectsTheNext, Awaited
<1>3. CASE delivered # <<>>
  <2>1. Len(delivered) \in DOMAIN delivered /\ delivered[Len(delivered)] \in Nat
    BY <1>3, LastDelivered DEF Packets
  <2>2. delivered[Len(delivered)] < d.pkt
    BY <2>1, Zenon DEF Younger
  <2> QED BY <1>1, <1>3, <2>1, <2>2 DEF ExpectsTheNext, Awaited
<1> QED BY <1>2, <1>3

(* After a packet is handed over, the next one of the stream is expected. *)
LEMMA HandOverExpects ==
  ASSUME NoWrap, TypeOK, NEW d \in Datagrams, HandOver(d)
  PROVE  ExpectsTheNext' /\ delivered' # <<>>
<1>1. /\ delivered' # <<>>
      /\ delivered'[Len(delivered')] = d.pkt
  <2>1. d.pkt \in Packets /\ delivered \in Seq(Packets) /\ delivered' = Append(delivered, d.pkt)
    BY DEF HandOver, TypeOK, Datagrams
  <2> QED BY <2>1
<1>2. expected' = FirstSeq + d.pkt + 1
  BY NoWrapSeq DEF HandOver
<1> QED BY <1>1, <1>2 DEF ExpectsTheNext

(* No step puts a datagram both into the network and into the cache. *)
LEMMA UniqueInductive ==
  ASSUME TypeOK, Unique, [Next]_vars
  PROVE  Unique'
<1> USE DEF netVars, recvVars
<1>1. CASE Send
  BY <1>1 DEF Send, Unique, TypeOK, Datagrams, Packets
<1>2. ASSUME NEW d \in net, Lose(d) PROVE Unique'
  BY <1>2 DEF Lose, Unique
<1>3. ASSUME NEW d \in net, Duplicate(d) PROVE Unique'
  <2> DEFINE e == [pkt |-> d.pkt, copy |-> dups + 1]
  <2>1. e.pkt < sent' /\ e.copy <= dups' /\ e.copy > dups /\ dups' = dups + 1 /\ sent' = sent
    BY <1>3 DEF Duplicate, Unique, TypeOK
  <2>2. e \notin cached
    BY <2>1 DEF Unique, TypeOK, Datagrams
  <2>3. \A c \in net \cup cached : c.copy <= dups'
    BY <2>1 DEF Unique, TypeOK, Datagrams
  <2>4. net' = net \cup {e} /\ cached' = cached
    BY <1>3 DEF Duplicate
  <2> HIDE DEF e
  <2> QED BY <2>1, <2>2, <2>3, <2>4 DEF Unique
<1>4. ASSUME NEW d \in net, DataHandler(d) PROVE Unique'
  BY <1>4 DEF DataHandler, Deliver, CachePacket, Flush, Abandon, Arrive, Unique
<1>5. ASSUME NEW d \in Tops, Pop(d) PROVE Unique'
  BY <1>5 DEF Pop, Unique
<1>6. CASE LoopEnds \/ RecvError \/ UNCHANGED vars
  BY <1>6 DEF LoopEnds, RecvError, vars, Unique
<1> QED BY <1>1, <1>2, <1>3, <1>4, <1>5, <1>6 DEF Next, ProcessCachedPacket

(* Every step of the sender, the network and the receiver preserves WaitInv. *)
LEMMA WaitInvInductive ==
  ASSUME NoWrap, TypeOK, TypeOK', WaitInv, [Next]_vars
  PROVE  WaitInv'
<1> USE DEF netVars, recvVars
<1>1. Unique'
  BY UniqueInductive DEF WaitInv
<1>2. CASE UNCHANGED recvVars
  BY <1>1, <1>2 DEF WaitInv, ExpectsTheNext, NothingCachedBeforeTheFirst
<1>3. CASE LoopEnds \/ RecvError
  BY <1>1, <1>3 DEF LoopEnds, RecvError, WaitInv, ExpectsTheNext, NothingCachedBeforeTheFirst
<1>4. ASSUME NEW d \in Datagrams, HandOver(d) PROVE WaitInv'
  <2>1. ExpectsTheNext' /\ delivered' # <<>>
    BY <1>4, HandOverExpects DEF WaitInv
  <2>2. waiting' <= Cardinality(cached')
    BY <1>4, FS_CardinalityType DEF HandOver, TypeOK
  <2> QED BY <1>1, <2>1, <2>2 DEF WaitInv, NothingCachedBeforeTheFirst
<1>5. ASSUME NEW d \in net, Deliver(d) PROVE WaitInv'
  BY <1>4, <1>5 DEF Deliver, TypeOK
<1>6. ASSUME NEW d \in Tops, Pop(d) PROVE WaitInv'
  BY <1>4, <1>6 DEF Pop, Tops, TypeOK
<1>7. ASSUME NEW d \in net, SeqOf(d) > Awaited(d) PROVE delivered # <<>>
  BY <1>7, SeqOfType, ConstantsAssumption DEF WaitInv, ExpectsTheNext, Awaited, TypeOK
<1>8. ASSUME NEW d \in net, CachePacket(d) PROVE WaitInv'
  <2>1. ExpectsTheNext' /\ NothingCachedBeforeTheFirst'
    BY <1>7, <1>8 DEF CachePacket, WaitInv, ExpectsTheNext, NothingCachedBeforeTheFirst
  <2>2. Cardinality(cached') = Cardinality(cached) + 1
    BY <1>8, FS_AddElement DEF CachePacket, TypeOK, WaitInv, Unique
  <2>3. waiting' <= waiting + 1 /\ waiting \in Nat /\ waiting <= Cardinality(cached)
    BY <1>8 DEF CachePacket, StillWaiting, TypeOK, WaitInv
  <2>4. Cardinality(cached) \in Nat /\ waiting' \in Nat
    BY FS_CardinalityType DEF TypeOK
  <2> QED BY <1>1, <2>1, <2>2, <2>3, <2>4 DEF WaitInv
<1>9. ASSUME NEW d \in net, Flush(d) PROVE WaitInv'
  <2>1. ExpectsTheNext' /\ NothingCachedBeforeTheFirst'
    BY <1>7, <1>9 DEF Flush, WaitInv, ExpectsTheNext, NothingCachedBeforeTheFirst
  <2>2. waiting' <= Cardinality(cached')
    BY <1>9, FS_CardinalityType DEF Flush, TypeOK
  <2> QED BY <1>1, <2>1, <2>2 DEF WaitInv
<1>10. ASSUME NEW d \in net, Abandon(d) PROVE WaitInv'
  <2>1. d \in Datagrams /\ SeqOf(d) \in Int /\ Awaited(d) \in Int
    BY SeqOfType DEF TypeOK, Awaited
  <2>2. ~Younger(d.pkt)
    BY <1>10, <2>1, YoungerIsNotBehind DEF Abandon, WaitInv
  <2> QED
    BY <1>1, <1>10, <2>2
    DEF Abandon, StillWaiting, WaitInv, ExpectsTheNext, NothingCachedBeforeTheFirst
<1> QED
  BY <1>2, <1>3, <1>5, <1>6, <1>8, <1>9, <1>10
  DEF Next, DataHandler, ProcessCachedPacket, Send, Lose, Duplicate, vars

(* However UDP loses, reorders or duplicates, at most MAX_CACHED_PACKET_SIZE
   packets younger than all delivered ones arrive before something is
   delivered, as long as the sequence numbers do not wrap. *)
THEOREM WaitBounded ==
  ASSUME NoWrap
  PROVE  Spec => []WaitIsBounded
<1>1. Init => WaitInv
  BY FS_EmptySet DEF Init, WaitInv, ExpectsTheNext, NothingCachedBeforeTheFirst, Unique
<1>2. TypeOK /\ TypeOK' /\ WaitInv /\ [Next]_vars => WaitInv'
  BY WaitInvInductive
<1>3. TypeOK /\ WaitInv => WaitIsBounded
  BY FS_CardinalityType, ConstantsAssumption DEF TypeOK, WaitInv, WaitIsBounded
<1> QED BY <1>1, <1>2, <1>3, TypeCorrect, PTL DEF Spec

-----------------------------------------------------------------------------
(***************************************************************************)
(* The packets are played in the order of the stream.                      *)
(*                                                                         *)
(* Without duplicates two datagrams never carry the same packet, so that   *)
(* the cache holds only packets at or ahead of the expected one: what is   *)
(* popped is younger than everything delivered, and what stays is ahead of *)
(* what is popped.                                                         *)
(***************************************************************************)

(* At or ahead of the expected packet, and ahead of it between datagrams:
   while the data thread waits, a packet whose turn has come or has passed
   never sits in the queue, where it would block those behind it. *)
CacheNotBehind == \A d \in cached : SeqOf(d) >= expected
CacheIsAhead == mode = "idle" => \A d \in cached : SeqOf(d) > expected

(* What PlayedInOrder promises as long as nothing is duplicated. *)
Ordered == \A i, j \in DOMAIN delivered : i < j => delivered[i] < delivered[j]

(* The invariant of the playout order while nothing has been duplicated. *)
OrderInv ==
  /\ WaitInv
  /\ Ordered
  /\ CacheNotBehind
  /\ CacheIsAhead

(* The inductive invariant. *)
PlayoutInv == WaitInv /\ (NoDups => OrderInv)

(* As long as nothing is duplicated a cached datagram is determined by its
   packet. *)
LEMMA OneCopy ==
  ASSUME NoDups, NoWrap, TypeOK, Unique, NEW d \in cached, NEW e \in cached, d # e
  PROVE  SeqOf(d) # SeqOf(e)
<1>1. d \in Datagrams /\ e \in Datagrams
  BY DEF TypeOK
<1>2. d.copy = 0 /\ e.copy = 0
  BY <1>1 DEF NoDups, Unique, Datagrams
<1>3. d = [pkt |-> d.pkt, copy |-> d.copy] /\ e = [pkt |-> e.pkt, copy |-> e.copy]
  BY <1>1 DEF Datagrams
<1>4. d.pkt # e.pkt
  BY <1>2, <1>3
<1> QED BY <1>1, <1>4, NoWrapSeq, ConstantsAssumption

(* In a sequence played in order the last packet is the youngest, so that a
   packet that is expected or ahead is younger than every delivered one. *)
LEMMA AheadIsYounger ==
  ASSUME NoWrap, TypeOK, ExpectsTheNext, Ordered, delivered # <<>>,
         NEW d \in Datagrams, SeqOf(d) >= expected
  PROVE  Younger(d.pkt)
<1>1. SeqOf(d) = FirstSeq + d.pkt /\ d.pkt \in Nat /\ FirstSeq \in Nat
  BY NoWrapSeq, ConstantsAssumption
<1>2. /\ Len(delivered) \in DOMAIN delivered
      /\ DOMAIN delivered = 1..Len(delivered)
      /\ delivered[Len(delivered)] \in Nat
  BY LastDelivered DEF Packets
<1>3. delivered[Len(delivered)] < d.pkt
  BY <1>1, <1>2 DEF ExpectsTheNext
<1>4. ASSUME NEW i \in DOMAIN delivered PROVE delivered[i] < d.pkt
  <2>1. delivered[i] \in Nat
    <3>1. delivered[i] \in Packets
      BY <1>2, ElementOfSeq DEF TypeOK
    <3> QED BY <3>1 DEF Packets
  <2>2. CASE i = Len(delivered)
    BY <1>3, <2>2
  <2>3. CASE i < Len(delivered)
    <3>1. delivered[i] < delivered[Len(delivered)]
      BY <1>2, <2>3 DEF Ordered
    <3> QED BY <1>1, <1>2, <1>3, <2>1, <3>1
  <2> QED BY <1>2, <2>2, <2>3
<1> QED BY <1>4 DEF Younger

(* Handing over a packet that is younger than all before it keeps the order. *)
LEMMA HandOverInOrder ==
  ASSUME TypeOK, Ordered, NEW d \in Datagrams, HandOver(d), Younger(d.pkt)
  PROVE  Ordered'
<1>1. delivered \in Seq(Packets) /\ d.pkt \in Packets /\ delivered' = Append(delivered, d.pkt)
  BY DEF HandOver, TypeOK, Datagrams
<1>2. /\ DOMAIN delivered' = 1..(Len(delivered) + 1)
      /\ DOMAIN delivered = 1..Len(delivered)
      /\ Len(delivered) \in Nat
      /\ \A i \in 1..Len(delivered) : delivered'[i] = delivered[i]
      /\ delivered'[Len(delivered) + 1] = d.pkt
  BY <1>1
<1>3. ASSUME NEW i \in DOMAIN delivered', NEW j \in DOMAIN delivered', i < j
      PROVE  delivered'[i] < delivered'[j]
  <2>1. i \in DOMAIN delivered
    BY <1>2, <1>3
  <2>2. CASE j = Len(delivered) + 1
    <3>1. delivered[i] < d.pkt
      BY <2>1, Zenon DEF Younger
    <3> QED BY <1>2, <2>1, <2>2, <3>1
  <2>3. CASE j # Len(delivered) + 1
    BY <1>2, <1>3, <2>1, <2>3 DEF Ordered
  <2> QED BY <2>2, <2>3
<1> QED BY <1>3 DEF Ordered

(* The two steps that hand a packet over hand over one that is younger than
   all before it, and leave only packets that are ahead of it in the cache. *)
LEMMA DeliverKeepsOrder ==
  ASSUME NoWrap, NoDups, TypeOK, OrderInv, NEW d \in net, Deliver(d)
  PROVE  /\ Younger(d.pkt)
         /\ \A e \in cached' : SeqOf(e) >= expected'
<1> USE DEF OrderInv, WaitInv
<1>1. d \in Datagrams /\ HandOver(d) /\ SeqOf(d) = Awaited(d) /\ mode = "idle" /\ cached' = cached
  BY DEF Deliver, Arrive, TypeOK
<1>2. CASE delivered = <<>>
  BY <1>1, <1>2 DEF Younger, NothingCachedBeforeTheFirst
<1>3. CASE delivered # <<>>
  <2>1. expected > 0 /\ expected \in Nat
    BY <1>3, LastDelivered, ConstantsAssumption DEF ExpectsTheNext, Packets
  <2>2. SeqOf(d) = expected
    BY <1>1, <2>1 DEF Awaited
  <2>3. expected' = expected + 1
    BY <1>1, <2>2, NoWrapSeq DEF HandOver
  <2>4. \A e \in cached' : SeqOf(e) \in Nat /\ SeqOf(e) > expected
    BY <1>1, SeqOfType DEF CacheIsAhead, TypeOK
  <2> QED BY <1>1, <1>3, <2>1, <2>2, <2>3, <2>4, AheadIsYounger
<1> QED BY <1>2, <1>3

(* The same of an iteration of process_cached_packet, which in addition never
   moves expected_seq_ back. *)
LEMMA PopKeepsOrder ==
  ASSUME NoWrap, NoDups, TypeOK, OrderInv, NEW d \in Tops, Pop(d)
  PROVE  /\ Younger(d.pkt)
         /\ expected' >= expected
         /\ \A e \in cached' : SeqOf(e) >= expected'
<1> USE DEF OrderInv, WaitInv
<1>1. d \in Datagrams /\ HandOver(d) /\ d \in cached /\ cached' = cached \ {d} /\ mode # "idle"
  BY DEF Pop, Tops, TypeOK
<1>2. SeqOf(d) \in Nat /\ SeqOf(d) >= expected /\ expected \in Nat
  BY <1>1, SeqOfType DEF CacheNotBehind, TypeOK
<1>3. Younger(d.pkt)
  BY <1>1, <1>2, AheadIsYounger DEF NothingCachedBeforeTheFirst
<1>4. expected' = SeqOf(d) + 1
  BY <1>1, NoWrapSeq DEF HandOver
<1>5. ASSUME NEW e \in cached' PROVE SeqOf(e) >= SeqOf(d) + 1
  <2>1. e \in Datagrams /\ e # d /\ SeqOf(d) <= SeqOf(e) /\ SeqOf(e) \in Nat
    BY <1>1, SeqOfType DEF Tops, TypeOK
  <2> QED BY <1>1, <1>2, <2>1, OneCopy
<1> QED BY <1>2, <1>3, <1>4, <1>5

(* Every step preserves OrderInv when nothing wraps or is duplicated. *)
LEMMA OrderInvInductive ==
  ASSUME NoWrap, NoDups, TypeOK, TypeOK', OrderInv, [Next]_vars
  PROVE  OrderInv'
<1> USE DEF netVars, recvVars
<1>1. WaitInv'
  BY WaitInvInductive DEF OrderInv
<1>2. CASE UNCHANGED recvVars
  BY <1>1, <1>2 DEF OrderInv, Ordered, CacheNotBehind, CacheIsAhead, SeqOf
<1>3. ASSUME NEW d \in net, Deliver(d) PROVE OrderInv'
  <2>1. d \in Datagrams /\ HandOver(d) /\ mode' = "drain"
    BY <1>3 DEF Deliver, TypeOK
  <2>2. Ordered' /\ CacheNotBehind'
    BY <1>3, <2>1, DeliverKeepsOrder, HandOverInOrder DEF OrderInv, CacheNotBehind, SeqOf
  <2> QED BY <1>1, <2>1, <2>2 DEF OrderInv, CacheIsAhead
<1>4. ASSUME NEW d \in Tops, Pop(d) PROVE OrderInv'
  <2>1. d \in Datagrams /\ HandOver(d) /\ mode' # "idle"
    BY <1>4 DEF Pop, Tops, TypeOK
  <2>2. Ordered' /\ CacheNotBehind'
    BY <1>4, <2>1, PopKeepsOrder, HandOverInOrder DEF OrderInv, CacheNotBehind, SeqOf
  <2> QED BY <1>1, <2>1, <2>2 DEF OrderInv, CacheIsAhead
<1>5. ASSUME NEW d \in net, CachePacket(d) PROVE OrderInv'
  <2>1. /\ d \in Datagrams /\ SeqOf(d) \in Nat /\ SeqOf(d) > expected
        /\ mode' = mode /\ mode = "idle" /\ expected' = expected
        /\ cached' = cached \cup {d} /\ delivered' = delivered
    BY <1>5, SeqOfType DEF CachePacket, Arrive, Awaited, TypeOK
  <2> QED BY <1>1, <2>1 DEF OrderInv, Ordered, CacheNotBehind, CacheIsAhead, SeqOf, TypeOK
<1>6. ASSUME NEW d \in net, Flush(d) \/ Abandon(d) PROVE OrderInv'
  BY <1>1, <1>6 DEF Flush, Abandon, OrderInv, Ordered, CacheNotBehind, CacheIsAhead, SeqOf
<1>7. CASE RecvError
  BY <1>1, <1>7 DEF RecvError, OrderInv, Ordered, CacheNotBehind, CacheIsAhead, SeqOf
<1>8. CASE LoopEnds
  <2>1. ASSUME NEW d \in cached PROVE SeqOf(d) > expected
    <3>1. /\ SeqOf(d) >= expected /\ SeqOf(d) \in Nat /\ expected \in Nat
          /\ \A e \in cached : SeqOf(e) >= expected
      BY SeqOfType DEF OrderInv, CacheNotBehind, TypeOK
    <3>2. SeqOf(d) # expected
      BY <1>8, <3>1 DEF LoopEnds, Tops, Poppable
    <3> QED BY <3>1, <3>2
  <2> QED
    BY <1>1, <1>8, <2>1 DEF LoopEnds, OrderInv, Ordered, CacheNotBehind, CacheIsAhead, SeqOf
<1> QED
  BY <1>2, <1>3, <1>4, <1>5, <1>6, <1>7, <1>8
  DEF Next, DataHandler, ProcessCachedPacket, Send, Lose, Duplicate, vars

(* Nothing takes a duplication back. *)
LEMMA DupsGrow ==
  ASSUME TypeOK, [Next]_vars, NoDups'
  PROVE  NoDups
<1> USE DEF NoDups, netVars, recvVars
<1>1. ASSUME NEW d \in net, Duplicate(d) PROVE NoDups
  <2>1. dups \in Nat /\ dups' = dups + 1 /\ dups' = 0
    BY <1>1 DEF TypeOK, Duplicate
  <2> QED BY <2>1
<1>2. ASSUME NEW d \in net, DataHandler(d) PROVE NoDups
  BY <1>2 DEF DataHandler, Deliver, CachePacket, Flush, Abandon, Arrive
<1> QED
  BY <1>1, <1>2 DEF Next, Send, Lose, ProcessCachedPacket, Pop, LoopEnds, RecvError, vars

(* The order of delivery and the content of the cache agree in every state,
   until something is duplicated: the invariant from which the theorems below
   follow. *)
THEOREM OrderInvariant ==
  ASSUME NoWrap
  PROVE  Spec => []PlayoutInv
<1>1. Init => PlayoutInv
  BY FS_EmptySet
  DEF Init, PlayoutInv, OrderInv, WaitInv, ExpectsTheNext, NothingCachedBeforeTheFirst, Unique,
      Ordered, CacheNotBehind, CacheIsAhead
<1>2. TypeOK /\ TypeOK' /\ PlayoutInv /\ [Next]_vars => PlayoutInv'
  <2> SUFFICES ASSUME TypeOK, TypeOK', PlayoutInv, [Next]_vars PROVE PlayoutInv'
    OBVIOUS
  <2>1. WaitInv'
    BY WaitInvInductive DEF PlayoutInv
  <2>2. ASSUME NoDups' PROVE OrderInv'
    BY <2>2, DupsGrow, OrderInvInductive DEF PlayoutInv
  <2> QED BY <2>1, <2>2 DEF PlayoutInv
<1> QED BY <1>1, <1>2, TypeCorrect, PTL DEF Spec

(* However UDP loses or reorders, as long as it does not duplicate, the
   application gets the packets in the order of the stream and each at most
   once. *)
THEOREM InOrder ==
  ASSUME NoWrap
  PROVE  Spec => []PlayedInOrder
<1>1. PlayoutInv => PlayedInOrder
  BY DEF PlayoutInv, OrderInv, Ordered, PlayedInOrder
<1> QED BY <1>1, OrderInvariant, PTL

(* expected_seq_ never moves back, until something is duplicated. *)
THEOREM ExpectedMonotone ==
  ASSUME NoWrap
  PROVE  Spec => ExpectedMovesForward
<1>1. TypeOK /\ PlayoutInv /\ [Next]_vars => [NoDups => expected' >= expected]_vars
  <2> SUFFICES ASSUME TypeOK, OrderInv, NoDups, Next, expected' # expected
               PROVE  expected' >= expected
    BY DEF TypeOK, vars, PlayoutInv
  <2>1. ASSUME NEW d \in net, Deliver(d) PROVE expected' >= expected
    <3>1. /\ SeqOf(d) = Awaited(d) /\ expected' = SeqOf(d) + 1 /\ SeqOf(d) \in Nat
          /\ expected \in Nat
      BY <2>1, SeqOfType, NoWrapSeq DEF Deliver, HandOver, TypeOK
    <3> QED BY <3>1 DEF Awaited
  <2>2. ASSUME NEW d \in Tops, Pop(d) PROVE expected' >= expected
    BY <2>2, PopKeepsOrder
  <2> QED
    BY <2>1, <2>2
    DEF Next, Send, Lose, Duplicate, DataHandler, CachePacket, Flush, Abandon,
        ProcessCachedPacket, LoopEnds, RecvError, netVars, recvVars
<1> QED BY <1>1, OrderInvariant, TypeCorrect, PTL DEF Spec, ExpectedMovesForward

(* The reordering buffer implements the in-order playout. *)
THEOREM ImplementsPlayout ==
  ASSUME NoWrap
  PROVE  Spec => PlayoutSpec
<1>1. Init => Playout!Init
  BY DEF Init, Playout!Init
<1>2. TypeOK /\ PlayoutInv /\ [Next]_vars => [Playout!Next]_(Playout!vars)
  <2> SUFFICES ASSUME TypeOK, PlayoutInv, [Next]_vars
               PROVE  Playout!Next \/ (sent' = sent /\ dups' = dups /\ delivered' = delivered)
    BY DEF Playout!vars
  <2>1. ASSUME NEW d \in Datagrams, d \in net \cup cached, HandOver(d),
               NoDups => Younger(d.pkt), sent' = sent, dups' = dups
        PROVE  Playout!Next
    <3>1. d.pkt \in 0..(sent - 1) /\ Playout!Play(d.pkt)
      BY <2>1, NoWrapSeq
      DEF PlayoutInv, WaitInv, Unique, HandOver, Younger, NoDups, Playout!Play, TypeOK
    <3> QED BY <3>1 DEF Playout!Next
  <2>2. ASSUME NEW d \in net, Deliver(d) PROVE Playout!Next
    BY <2>1, <2>2, DeliverKeepsOrder DEF Deliver, Arrive, TypeOK, PlayoutInv
  <2>3. ASSUME NEW d \in Tops, Pop(d) PROVE Playout!Next
    BY <2>1, <2>3, PopKeepsOrder DEF Pop, Tops, TypeOK, netVars, PlayoutInv
  <2>4. CASE Send
    BY <2>4 DEF Send, recvVars, Playout!Next, Playout!Emit
  <2>5. ASSUME NEW d \in net, Duplicate(d) PROVE Playout!Next
    BY <2>5 DEF Duplicate, recvVars, Playout!Next, Playout!Copy
  <2> QED
    BY <2>2, <2>3, <2>4, <2>5
    DEF Next, Lose, DataHandler, CachePacket, Flush, Abandon, Arrive,
        ProcessCachedPacket, LoopEnds, RecvError, netVars, recvVars, vars
<1> QED
  BY <1>1, <1>2, OrderInvariant, TypeCorrect, PTL DEF Spec, PlayoutSpec, Playout!Spec
-----------------------------------------------------------------------------
(***************************************************************************)
(* Nothing is skipped.                                                     *)
(*                                                                         *)
(* The packet that is expected, once it has been emitted, is in the        *)
(* network or in the cache, and so is every one behind it, unless          *)
(* something was lost.  A flush would skip it: but a flush means that the  *)
(* cache is full of packets that have overtaken it, and one more has.      *)
(***************************************************************************)

(* The network has lost and duplicated nothing, and not reordered more than the
   cache can hold. *)
Orderly == losses + dups = 0 /\ ~crowded

(* What NoGaps promises of an orderly network. *)
Consecutive == \A i \in 1..(Len(delivered) - 1) : delivered[i + 1] = delivered[i] + 1

(* Every packet whose turn has not passed is on its way or cached. *)
Accounted ==
  \A p \in 0..(sent - 1) : FirstSeq + p >= expected => \E d \in net \cup cached : d.pkt = p

(* The inductive invariant, beside PlayoutInv. *)
GapInv == Orderly => Consecutive /\ Accounted /\ mode # "flush"

(* A network that is orderly always was, and has duplicated nothing. *)
LEMMA OrderlyBefore ==
  ASSUME TypeOK, TypeOK', [Next]_vars, Orderly'
  PROVE  Orderly /\ NoDups /\ UNCHANGED <<losses, dups, crowded>>
<1> USE DEF Orderly, NoDups, netVars, recvVars
<1>1. losses \in Nat /\ dups \in Nat
  BY ConstantsAssumption DEF TypeOK
<1>2. ASSUME NEW d \in net, Lose(d) \/ Duplicate(d) PROVE FALSE
  BY <1>1, <1>2 DEF Lose, Duplicate
<1>3. ASSUME NEW d \in net, DataHandler(d) PROVE UNCHANGED <<losses, dups>> /\ ~crowded /\ ~crowded'
  BY <1>3 DEF DataHandler, Deliver, CachePacket, Flush, Abandon, Arrive
<1>4. UNCHANGED <<losses, dups>> /\ ~crowded /\ ~crowded'
  BY <1>2, <1>3 DEF Next, Send, ProcessCachedPacket, Pop, LoopEnds, RecvError, vars
<1>5. dups = 0 /\ losses + dups = 0
  BY <1>1, <1>4
<1>6. crowded = FALSE /\ crowded' = FALSE
  <2>1. crowded \in BOOLEAN /\ crowded' \in BOOLEAN
    BY Zenon DEF TypeOK
  <2> QED BY <1>4, <2>1
<1> QED BY <1>4, <1>5, <1>6


(* A packet that the full cache has overtaken, and one more packet, crowds the
   network. *)
LEMMA FullCacheCrowds ==
  ASSUME NoWrap, NoDups, TypeOK, Unique, NEW d \in net, NEW e \in net,
         Cardinality(cached) >= MaxCached,
         e.pkt < d.pkt, \A c \in cached : e.pkt < c.pkt
  PROVE  Cardinality(Overtakers(e, net \ {d})) > MaxCached
<1> DEFINE ahead == cached \cup {d}
           S     == Overtakers(e, net \ {d})
           f     == [c \in ahead |-> c.pkt]
<1>1. IsFiniteSet(ahead) /\ Cardinality(ahead) > MaxCached
  <2>1. d \notin cached /\ IsFiniteSet(cached)
    BY DEF Unique, TypeOK
  <2>2. IsFiniteSet(ahead) /\ Cardinality(ahead) = Cardinality(cached) + 1
    BY <2>1, FS_AddElement
  <2> QED BY <2>1, <2>2, FS_CardinalityType, ConstantsAssumption
<1>2. \A x, y \in net \cup cached : x.pkt = y.pkt => x = y
  <2>1. \A x \in net \cup cached : x \in Datagrams /\ x.copy = 0
    BY DEF NoDups, Unique, TypeOK, Datagrams
  <2>2. \A x \in net \cup cached : x = [pkt |-> x.pkt, copy |-> 0]
    BY <2>1 DEF Datagrams
  <2> QED BY <2>2, Zenon
<1>3. IsFiniteSet(S) /\ S \subseteq Nat
  <2>1. sent \in Nat /\ e.pkt \in Nat
    BY ConstantsAssumption DEF TypeOK, Datagrams, Packets
  <2>2. S \subseteq (e.pkt + 1)..(sent - 1)
    BY DEF Overtakers
  <2>3. IsFiniteSet((e.pkt + 1)..(sent - 1))
    BY <2>1, FS_Interval
  <2>4. IsFiniteSet(S)
    BY <2>2, <2>3, FS_Subset
  <2>5. (e.pkt + 1)..(sent - 1) \subseteq Nat
    BY <2>1
  <2> QED BY <2>2, <2>4, <2>5
<1>4. ASSUME NEW c \in ahead PROVE c.pkt \in S
  <2>1. c.pkt \in Nat /\ e.pkt \in Nat /\ e.pkt < c.pkt /\ c.pkt < sent /\ sent \in Nat
    BY ConstantsAssumption DEF Unique, TypeOK, Datagrams, Packets
  <2>2. \A x \in net \ {d} : x.pkt # c.pkt
    BY <1>2 DEF Unique
  <2> QED BY <2>1, <2>2 DEF Overtakers
<1>5. f \in Injection(ahead, S)
  BY <1>2, <1>4 DEF Injection, IsInjective
<1> HIDE DEF ahead, S, f
<1>6. Cardinality(ahead) <= Cardinality(S)
  BY <1>3, <1>5, FS_Injection
<1> QED BY <1>1, <1>3, <1>6, FS_CardinalityType, ConstantsAssumption DEF S

(* The packets that are played in an orderly network follow one another. *)
LEMMA HandOverConsecutive ==
  ASSUME NoWrap, TypeOK, ExpectsTheNext, Consecutive, NEW d \in Datagrams, HandOver(d),
         delivered = <<>> \/ SeqOf(d) = expected
  PROVE  Consecutive'
<1>1. delivered \in Seq(Packets) /\ d.pkt \in Packets /\ delivered' = Append(delivered, d.pkt)
  BY DEF HandOver, TypeOK, Datagrams
<1>2. /\ Len(delivered') = Len(delivered) + 1
      /\ Len(delivered) \in Nat
      /\ \A i \in 1..Len(delivered) : delivered'[i] = delivered[i]
      /\ delivered'[Len(delivered) + 1] = d.pkt
  BY <1>1
<1>3. delivered # <<>> => d.pkt = delivered[Len(delivered)] + 1
  BY NoWrapSeq, LastDelivered, ConstantsAssumption DEF ExpectsTheNext, Packets
<1>4. delivered = <<>> => Len(delivered) = 0
  OBVIOUS
<1>5. ASSUME NEW i \in 1..Len(delivered) PROVE delivered'[i + 1] = delivered'[i] + 1
  <2>1. CASE i = Len(delivered)
    BY <1>2, <1>3, <1>4, <2>1
  <2>2. CASE i # Len(delivered)
    BY <1>2, <2>2 DEF Consecutive
  <2> QED BY <2>1, <2>2
<1> QED BY <1>2, <1>5 DEF Consecutive

(* What is handed over needs no longer be accounted for. *)
LEMMA HandOverAccounts ==
  ASSUME NoWrap, TypeOK, Accounted, NEW d \in Datagrams, HandOver(d), SeqOf(d) >= expected,
         sent' = sent, (net \cup cached) \ {d} \subseteq net' \cup cached'
  PROVE  Accounted'
<1> SUFFICES ASSUME NEW p \in 0..(sent - 1), FirstSeq + p >= expected'
             PROVE  \E x \in net' \cup cached' : x.pkt = p
  BY DEF Accounted
<1>1. expected' = FirstSeq + d.pkt + 1 /\ d.pkt \in Nat /\ SeqOf(d) = FirstSeq + d.pkt
  BY NoWrapSeq DEF HandOver
<1>2. FirstSeq + p >= expected /\ p # d.pkt
  BY <1>1, ConstantsAssumption DEF TypeOK
<1>3. PICK x \in net \cup cached : x.pkt = p
  BY <1>2 DEF Accounted
<1> QED BY <1>2, <1>3

(* Every step of an orderly network preserves GapInv. *)
LEMMA GapInvInductive ==
  ASSUME NoWrap, TypeOK, TypeOK', PlayoutInv, GapInv, [Next]_vars
  PROVE  GapInv'
<1> SUFFICES ASSUME Orderly' PROVE (Consecutive /\ Accounted /\ mode # "flush")'
  BY DEF GapInv
<1> USE DEF netVars, recvVars
<1>1. Orderly /\ NoDups /\ UNCHANGED <<losses, dups, crowded>>
  BY OrderlyBefore
<1>2. OrderInv /\ Consecutive /\ Accounted /\ mode # "flush"
  BY <1>1 DEF PlayoutInv, GapInv
<1>3. ExpectsTheNext /\ NothingCachedBeforeTheFirst /\ Unique /\ CacheIsAhead /\ CacheNotBehind
  BY <1>2 DEF OrderInv, WaitInv
<1>4. CASE Send
  <2>1. sent \in Nat /\ expected \in Nat
    BY DEF TypeOK
  <2>2. /\ sent' = sent + 1 /\ net' = net \cup {[pkt |-> sent, copy |-> 0]}
        /\ UNCHANGED <<mode, expected, cached, delivered>>
    BY <1>4 DEF Send
  <2>3. ASSUME NEW p \in 0..(sent' - 1), FirstSeq + p >= expected
        PROVE  \E x \in net' \cup cached' : x.pkt = p
    <3>1. CASE p = sent
      <4>1. [pkt |-> sent, copy |-> 0].pkt = sent
        OBVIOUS
      <4> QED BY <2>2, <3>1, <4>1
    <3>2. CASE p # sent
      BY <1>2, <2>1, <2>2, <2>3, <3>2 DEF Accounted
    <3> QED BY <3>1, <3>2
  <2> QED BY <1>2, <2>2, <2>3 DEF Consecutive, Accounted
<1>5. ASSUME NEW d \in net, Lose(d) \/ Duplicate(d) PROVE FALSE
  <2>1. CASE Lose(d)
    <3>1. losses' = losses + 1 /\ losses \in Nat
      BY <2>1, ConstantsAssumption DEF Lose, TypeOK
    <3> QED BY <1>1, <3>1
  <2>2. CASE Duplicate(d)
    <3>1. dups' = dups + 1 /\ dups \in Nat
      BY <2>2, ConstantsAssumption DEF Duplicate, TypeOK
    <3> QED BY <1>1, <3>1
  <2> QED BY <1>5, <2>1, <2>2
<1>6. ASSUME NEW d \in net, Deliver(d) PROVE (Consecutive /\ Accounted /\ mode # "flush")'
  <2>1. /\ d \in Datagrams /\ HandOver(d) /\ SeqOf(d) = Awaited(d) /\ mode' = "drain"
        /\ net' = net \ {d} /\ cached' = cached /\ sent' = sent
    BY <1>6 DEF Deliver, Arrive, TypeOK
  <2>2. delivered = <<>> \/ SeqOf(d) = expected
    BY <1>3, <2>1, LastDelivered, ConstantsAssumption DEF Awaited, ExpectsTheNext, Packets
  <2>3. SeqOf(d) >= expected
    BY <1>3, <2>1, <2>2, NoWrapSeq, ConstantsAssumption DEF ExpectsTheNext, TypeOK
  <2> QED BY <1>2, <1>3, <2>1, <2>2, <2>3, HandOverConsecutive, HandOverAccounts
<1>7. ASSUME NEW d \in Tops, Pop(d) PROVE (Consecutive /\ Accounted /\ mode # "flush")'
  <2>1. /\ d \in Datagrams /\ HandOver(d) /\ SeqOf(d) = expected /\ mode' = mode
        /\ cached' = cached \ {d} /\ net' = net /\ sent' = sent
    BY <1>2, <1>7 DEF Pop, Tops, Poppable, TypeOK
  <2>2. SeqOf(d) >= expected
    BY <2>1 DEF TypeOK
  <2> QED BY <1>2, <1>3, <2>1, <2>2, HandOverConsecutive, HandOverAccounts
<1>8. ASSUME NEW d \in net, CachePacket(d) PROVE (Consecutive /\ Accounted /\ mode # "flush")'
  <2>1. /\ UNCHANGED <<mode, expected, delivered, sent>>
        /\ net' = net \ {d} /\ cached' = cached \cup {d}
    BY <1>8 DEF CachePacket, Arrive
  <2> QED BY <1>2, <2>1 DEF Consecutive, Accounted
<1>9. ASSUME NEW d \in net, Abandon(d) PROVE (Consecutive /\ Accounted /\ mode # "flush")'
  <2>1. /\ UNCHANGED <<mode, expected, delivered, sent, cached>>
        /\ net' = net \ {d}
    BY <1>9 DEF Abandon, Arrive
  <2>2. d.pkt \in Nat /\ SeqOf(d) = FirstSeq + d.pkt /\ FirstSeq + d.pkt < expected
    <3>1. SeqOf(d) < Awaited(d) /\ d \in Datagrams
      BY <1>9 DEF Abandon, TypeOK
    <3>2. d.pkt \in Nat /\ SeqOf(d) = FirstSeq + d.pkt
      BY <3>1, NoWrapSeq
    <3> QED BY <3>1, <3>2, ConstantsAssumption DEF Awaited, TypeOK
  <2>3. ASSUME NEW p \in 0..(sent - 1), FirstSeq + p >= expected
        PROVE  \E x \in net' \cup cached : x.pkt = p
    <3>1. PICK x \in net \cup cached : x.pkt = p
      BY <1>2, <2>3 DEF Accounted
    <3>2. x # d
      BY <2>2, <2>3, <3>1, ConstantsAssumption DEF TypeOK
    <3> QED BY <2>1, <3>1, <3>2
  <2> QED BY <1>2, <2>1, <2>3 DEF Consecutive, Accounted
<1>10. ASSUME NEW d \in net, Flush(d) PROVE FALSE
  <2>1. /\ mode = "idle" /\ net' = net \ {d} /\ SeqOf(d) > Awaited(d) /\ sent' = sent
        /\ Cardinality(cached) >= MaxCached
        /\ \A e \in net' : ~(Cardinality(Overtakers(e, net')) > MaxCached)
    BY <1>1, <1>10 DEF Flush, Arrive, Orderly
  <2>2. d \in Datagrams /\ d.pkt \in Nat /\ SeqOf(d) = FirstSeq + d.pkt /\ d.pkt < sent
    BY <1>3, NoWrapSeq DEF Unique, TypeOK
  <2>3. expected # 0 /\ SeqOf(d) > expected
    BY <2>1, <2>2, ConstantsAssumption DEF Awaited, TypeOK
  <2>4. PICK p \in Nat : expected = FirstSeq + p
    <3>1. delivered # <<>> /\ delivered[Len(delivered)] \in Nat
      BY <1>3, <2>3, LastDelivered DEF ExpectsTheNext, Packets
    <3>2. delivered[Len(delivered)] + 1 \in Nat
      BY <3>1
    <3> QED BY <1>3, <3>1, <3>2, ConstantsAssumption DEF ExpectsTheNext
  <2>5. p < d.pkt /\ p \in 0..(sent - 1)
    <3>1. FirstSeq \in Nat /\ sent \in Nat
      BY ConstantsAssumption DEF TypeOK
    <3>2. FirstSeq + d.pkt > FirstSeq + p
      BY <2>2, <2>3, <2>4
    <3> QED BY <2>2, <3>1, <3>2
  <2>6. PICK e \in net \cup cached : e.pkt = p
    BY <1>2, <2>4, <2>5, ConstantsAssumption DEF Accounted, TypeOK
  <2>7. ASSUME NEW c \in cached PROVE p < c.pkt
    <3>1. c \in Datagrams /\ SeqOf(c) > expected
      BY <1>3, <2>1 DEF CacheIsAhead, TypeOK
    <3>2. c.pkt \in Nat /\ SeqOf(c) = FirstSeq + c.pkt
      BY <3>1, NoWrapSeq
    <3> QED BY <2>4, <3>1, <3>2, ConstantsAssumption
  <2>8. e \in net /\ e # d
    BY <2>2, <2>5, <2>6, <2>7
  <2>9. Cardinality(Overtakers(e, net \ {d})) > MaxCached
    BY <1>1, <1>3, <2>1, <2>5, <2>6, <2>7, <2>8, FullCacheCrowds
  <2> QED BY <2>1, <2>8, <2>9
<1>11. CASE LoopEnds \/ RecvError \/ UNCHANGED vars
  BY <1>2, <1>11 DEF LoopEnds, RecvError, vars, Consecutive, Accounted
<1> QED
  BY <1>4, <1>5, <1>6, <1>7, <1>8, <1>9, <1>10, <1>11
  DEF Next, DataHandler, ProcessCachedPacket

(* As long as the network loses and duplicates nothing and never has more than
   MAX_CACHED_PACKET_SIZE packets overtake one that is still on its way,
   process_cached_packet is never told to flush, and the application gets every
   packet of the stream from the first that arrives on. *)
THEOREM NothingSkipped ==
  ASSUME NoWrap
  PROVE  Spec => []NoGaps
<1>1. Init => GapInv
  BY DEF Init, GapInv, Consecutive, Accounted
<1>2. TypeOK /\ TypeOK' /\ PlayoutInv /\ GapInv /\ [Next]_vars => GapInv'
  BY GapInvInductive
<1>3. GapInv => NoGaps
  BY DEF GapInv, Orderly, Consecutive, NoGaps
<1> QED BY <1>1, <1>2, <1>3, OrderInvariant, TypeCorrect, PTL DEF Spec
-----------------------------------------------------------------------------
(***************************************************************************)
(* What is played on arrival.                                              *)
(*                                                                         *)
(* A duplicate may be cached beside its original.  When one of them has    *)
(* been played the other stays in the queue, stale, until a flush plays it *)
(* again, and expected_seq_ is set back to the packet behind it.  Only a   *)
(* flush of nothing but stale packets leaves it there: but then the cache  *)
(* is full of them, each has cost a duplicate of its own, and when there   *)
(* are at most as many duplicates as places in the cache none is left that *)
(* could bring back the packet that is expected.                           *)
(***************************************************************************)

Played(p)  == \E i \in DOMAIN delivered : delivered[i] = p
LastPlayed == delivered[Len(delivered)]

(* The packet played last is the youngest of those played: expected_seq_ has
   not been set back. *)
LastIsYoungest == \A i \in DOMAIN delivered : delivered[i] <= LastPlayed

(* Every packet between q and the youngest played has been played. *)
Filled(q) == \A p \in Packets : p > q /\ ~Younger(p) => Played(p)

(* The duplicate c has left the network and the cache. *)
Gone(c) == \A d \in net \cup cached : d.copy # c

(* The packet that each duplicate was made of.  An original whose packet has been
   played is still there only if a duplicate was played in its place. *)
CopiesKnown ==
  \E of \in [1..dups -> Packets] :
    \A d \in net \cup cached :
      /\ d.copy # 0 => of[d.copy] = d.pkt
      /\ d.copy = 0 /\ Played(d.pkt) => \E c \in 1..dups : of[c] = d.pkt /\ Gone(c)

(* What is cached is younger than all that was played, or stale. *)
StaleInv ==
  /\ \A i \in DOMAIN delivered : delivered[i] < sent
  /\ delivered # <<>> => Filled(LastPlayed)
  /\ \A d \in cached : Younger(d.pkt) \/ (Played(d.pkt) /\ Filled(d.pkt))

(* No datagram will be duplicated any more, and none under way is stale. *)
Exhausted == dups = MaxDups /\ \A d \in net : ~Played(d.pkt)

(* When expected_seq_ is set back, and when a flush may do it. *)
TurnInv ==
  /\ mode = "idle" => LastIsYoungest \/ Exhausted
  /\ mode = "drain" => LastIsYoungest
  /\ mode = "flush" => \/ \E d \in cached : Younger(d.pkt)
                       \/ Exhausted /\ \A d \in cached : Played(d.pkt)
                       \/ LastIsYoungest /\ \A d \in cached : d.pkt = LastPlayed

(* The inductive invariant, beside WaitInv. *)
ArrivalInv == CopiesKnown /\ StaleInv /\ TurnInv

(* The priority queue has a top unless it is empty: among the sets of packets at
   most as large as one of them, which are finite, there is a smallest. *)
LEMMA TopExists ==
  ASSUME TypeOK, cached # {}
  PROVE  Tops # {}
<1> DEFINE upto(e) == {d \in cached : SeqOf(d) <= SeqOf(e)}
           ups     == {upto(e) : e \in cached}
<1>1. IsFiniteSet(cached) /\ \A d \in cached : SeqOf(d) \in Nat
  BY SeqOfType, ConstantsAssumption DEF TypeOK
<1>2. ups \subseteq FiniteSubsetsOf(cached)
  <2>1. \A e \in cached : upto(e) \in SUBSET cached
    OBVIOUS
  <2>2. FiniteSubsetsOf(cached) = SUBSET cached
    BY <1>1, FS_FiniteSubsetsOfFinite
  <2> QED BY <2>1, <2>2
<1>3. ups # {}
  OBVIOUS
<1>4. PICK U \in ups : \A V \in ups : <<V, U>> \notin StrictSubsetOrdering(cached)
  <2> HIDE DEF ups
  <2>1. IsWellFoundedOn(StrictSubsetOrdering(cached), FiniteSubsetsOf(cached))
    BY FS_StrictSubsetOrderingWellFounded
  <2> QED BY <1>2, <1>3, <2>1, WFMin
<1>5. PICK e \in cached : U = upto(e)
  OBVIOUS
<1>6. ASSUME NEW d \in cached PROVE SeqOf(e) <= SeqOf(d)
  <2>1. SUFFICES ASSUME SeqOf(d) < SeqOf(e) PROVE FALSE
    BY <1>1
  <2>2. upto(d) \subseteq upto(e)
    BY <1>1, <2>1
  <2>3. e \in upto(e) /\ e \notin upto(d)
    BY <1>1, <2>1
  <2>4. upto(d) \in ups /\ upto(d) \in SUBSET cached /\ upto(e) \in SUBSET cached
    OBVIOUS
  <2> HIDE DEF upto, ups
  <2>5. <<upto(d), upto(e)>> \in StrictSubsetOrdering(cached)
    BY <2>2, <2>3, <2>4 DEF StrictSubsetOrdering
  <2> QED BY <1>4, <1>5, <2>4, <2>5
<1> QED BY <1>6 DEF Tops

(* The packets that were played, when one more is. *)
LEMMA HandOverPlays ==
  ASSUME TypeOK, NEW d \in Datagrams, HandOver(d)
  PROVE  /\ \A p : Played(p)' <=> Played(p) \/ p = d.pkt
         /\ \A p : Younger(p)' <=> Younger(p) /\ d.pkt < p
         /\ LastPlayed' = d.pkt /\ delivered' # <<>>
         /\ \A i \in DOMAIN delivered' : delivered'[i] = d.pkt \/ Played(delivered'[i])
<1>1. delivered \in Seq(Packets) /\ d.pkt \in Packets /\ delivered' = Append(delivered, d.pkt)
  BY DEF HandOver, TypeOK, Datagrams
<1>2. /\ Len(delivered') = Len(delivered) + 1
      /\ Len(delivered) \in Nat
      /\ DOMAIN delivered = 1..Len(delivered)
      /\ DOMAIN delivered' = 1..(Len(delivered) + 1)
      /\ \A i \in 1..Len(delivered) : delivered'[i] = delivered[i]
      /\ delivered'[Len(delivered) + 1] = d.pkt
      /\ delivered' # <<>>
  BY <1>1
<1>3. DOMAIN delivered' = DOMAIN delivered \cup {Len(delivered) + 1}
  BY <1>2
<1>4. \A p : Played(p)' <=> Played(p) \/ p = d.pkt
  BY <1>2, <1>3 DEF Played
<1>5. \A p : Younger(p)' <=> Younger(p) /\ d.pkt < p
  BY <1>2, <1>3 DEF Younger
<1> QED BY <1>2, <1>3, <1>4, <1>5 DEF LastPlayed, Played

(* Packets are numbers; what was played is not younger than itself. *)
LEMMA PlayedIsNotYounger ==
  ASSUME TypeOK
  PROVE  /\ \A p : Played(p) => p \in Packets /\ ~Younger(p)
         /\ delivered # <<>> => Played(LastPlayed)
         /\ \A p, q \in Nat : Younger(p) /\ p <= q => Younger(q)
<1>1. \A i \in DOMAIN delivered : delivered[i] \in Packets
  BY ElementOfSeq, LenProperties DEF TypeOK
<1>2. \A p \in Packets : p \in Nat
  BY DEF Packets
<1>3. \A p : Played(p) => p \in Packets /\ ~Younger(p)
  BY <1>1, <1>2 DEF Played, Younger
<1>4. delivered # <<>> => Played(LastPlayed)
  BY LastDelivered DEF Played, LastPlayed
<1>5. \A p, q \in Nat : Younger(p) /\ p <= q => Younger(q)
  BY <1>1, <1>2 DEF Younger
<1> QED BY <1>3, <1>4, <1>5

(* Datagrams leave the network or the cache, and at most those are played. *)
LEMMA CopiesLeave ==
  ASSUME TypeOK, Unique, CopiesKnown, dups' = dups,
         net' \cup cached' \subseteq net \cup cached,
         \A p : Played(p)' =>
           \/ Played(p)
           \/ \E d \in net \cup cached : d \notin net' \cup cached' /\ p = d.pkt
  PROVE  CopiesKnown'
<1>1. PICK of \in [1..dups -> Packets] :
        \A d \in net \cup cached :
          /\ d.copy # 0 => of[d.copy] = d.pkt
          /\ d.copy = 0 /\ Played(d.pkt) => \E c \in 1..dups : of[c] = d.pkt /\ Gone(c)
  BY DEF CopiesKnown
<1>2. \A c : Gone(c) => Gone(c)'
  BY DEF Gone
<1>3. ASSUME NEW e \in net' \cup cached', e.copy = 0, Played(e.pkt)'
      PROVE  \E c \in 1..dups : of[c] = e.pkt /\ Gone(c)'
  <2>1. CASE Played(e.pkt)
    BY <1>1, <1>2, <1>3, <2>1
  <2>2. CASE ~Played(e.pkt)
    <3>1. PICK d \in net \cup cached : d \notin net' \cup cached' /\ e.pkt = d.pkt
      BY <1>3, <2>2
    <3>2. d \in Datagrams /\ e \in Datagrams /\ d # e
      BY <3>1 DEF TypeOK
    <3>3. d.copy # 0 /\ d.copy \in Nat
      <4>1. d = [pkt |-> d.pkt, copy |-> d.copy] /\ e = [pkt |-> e.pkt, copy |-> e.copy]
        BY <3>2 DEF Datagrams
      <4>2. d.copy \in Nat
        BY <3>2 DEF Datagrams
      <4> QED BY <1>3, <3>1, <3>2, <4>1, <4>2
    <3>4. d.copy \in 1..dups /\ of[d.copy] = d.pkt
      BY <1>1, <3>3 DEF Unique, TypeOK
    <3>5. Gone(d.copy)'
      <4>1. ASSUME NEW x \in net' \cup cached', x.copy = d.copy PROVE FALSE
        <5>1. x \in net \cup cached /\ x \in Datagrams /\ x.pkt = d.pkt
          BY <1>1, <3>3, <4>1 DEF TypeOK
        <5>2. x = [pkt |-> x.pkt, copy |-> x.copy] /\ d = [pkt |-> d.pkt, copy |-> d.copy]
          BY <3>2, <5>1 DEF Datagrams
        <5> QED BY <3>1, <4>1, <5>1, <5>2
      <4> QED BY <4>1 DEF Gone
    <3> QED BY <3>1, <3>4, <3>5
  <2> QED BY <2>1, <2>2
<1>4. \A e \in net' \cup cached' : e.copy # 0 => of[e.copy] = e.pkt
  BY <1>1
<1> QED BY <1>1, <1>3, <1>4, Zenon DEF CopiesKnown

(* A packet that is emitted has not been played. *)
LEMMA CopiesSend ==
  ASSUME TypeOK, CopiesKnown, StaleInv, Send
  PROVE  CopiesKnown'
<1> DEFINE new == [pkt |-> sent, copy |-> 0]
<1>1. PICK of \in [1..dups -> Packets] :
        \A d \in net \cup cached :
          /\ d.copy # 0 => of[d.copy] = d.pkt
          /\ d.copy = 0 /\ Played(d.pkt) => \E c \in 1..dups : of[c] = d.pkt /\ Gone(c)
  BY DEF CopiesKnown
<1>2. /\ net' = net \cup {new} /\ dups' = dups /\ cached' = cached /\ delivered' = delivered
      /\ new.pkt = sent /\ new.copy = 0
  BY DEF Send, recvVars
<1> HIDE DEF new
<1>3. ~Played(sent)
  BY DEF StaleInv, Played, TypeOK
<1>4. \A p : Played(p)' <=> Played(p)
  BY <1>2 DEF Played
<1>5. ASSUME NEW c \in 1..dups, Gone(c) PROVE Gone(c)'
  BY <1>2, <1>5 DEF Gone
<1>6. ASSUME NEW e \in net' \cup cached'
      PROVE  /\ e.copy # 0 => of[e.copy] = e.pkt
             /\ e.copy = 0 /\ Played(e.pkt)' => \E c \in 1..dups' : of[c] = e.pkt /\ Gone(c)'
  BY <1>1, <1>2, <1>3, <1>4, <1>5
<1>7. of \in [1..dups' -> Packets]
  BY <1>2
<1> QED BY <1>6, <1>7, Zenon DEF CopiesKnown

(* A duplicate has a number of its own. *)
LEMMA CopiesDuplicate ==
  ASSUME TypeOK, Unique, CopiesKnown, NEW d \in net, Duplicate(d)
  PROVE  CopiesKnown'
<1> DEFINE new == [pkt |-> d.pkt, copy |-> dups + 1]
<1>1. PICK of \in [1..dups -> Packets] :
        \A e \in net \cup cached :
          /\ e.copy # 0 => of[e.copy] = e.pkt
          /\ e.copy = 0 /\ Played(e.pkt) => \E c \in 1..dups : of[c] = e.pkt /\ Gone(c)
  BY DEF CopiesKnown
<1>2. /\ net' = net \cup {new} /\ dups' = dups + 1 /\ cached' = cached /\ delivered' = delivered
      /\ new.pkt = d.pkt /\ new.copy = dups + 1 /\ dups \in Nat /\ d.pkt \in Packets
  BY DEF Duplicate, recvVars, TypeOK, Datagrams
<1> HIDE DEF new
<1> DEFINE ofNew == [c \in 1..(dups + 1) |-> IF c = dups + 1 THEN d.pkt ELSE of[c]]
<1>3. ofNew \in [1..dups' -> Packets] /\ \A c \in 1..dups : ofNew[c] = of[c]
  BY <1>1, <1>2
<1>4. ofNew[dups + 1] = d.pkt
  BY <1>2
<1> HIDE DEF ofNew
<1>5. \A p : Played(p)' <=> Played(p)
  BY <1>2 DEF Played
<1>6. ASSUME NEW c \in 1..dups, Gone(c) PROVE Gone(c)' /\ c \in 1..dups'
  <2>1. c # dups + 1 /\ c \in 1..dups'
    BY <1>2
  <2> QED BY <1>2, <1>6, <2>1 DEF Gone
<1>7. ASSUME NEW e \in net' \cup cached'
      PROVE  /\ e.copy # 0 => ofNew[e.copy] = e.pkt
             /\ e.copy = 0 /\ Played(e.pkt)' => \E c \in 1..dups' : ofNew[c] = e.pkt /\ Gone(c)'
  <2>1. CASE e = new
    BY <1>2, <1>4, <2>1
  <2>2. CASE e \in net \cup cached
    <3>1. e.copy \in Nat /\ e.copy <= dups
      BY <2>2 DEF Unique, TypeOK, Datagrams
    <3>2. e.copy # 0 => e.copy \in 1..dups
      BY <1>2, <3>1
    <3>3. e.copy # 0 => ofNew[e.copy] = e.pkt
      BY <1>1, <1>3, <2>2, <3>2
    <3>4. ASSUME e.copy = 0, Played(e.pkt)'
          PROVE  \E c \in 1..dups' : ofNew[c] = e.pkt /\ Gone(c)'
      <4>1. PICK c \in 1..dups : of[c] = e.pkt /\ Gone(c)
        BY <1>1, <1>5, <2>2, <3>4
      <4> QED BY <1>3, <1>6, <4>1
    <3> QED BY <3>3, <3>4
  <2> QED BY <1>2, <2>1, <2>2
<1> QED BY <1>3, <1>7, Zenon DEF CopiesKnown

(* A full cache of stale packets has cost as many duplicates as there are places
   in it. *)
LEMMA StaleCacheExhausts ==
  ASSUME TypeOK, Unique, CopiesKnown, MaxDups <= MaxCached,
         Cardinality(cached) >= MaxCached, \A d \in cached : Played(d.pkt)
  PROVE  Exhausted
<1>1. PICK of \in [1..dups -> Packets] :
        \A d \in net \cup cached :
          /\ d.copy # 0 => of[d.copy] = d.pkt
          /\ d.copy = 0 /\ Played(d.pkt) => \E c \in 1..dups : of[c] = d.pkt /\ Gone(c)
  BY DEF CopiesKnown
<1> DEFINE cost == [d \in cached |->
                      CHOOSE c \in 1..dups : /\ of[c] = d.pkt
                                             /\ c = d.copy \/ (d.copy = 0 /\ Gone(c))]
<1>2. ASSUME NEW d \in cached
      PROVE  /\ cost[d] \in 1..dups /\ of[cost[d]] = d.pkt
             /\ cost[d] = d.copy \/ (d.copy = 0 /\ Gone(cost[d]))
  <2>1. d.copy \in Nat /\ d.copy <= dups /\ dups \in Nat
    BY DEF Unique, TypeOK, Datagrams
  <2>2. \E c \in 1..dups : of[c] = d.pkt /\ (c = d.copy \/ (d.copy = 0 /\ Gone(c)))
    <3>1. CASE d.copy = 0
      BY <1>1, <3>1
    <3>2. CASE d.copy # 0
      <4>1. d.copy \in 1..dups
        BY <2>1, <3>2
      <4> QED BY <1>1, <3>2, <4>1
    <3> QED BY <3>1, <3>2
  <2> QED BY <2>2, Zenon
<1> HIDE DEF cost
<1>3. \A d, e \in net \cup cached : d.pkt = e.pkt /\ d.copy = e.copy => d = e
  <2>1. \A d \in net \cup cached : d = [pkt |-> d.pkt, copy |-> d.copy]
    BY DEF TypeOK, Datagrams
  <2> QED BY <2>1, Zenon
<1>4. cost \in [cached -> 1..dups]
  BY <1>2 DEF cost
<1>5. ASSUME NEW d \in cached, NEW e \in cached, cost[d] = cost[e] PROVE d = e
  <2>1. d.pkt = e.pkt
    BY <1>2, <1>5
  <2>2. d.copy = e.copy
    BY <1>2, <1>5 DEF Gone
  <2> QED BY <1>3, <2>1, <2>2
<1>6. cost \in Injection(cached, 1..dups)
  BY <1>4, <1>5 DEF Injection, IsInjective
<1>7. dups \in Nat /\ dups <= MaxDups /\ MaxDups \in Nat /\ MaxCached \in Nat
  BY ConstantsAssumption DEF TypeOK
<1>8. IsFiniteSet(1..dups) /\ Cardinality(1..dups) = dups
  BY <1>7, FS_Interval
<1>9. /\ Cardinality(cached) <= Cardinality(1..dups)
      /\ Cardinality(cached) = Cardinality(1..dups) => cost \in Surjection(cached, 1..dups)
  BY <1>6, <1>8, FS_Injection
<1>10. Cardinality(cached) \in Nat
  BY FS_CardinalityType DEF TypeOK
<1>11. dups = MaxDups /\ cost \in Surjection(cached, 1..dups)
  BY <1>7, <1>8, <1>9, <1>10
<1>12. \A c \in 1..dups : \E s \in cached : cost[s] = c
  BY <1>11 DEF Surjection
<1>13. ASSUME NEW d \in net, Played(d.pkt) PROVE FALSE
  <2>1. PICK c \in 1..dups : of[c] = d.pkt /\ (c = d.copy \/ (d.copy = 0 /\ Gone(c)))
    <3>1. CASE d.copy = 0
      BY <1>1, <1>13, <3>1
    <3>2. CASE d.copy # 0
      <4>1. d.copy \in 1..dups
        BY <1>7, <3>2 DEF Unique, TypeOK, Datagrams
      <4> QED BY <1>1, <3>2, <4>1
    <3> QED BY <3>1, <3>2
  <2>2. PICK s \in cached : cost[s] = c
    BY <1>12
  <2>3. s.pkt = d.pkt
    BY <1>2, <2>1, <2>2
  <2>4. s.copy = d.copy
    BY <1>2, <2>1, <2>2 DEF Gone
  <2>5. s = d
    BY <1>3, <2>3, <2>4
  <2> QED BY <2>5 DEF Unique
<1> QED BY <1>11, <1>13 DEF Exhausted
(* The expected number tells how far a packet is from the one played last. *)
LEMMA DistanceFromTheLast ==
  ASSUME NoWrap, TypeOK, ExpectsTheNext, delivered # <<>>, NEW d \in Datagrams
  PROVE  /\ d.pkt \in Packets /\ d.pkt \in Nat /\ LastPlayed \in Nat /\ expected # 0
         /\ SeqOf(d) = expected => d.pkt = LastPlayed + 1
         /\ SeqOf(d) > expected => d.pkt > LastPlayed + 1
<1>1. d.pkt \in Packets /\ d.pkt \in Nat /\ SeqOf(d) = FirstSeq + d.pkt /\ FirstSeq \in Nat
  BY NoWrapSeq, ConstantsAssumption DEF Datagrams
<1>2. LastPlayed \in Nat /\ expected = FirstSeq + LastPlayed + 1
  BY LastDelivered DEF ExpectsTheNext, LastPlayed, Packets
<1> QED BY <1>1, <1>2

(* Unless expected_seq_ has been set back, the packet that is expected is younger
   than all that were played; when it has been, the expected packet has been
   played before, and so may not come back. *)
LEMMA ExpectedIsYounger ==
  ASSUME NoWrap, TypeOK, ExpectsTheNext, StaleInv, delivered # <<>>,
         NEW d \in Datagrams, SeqOf(d) = expected, LastIsYoungest \/ ~Played(d.pkt)
  PROVE  Younger(d.pkt)
<1>1. d.pkt \in Packets /\ d.pkt \in Nat /\ LastPlayed \in Nat /\ d.pkt = LastPlayed + 1
  BY DistanceFromTheLast
<1>2. CASE LastIsYoungest
  <2>1. \A i \in DOMAIN delivered : delivered[i] \in Nat
    BY PlayedIsNotYounger DEF Played, Packets
  <2> QED BY <1>1, <1>2, <2>1 DEF LastIsYoungest, Younger
<1>3. CASE ~Played(d.pkt)
  BY <1>1, <1>3 DEF StaleInv, Filled
<1> QED BY <1>2, <1>3

(* A packet that is younger than all before it is the youngest once it is played. *)
LEMMA YoungerBecomesYoungest ==
  ASSUME TypeOK, NEW d \in Datagrams, HandOver(d), Younger(d.pkt)
  PROVE  LastIsYoungest'
<1>1. d.pkt \in Nat
  BY DEF Datagrams, Packets
<1>2. \A p : Played(p) => p < d.pkt /\ p \in Nat
  BY PlayedIsNotYounger DEF Played, Younger, Packets
<1> QED BY <1>1, <1>2, HandOverPlays DEF LastIsYoungest

(* Playing a packet that has been played before changes nothing in what has been
   played. *)
LEMMA StalePlaysNothingNew ==
  ASSUME TypeOK, NEW d \in Datagrams, HandOver(d), Played(d.pkt)
  PROVE  \A p \in Nat : (Played(p)' <=> Played(p)) /\ (Younger(p)' <=> Younger(p))
BY HandOverPlays DEF Played, Younger

(* The three ways in which packets are played: a younger one at the head of the
   queue, the expected one, and a stale one of a flush. *)
LEMMA HandOverKeepsStale ==
  ASSUME TypeOK, StaleInv, NEW d \in Datagrams, HandOver(d), d.pkt < sent,
         cached' \subseteq cached, sent' = sent,
         \/ Younger(d.pkt) /\ \A e \in cached' : d.pkt <= e.pkt
         \/ Younger(d.pkt) /\ delivered # <<>> /\ d.pkt = LastPlayed + 1
         \/ Played(d.pkt) /\ Filled(d.pkt)
  PROVE  StaleInv'
<1>1. /\ d.pkt \in Packets /\ d.pkt \in Nat /\ \A p \in Packets : p \in Nat
      /\ \A e \in cached : e.pkt \in Packets
  BY DEF Datagrams, Packets, TypeOK
<1>2. /\ \A p : Played(p)' <=> Played(p) \/ p = d.pkt
      /\ \A p : Younger(p)' <=> Younger(p) /\ d.pkt < p
      /\ LastPlayed' = d.pkt
      /\ \A i \in DOMAIN delivered' : delivered'[i] = d.pkt \/ Played(delivered'[i])
  BY HandOverPlays
<1>3. \A i \in DOMAIN delivered' : delivered'[i] < sent'
  BY <1>2 DEF StaleInv, Played
<1>4. \A p, q \in Nat : Younger(p) /\ p <= q => Younger(q)
  BY PlayedIsNotYounger
<1>5. CASE Younger(d.pkt)
  <2>1. Filled(d.pkt)'
    BY <1>1, <1>2, <1>4, <1>5 DEF Filled
  <2>2. ASSUME NEW e \in cached', d.pkt <= e.pkt
        PROVE  Younger(e.pkt)' \/ (Played(e.pkt)' /\ Filled(e.pkt)')
    <3>1. CASE d.pkt = e.pkt
      BY <1>2, <2>1, <3>1
    <3>2. CASE d.pkt < e.pkt
      BY <1>1, <1>2, <1>4, <1>5, <3>2
    <3> QED BY <1>1, <2>2, <3>1, <3>2
  <2>3. ASSUME NEW e \in cached', e.pkt < d.pkt, delivered # <<>>, d.pkt = LastPlayed + 1
        PROVE  Played(e.pkt)' /\ Filled(e.pkt)'
    <3>1. LastPlayed \in Packets /\ Played(LastPlayed) /\ ~Younger(LastPlayed)
      BY <2>3, PlayedIsNotYounger
    <3>2. \A p \in Packets : p < d.pkt => ~Younger(p)
      BY <1>1, <1>4, <2>3, <3>1
    <3>3. Played(e.pkt) /\ Filled(e.pkt)
      BY <1>1, <2>3, <3>2 DEF StaleInv
    <3>4. \A p \in Packets : p > e.pkt /\ ~Younger(p)' => Played(p)'
      <4> TAKE p \in Packets
    <4> HAVE p > e.pkt /\ ~Younger(p)'
    <4>1. p = d.pkt \/ p < d.pkt \/ ~Younger(p)
      BY <1>1, <1>2
    <4>2. p = d.pkt \/ ~Younger(p)
      BY <3>2, <4>1
    <4> QED BY <1>2, <3>3, <4>2 DEF Filled
    <3> QED BY <1>2, <3>3, <3>4 DEF Filled
  <2>4. \A e \in cached' : Younger(e.pkt)' \/ (Played(e.pkt)' /\ Filled(e.pkt)')
    BY <1>1, <1>5, <2>2, <2>3, PlayedIsNotYounger
  <2> QED BY <1>2, <1>3, <2>1, <2>4 DEF StaleInv, Filled
<1>6. CASE Played(d.pkt) /\ Filled(d.pkt)
  <2>1. \A p \in Packets : (Played(p)' <=> Played(p)) /\ (Younger(p)' <=> Younger(p))
    BY <1>1, <1>6, StalePlaysNothingNew
  <2>2. \A q : Filled(q)' <=> Filled(q)
    BY <2>1 DEF Filled
  <2>3. \A e \in cached' : Younger(e.pkt)' \/ (Played(e.pkt)' /\ Filled(e.pkt)')
    BY <1>1, <2>1, <2>2 DEF StaleInv
  <2>4. Filled(LastPlayed)'
    BY <1>2, <1>6, <2>2 DEF Filled
  <2> QED BY <1>3, <2>3, <2>4 DEF StaleInv
<1> QED BY <1>5, <1>6
(* What has been played, when nothing is. *)
LEMMA NothingPlayed ==
  ASSUME delivered' = delivered
  PROVE  /\ \A p : Played(p)' = Played(p)
         /\ \A p : Younger(p)' = Younger(p)
         /\ \A p : Filled(p)' = Filled(p)
         /\ LastPlayed' = LastPlayed
         /\ LastIsYoungest' = LastIsYoungest
<1>1. /\ \A p : Played(p)' = Played(p)
      /\ \A p : Younger(p)' = Younger(p)
      /\ LastPlayed' = LastPlayed
      /\ LastIsYoungest' = LastIsYoungest
  BY Zenon DEF Played, Younger, LastPlayed, LastIsYoungest
<1>2. \A p : Filled(p)' = Filled(p)
  BY Zenon DEF Filled, Played, Younger
<1> QED BY <1>1, <1>2

(* The packet that is played on arrival is the first, or the one behind the
   packet played last, and younger than all before it. *)
LEMMA ArrivalIsYounger ==
  ASSUME NoWrap, TypeOK, WaitInv, StaleInv, TurnInv, NEW d \in net, Deliver(d)
  PROVE  /\ Younger(d.pkt)
         /\ \/ delivered = <<>> /\ cached = {}
            \/ delivered # <<>> /\ d.pkt = LastPlayed + 1
<1>1. d \in Datagrams /\ SeqOf(d) = Awaited(d) /\ mode = "idle"
  BY DEF Deliver, Arrive, TypeOK
<1>2. CASE delivered = <<>>
  BY <1>2 DEF Younger, WaitInv, NothingCachedBeforeTheFirst
<1>3. CASE delivered # <<>>
  <2>1. d.pkt = LastPlayed + 1 /\ SeqOf(d) = expected
    BY <1>1, <1>3, DistanceFromTheLast DEF WaitInv, Awaited
  <2>2. LastIsYoungest \/ ~Played(d.pkt)
    BY <1>1 DEF TurnInv, Exhausted
  <2> QED BY <1>1, <1>3, <2>1, <2>2, ExpectedIsYounger DEF WaitInv
<1> QED BY <1>2, <1>3

(* The same of the packets popped while nothing is flushed. *)
LEMMA DrainedIsYounger ==
  ASSUME NoWrap, TypeOK, WaitInv, StaleInv, TurnInv, NEW d \in Tops, Pop(d), mode # "flush"
  PROVE  Younger(d.pkt) /\ delivered # <<>> /\ d.pkt = LastPlayed + 1
<1>1. d \in Datagrams /\ SeqOf(d) = expected /\ mode = "drain" /\ delivered # <<>>
  BY DEF Pop, Poppable, Tops, TypeOK, WaitInv, NothingCachedBeforeTheFirst
<1>2. d.pkt = LastPlayed + 1
  BY <1>1, DistanceFromTheLast DEF WaitInv
<1> QED BY <1>1, <1>2, ExpectedIsYounger DEF WaitInv, TurnInv

(* No packet of the queue is older than its top. *)
LEMMA TopIsOldest ==
  ASSUME NoWrap, TypeOK, NEW d \in Tops
  PROVE  \A e \in cached : d.pkt <= e.pkt
<1>1. d \in Datagrams /\ \A e \in cached : e \in Datagrams /\ SeqOf(d) <= SeqOf(e)
  BY DEF Tops, TypeOK
<1> QED BY <1>1, NoWrapSeq, ConstantsAssumption

LEMMA CopiesKnownInductive ==
  ASSUME TypeOK, Unique, CopiesKnown, StaleInv, [Next]_vars
  PROVE  CopiesKnown'
<1> USE DEF netVars, recvVars
<1>1. ASSUME NEW d \in net, Lose(d) PROVE CopiesKnown'
  <2>1. dups' = dups /\ delivered' = delivered /\ net' \cup cached' \subseteq net \cup cached
    BY <1>1 DEF Lose
  <2> QED BY <2>1, CopiesLeave DEF Played
<1>2. ASSUME NEW d \in net, Deliver(d) PROVE CopiesKnown'
  <2>1. /\ dups' = dups /\ net' = net \ {d} /\ cached' = cached /\ HandOver(d)
        /\ d \in Datagrams /\ d \notin cached
    BY <1>2 DEF Deliver, Arrive, TypeOK, Unique
  <2>2. \A p : Played(p)' <=> Played(p) \/ p = d.pkt
    BY <2>1, HandOverPlays
  <2> QED BY <2>1, <2>2, CopiesLeave
<1>3. ASSUME NEW d \in Tops, Pop(d) PROVE CopiesKnown'
  <2>1. /\ dups' = dups /\ net' = net /\ cached' = cached \ {d} /\ HandOver(d)
        /\ d \in Datagrams /\ d \in cached /\ d \notin net
    BY <1>3 DEF Pop, Tops, TypeOK, Unique
  <2>2. \A p : Played(p)' <=> Played(p) \/ p = d.pkt
    BY <2>1, HandOverPlays
  <2> QED BY <2>1, <2>2, CopiesLeave
<1>4. ASSUME NEW d \in net, CachePacket(d) \/ Flush(d) \/ Abandon(d) PROVE CopiesKnown'
  <2>1. dups' = dups /\ delivered' = delivered /\ net' \cup cached' \subseteq net \cup cached
    BY <1>4 DEF CachePacket, Flush, Abandon, Arrive
  <2> QED BY <2>1, CopiesLeave DEF Played
<1>5. CASE LoopEnds \/ RecvError \/ UNCHANGED vars
  <2>1. dups' = dups /\ delivered' = delivered /\ net' \cup cached' \subseteq net \cup cached
    BY <1>5 DEF LoopEnds, RecvError, vars
  <2> QED BY <2>1, CopiesLeave DEF Played
<1> QED
  BY <1>1, <1>2, <1>3, <1>4, <1>5, CopiesSend, CopiesDuplicate
  DEF Next, DataHandler, ProcessCachedPacket

LEMMA StaleInvInductive ==
  ASSUME NoWrap, TypeOK, TypeOK', WaitInv, StaleInv, TurnInv, [Next]_vars
  PROVE  StaleInv'
<1> USE DEF netVars, recvVars
<1>1. ASSUME delivered' = delivered, cached' \subseteq cached, sent' = sent \/ sent' = sent + 1
      PROVE  StaleInv'
  <2>1. \A i \in DOMAIN delivered' : delivered'[i] < sent'
    <3>1. sent \in Nat /\ sent' >= sent
      BY <1>1 DEF TypeOK
    <3>2. \A i \in DOMAIN delivered : delivered[i] \in Nat
      BY PlayedIsNotYounger DEF Played, Packets
    <3> QED BY <1>1, <3>1, <3>2 DEF StaleInv
  <2>2. delivered' # <<>> => Filled(LastPlayed)'
    BY <1>1, Zenon DEF StaleInv, Filled, LastPlayed, Played, Younger
  <2>3. \A d \in cached' : Younger(d.pkt)' \/ (Played(d.pkt)' /\ Filled(d.pkt)')
    BY <1>1, NothingPlayed DEF StaleInv
  <2> QED BY <2>1, <2>2, <2>3 DEF StaleInv
<1>2. ASSUME NEW d \in net, Deliver(d) PROVE StaleInv'
  <2>1. /\ HandOver(d) /\ d \in Datagrams /\ d.pkt < sent /\ cached' = cached /\ sent' = sent
    BY <1>2 DEF Deliver, Arrive, TypeOK, WaitInv, Unique
  <2> QED BY <1>2, <2>1, ArrivalIsYounger, HandOverKeepsStale
<1>3. ASSUME NEW d \in Tops, Pop(d) PROVE StaleInv'
  <2>1. /\ HandOver(d) /\ d \in Datagrams /\ d.pkt < sent /\ cached' = cached \ {d}
        /\ sent' = sent /\ d \in cached
    BY <1>3 DEF Pop, Tops, TypeOK, WaitInv, Unique
  <2>2. CASE mode # "flush"
    BY <1>3, <2>1, <2>2, DrainedIsYounger, HandOverKeepsStale
  <2>3. CASE mode = "flush"
    <3>1. \A e \in cached' : d.pkt <= e.pkt
      BY <2>1, TopIsOldest
    <3> QED BY <2>1, <3>1, HandOverKeepsStale DEF StaleInv
  <2> QED BY <2>2, <2>3
<1>4. ASSUME NEW d \in net, CachePacket(d) PROVE StaleInv'
  <2>1. /\ d \in Datagrams /\ SeqOf(d) > Awaited(d)
        /\ cached' = cached \cup {d} /\ delivered' = delivered /\ sent' = sent
    BY <1>4 DEF CachePacket, Arrive, TypeOK
  <2>2. delivered # <<>> /\ SeqOf(d) > expected
    BY <2>1, SeqOfType, ConstantsAssumption DEF WaitInv, ExpectsTheNext, Awaited, TypeOK
  <2>3. d.pkt > LastPlayed /\ d.pkt \in Packets /\ d.pkt \in Nat /\ LastPlayed \in Nat
    BY <2>1, <2>2, DistanceFromTheLast DEF WaitInv
  <2>4. Filled(LastPlayed) /\ \A p \in Packets : p \in Nat
    BY <2>2 DEF StaleInv, Packets
  <2>5. Younger(d.pkt) \/ Played(d.pkt)
    BY <2>3, <2>4 DEF Filled
  <2>6. Filled(d.pkt)
    BY <2>3, <2>4 DEF Filled
  <2>7. \A e \in cached' : Younger(e.pkt)' \/ (Played(e.pkt)' /\ Filled(e.pkt)')
    BY <2>1, <2>5, <2>6, NothingPlayed DEF StaleInv
  <2>8. Filled(LastPlayed)'
    BY <2>1, <2>4, Zenon DEF Filled, LastPlayed, Played, Younger
  <2> QED BY <2>1, <2>7, <2>8 DEF StaleInv
<1>5. ASSUME NEW d \in net, Flush(d) \/ Abandon(d) PROVE StaleInv'
  BY <1>1, <1>5 DEF Flush, Abandon, Arrive
<1>6. ASSUME NEW d \in net, Lose(d) \/ Duplicate(d) PROVE StaleInv'
  BY <1>1, <1>6 DEF Lose, Duplicate
<1>7. CASE Send \/ LoopEnds \/ RecvError \/ UNCHANGED vars
  BY <1>1, <1>7 DEF Send, LoopEnds, RecvError, vars
<1> QED
  BY <1>2, <1>3, <1>4, <1>5, <1>6, <1>7 DEF Next, DataHandler, ProcessCachedPacket

(* Once no stale datagram can appear none does, while only stale packets, or
   none, are played. *)
LEMMA StaysExhausted ==
  ASSUME Exhausted, dups' = dups, \A d \in net' : d \in net \/ ~Played(d.pkt),
         \A d \in net' : Played(d.pkt)' => Played(d.pkt)
  PROVE  Exhausted'
BY DEF Exhausted

LEMMA TurnInvInductive ==
  ASSUME NoWrap, MaxDups <= MaxCached, TypeOK, TypeOK', WaitInv, ArrivalInv, [Next]_vars
  PROVE  TurnInv'
<1> USE DEF netVars, recvVars
<1>1. CopiesKnown /\ StaleInv /\ TurnInv /\ Unique
  BY DEF ArrivalInv, WaitInv
<1>2. ASSUME delivered' = delivered, cached' = cached, mode' = mode,
             Exhausted => Exhausted'
      PROVE  TurnInv'
  BY <1>1, <1>2, NothingPlayed DEF TurnInv
<1>3. ASSUME delivered' = delivered, dups' = dups, net' \subseteq net, Exhausted PROVE Exhausted'
  BY <1>3, NothingPlayed, StaysExhausted
<1>4. CASE Send
  <2>1. /\ delivered' = delivered /\ cached' = cached /\ mode' = mode /\ dups' = dups
        /\ net' = net \cup {[pkt |-> sent, copy |-> 0]}
    BY <1>4 DEF Send
  <2>2. ~Played(sent)
    BY <1>1 DEF StaleInv, Played, TypeOK
  <2>3. \A d \in net' : d \in net \/ ~Played(d.pkt)
    BY <2>1, <2>2
  <2> QED BY <1>2, <2>1, <2>3, NothingPlayed, StaysExhausted
<1>5. ASSUME NEW d \in net, Lose(d) PROVE TurnInv'
  BY <1>2, <1>3, <1>5 DEF Lose
<1>6. ASSUME NEW d \in net, Duplicate(d) PROVE TurnInv'
  BY <1>2, <1>6, ConstantsAssumption DEF Duplicate, Exhausted, TypeOK
<1>7. ASSUME NEW d \in net, Deliver(d) PROVE TurnInv'
  <2>1. Younger(d.pkt) /\ HandOver(d) /\ d \in Datagrams /\ mode' = "drain"
    BY <1>1, <1>7, ArrivalIsYounger DEF Deliver, TypeOK
  <2> QED BY <2>1, YoungerBecomesYoungest DEF TurnInv
<1>8. ASSUME NEW d \in net, CachePacket(d) \/ Abandon(d) PROVE TurnInv'
  <2>1. /\ delivered' = delivered /\ dups' = dups /\ net' \subseteq net
        /\ mode = "idle" /\ mode' = "idle"
    BY <1>8 DEF CachePacket, Abandon, Arrive
  <2> QED BY <1>1, <1>3, <2>1, NothingPlayed DEF TurnInv
<1>9. ASSUME NEW d \in net, Flush(d) PROVE TurnInv'
  <2>1. /\ delivered' = delivered /\ dups' = dups /\ net' \subseteq net /\ cached' = cached
        /\ mode' = "flush" /\ Cardinality(cached) >= MaxCached
    BY <1>9 DEF Flush, Arrive
  <2>2. CASE \E e \in cached : Younger(e.pkt)
    BY <2>1, <2>2, NothingPlayed DEF TurnInv
  <2>3. CASE \A e \in cached : ~Younger(e.pkt)
    <3>1. \A e \in cached : Played(e.pkt)
      BY <1>1, <2>3 DEF StaleInv
    <3>2. Exhausted
      BY <1>1, <2>1, <3>1, StaleCacheExhausts
    <3> QED BY <1>3, <2>1, <3>1, <3>2, NothingPlayed DEF TurnInv
  <2> QED BY <2>2, <2>3
<1>10. ASSUME NEW d \in Tops, Pop(d) PROVE TurnInv'
  <2>1. /\ HandOver(d) /\ d \in Datagrams /\ d \in cached /\ cached' = cached \ {d}
        /\ mode' = mode /\ mode # "idle" /\ net' = net /\ dups' = dups
        /\ \A e \in cached : d.pkt <= e.pkt
    BY <1>10, TopIsOldest DEF Pop, Tops, TypeOK
  <2>2. d.pkt \in Nat /\ \A e \in cached : e.pkt \in Nat
    BY <2>1 DEF TypeOK, Datagrams, Packets
  <2>3. CASE mode # "flush"
    BY <1>1, <1>10, <2>1, <2>3, DrainedIsYounger, YoungerBecomesYoungest DEF TurnInv
  <2>4. CASE mode = "flush" /\ Younger(d.pkt)
    <3>1. LastIsYoungest' /\ LastPlayed' = d.pkt
      BY <2>1, <2>4, YoungerBecomesYoungest, HandOverPlays
    <3>2. CASE \A e \in cached' : e.pkt = d.pkt
      BY <2>1, <2>4, <3>1, <3>2 DEF TurnInv
    <3>3. CASE \E e \in cached' : e.pkt # d.pkt
      <4>1. PICK e \in cached' : d.pkt < e.pkt
        BY <2>1, <2>2, <3>3
      <4>2. Younger(e.pkt)
        BY <2>1, <2>2, <2>4, <4>1, PlayedIsNotYounger
      <4>3. Younger(e.pkt)'
        BY <2>1, <4>1, <4>2, HandOverPlays
      <4> QED BY <2>1, <2>4, <4>3 DEF TurnInv
    <3> QED BY <3>2, <3>3
  <2>5. CASE mode = "flush" /\ ~Younger(d.pkt)
    <3>1. Played(d.pkt)
      BY <1>1, <2>1, <2>5 DEF StaleInv
    <3>2. \A p \in Nat : (Played(p)' <=> Played(p)) /\ (Younger(p)' <=> Younger(p))
      BY <2>1, <3>1, StalePlaysNothingNew
    <3>3. CASE \E e \in cached : Younger(e.pkt)
      <4>1. PICK e \in cached' : Younger(e.pkt)
        BY <2>1, <2>5, <3>3
      <4>2. Younger(e.pkt)'
        BY <2>1, <2>2, <3>2, <4>1
      <4> QED BY <2>1, <2>5, <4>2 DEF TurnInv
    <3>4. CASE Exhausted /\ \A e \in cached : Played(e.pkt)
      <4>1. Exhausted'
        <5>1. \A e \in net' : e.pkt \in Nat
          BY DEF TypeOK, Datagrams, Packets
        <5> QED BY <2>1, <3>2, <3>4, <5>1, StaysExhausted
      <4>2. \A e \in cached' : Played(e.pkt)'
        BY <2>1, <2>2, <3>2, <3>4
      <4> QED BY <2>1, <2>5, <4>1, <4>2 DEF TurnInv
    <3>5. CASE LastIsYoungest /\ \A e \in cached : e.pkt = LastPlayed
      <4>1. LastPlayed' = LastPlayed /\ \A e \in cached' : e.pkt = LastPlayed'
        BY <2>1, <3>5, HandOverPlays
      <4>2. LastIsYoungest'
        <5>1. \A i \in DOMAIN delivered' : delivered'[i] = LastPlayed \/ Played(delivered'[i])
          BY <2>1, <3>5, HandOverPlays
        <5>2. \A p : Played(p) => p <= LastPlayed
          BY <3>5 DEF Played, LastIsYoungest
        <5>3. LastPlayed \in Nat
          BY <2>1, <2>2, <3>5
        <5> QED BY <4>1, <5>1, <5>2, <5>3 DEF LastIsYoungest
      <4> QED BY <2>1, <2>5, <4>1, <4>2 DEF TurnInv
    <3> QED BY <1>1, <2>5, <3>3, <3>4, <3>5 DEF TurnInv
  <2> QED BY <2>3, <2>4, <2>5
<1>11. CASE LoopEnds
  <2>1. /\ delivered' = delivered /\ dups' = dups /\ net' = net /\ cached' = cached
        /\ mode' = "idle" /\ mode # "idle" /\ \A d \in Tops : ~Poppable(d)
    BY <1>11 DEF LoopEnds
  <2>2. CASE mode = "flush"
    <3>1. cached = {}
      BY <2>1, <2>2, TopExists DEF Poppable
    <3> QED BY <1>1, <1>3, <2>1, <2>2, <3>1, NothingPlayed DEF TurnInv
  <2>3. CASE mode = "drain"
    BY <1>1, <2>1, <2>3, NothingPlayed DEF TurnInv
  <2> QED BY <2>1, <2>2, <2>3 DEF TypeOK
<1>12. CASE RecvError \/ UNCHANGED vars
  BY <1>2, <1>3, <1>12 DEF RecvError, vars
<1> QED
  BY <1>4, <1>5, <1>6, <1>7, <1>8, <1>9, <1>10, <1>11, <1>12
  DEF Next, DataHandler, ProcessCachedPacket

(* What is played on arrival is the first packet of the session or younger than
   every packet played before, however UDP loses, reorders and duplicates, as
   long as it makes no more duplicates than the cache has places: one more can
   bring back a packet that a flush of stale packets made the expected one. *)
THEOREM OnArrivalOnlyTheNext ==
  ASSUME NoWrap, MaxDups <= MaxCached
  PROVE  Spec => PlaysOnArrivalOnlyTheNext
<1>1. Init => ArrivalInv
  <2> SUFFICES ASSUME Init PROVE ArrivalInv
    OBVIOUS
  <2>1. dups = 0 /\ net = {} /\ cached = {} /\ delivered = <<>> /\ mode = "idle"
    BY DEF Init
  <2>2. CopiesKnown
    <3>1. [c \in 1..dups |-> 0] \in [1..dups -> Packets]
      BY <2>1
    <3>2. net \cup cached = {}
      BY <2>1
    <3> QED BY <3>1, <3>2, Zenon DEF CopiesKnown
  <2>3. StaleInv /\ TurnInv
    BY <2>1 DEF StaleInv, TurnInv, LastIsYoungest
  <2> QED BY <2>2, <2>3 DEF ArrivalInv
<1>2. TypeOK /\ TypeOK' /\ PlayoutInv /\ ArrivalInv /\ [Next]_vars => ArrivalInv'
  <2> SUFFICES ASSUME TypeOK, TypeOK', WaitInv, ArrivalInv, [Next]_vars PROVE ArrivalInv'
    BY DEF PlayoutInv
  <2>1. CopiesKnown'
    BY CopiesKnownInductive DEF ArrivalInv, WaitInv
  <2>2. StaleInv'
    BY StaleInvInductive DEF ArrivalInv
  <2>3. TurnInv'
    BY TurnInvInductive
  <2> QED BY <2>1, <2>2, <2>3 DEF ArrivalInv
<1>3. TypeOK /\ PlayoutInv /\ ArrivalInv /\ [Next]_vars
        => [\A d \in net : Deliver(d) => Younger(d.pkt)]_vars
  BY ArrivalIsYounger DEF PlayoutInv, ArrivalInv
<1> QED
  BY <1>1, <1>2, <1>3, OrderInvariant, TypeCorrect, PTL DEF Spec, PlaysOnArrivalOnlyTheNext

-----------------------------------------------------------------------------
(***************************************************************************)
(* A stream that wraps.                                                    *)
(*                                                                         *)
(* All that is proved above ends with the sequence numbers.  On a network  *)
(* that keeps the order, loses and duplicates nothing, the stream goes on  *)
(* over any number of wraps: although the expected number 0 also means     *)
(* that nothing has been received yet, the packet that comes next has that *)
(* number, so that either reading is right.                                *)
(***************************************************************************)

(* A remainder is determined by its division. *)
LEMMA ModUnique ==
  ASSUME NEW m \in Nat \ {0}, NEW q \in Int, NEW r \in 0..(m - 1), NEW x \in Int, x = m * q + r
  PROVE  x % m = r
OBVIOUS

(* The number after that of x is that of x + 1, over a wrap too. *)
LEMMA ModSucc ==
  ASSUME NEW m \in Nat \ {0}, NEW x \in Nat
  PROVE  ((x % m) + 1) % m = (x + 1) % m
<1> DEFINE q == x \div m
           r == x % m
<1>1. q \in Nat /\ r \in 0..(m - 1) /\ x = m * q + r
  OBVIOUS
<1> HIDE DEF q, r
<1>2. CASE r + 1 = m
  <2>1. x + 1 = m * (q + 1) + 0 /\ 0 \in 0..(m - 1) /\ q + 1 \in Int
    BY <1>1, <1>2
  <2>2. (x + 1) % m = 0
    BY <1>1, <2>1, ModUnique
  <2>3. (r + 1) % m = 0
    BY <1>1, <1>2
  <2> QED BY <2>2, <2>3 DEF r
<1>3. CASE r + 1 # m
  <2>1. x + 1 = m * q + (r + 1) /\ r + 1 \in 0..(m - 1)
    BY <1>1, <1>3
  <2>2. (x + 1) % m = r + 1
    BY <1>1, <2>1, ModUnique
  <2>3. (r + 1) % m = r + 1
    BY <1>1, <2>1
  <2> QED BY <2>2, <2>3 DEF r
<1> QED BY <1>2, <1>3

(* A packet is emitted when the one before has arrived, and each arrives once. *)
InSequence == Window = 1 /\ MaxLosses = 0 /\ MaxDups = 0

(* Every packet that is not on its way has been played, in its place. *)
AllPlayed ==
  /\ Len(delivered) \in {sent, sent - 1}
  /\ \A d \in net : d.pkt = sent - 1 /\ Len(delivered) = sent - 1
  /\ net = {} => Len(delivered) = sent
  /\ \A i \in 1..Len(delivered) : delivered[i] = i - 1

InSequenceInv ==
  /\ AllPlayed
  /\ expected = IF delivered = <<>> THEN 0 ELSE (FirstSeq + Len(delivered)) % SeqMod
  /\ cached = {}
  /\ waiting = 0
  /\ mode # "flush"

(* The packet that arrives is the one awaited. *)
LEMMA InSequenceAwaited ==
  ASSUME TypeOK, InSequenceInv, NEW d \in net
  PROVE  SeqOf(d) = Awaited(d) /\ d.pkt = Len(delivered) /\ Len(delivered) = sent - 1
<1>1. d.pkt = Len(delivered) /\ Len(delivered) = sent - 1
  BY DEF InSequenceInv, AllPlayed
<1> QED BY <1>1 DEF InSequenceInv, Awaited, SeqOf

(* It is played at once. *)
LEMMA InSequenceArrival ==
  ASSUME InSequence, TypeOK, InSequenceInv, NEW d \in net, DataHandler(d)
  PROVE  InSequenceInv'
<1>1. SeqOf(d) = Awaited(d) /\ d.pkt = Len(delivered) /\ Len(delivered) = sent - 1
  BY InSequenceAwaited
<1>2. Deliver(d)
  <2>1. Awaited(d) \in Int
    BY <1>1, SeqOfType DEF TypeOK
  <2>2. ~(SeqOf(d) > Awaited(d)) /\ ~(SeqOf(d) < Awaited(d))
    BY <1>1, <2>1
  <2> QED BY <2>2 DEF DataHandler, CachePacket, Flush, Abandon
<1>3. /\ net' = net \ {d} /\ sent' = sent /\ cached' = {} /\ mode' = "drain" /\ waiting' = 0
      /\ delivered' = Append(delivered, d.pkt) /\ expected' = Succ(SeqOf(d))
  BY <1>2 DEF Deliver, Arrive, HandOver, InSequenceInv
<1>4. delivered \in Seq(Packets) /\ d.pkt \in Packets /\ sent \in Nat
  BY ConstantsAssumption DEF TypeOK, Datagrams
<1>5. net' = {}
  <2>1. \A e \in net : e = d
    <3>1. \A e \in net : e.pkt = d.pkt /\ e.copy = 0 /\ d.copy = 0 /\ e \in Datagrams /\ d \in Datagrams
      BY DEF InSequenceInv, AllPlayed, TypeOK, Datagrams, InSequence
    <3> QED BY <3>1 DEF Datagrams
  <2> QED BY <1>3, <2>1
<1>6. /\ Len(delivered') = sent /\ delivered' # <<>>
      /\ \A i \in 1..Len(delivered') : delivered'[i] = i - 1
  BY <1>1, <1>3, <1>4 DEF InSequenceInv, AllPlayed
<1>7. expected' = (FirstSeq + Len(delivered')) % SeqMod
  <2>1. Len(delivered) \in Nat /\ FirstSeq + Len(delivered) \in Nat
    BY <1>4, ConstantsAssumption
  <2>2. expected' = (((FirstSeq + Len(delivered)) % SeqMod) + 1) % SeqMod
    BY <1>1, <1>3 DEF SeqOf, Succ
  <2>3. Len(delivered') = Len(delivered) + 1
    BY <1>1, <1>4, <1>6
  <2>4. FirstSeq + Len(delivered') = (FirstSeq + Len(delivered)) + 1
    BY <2>1, <2>3, ConstantsAssumption
  <2> QED BY <2>1, <2>2, <2>4, ModSucc, ConstantsAssumption
<1> QED BY <1>3, <1>4, <1>5, <1>6, <1>7 DEF InSequenceInv, AllPlayed

(* Every step keeps to it. *)
LEMMA InSequenceInductive ==
  ASSUME InSequence
  PROVE  TypeOK /\ InSequenceInv /\ [Next]_vars => InSequenceInv'
<1> SUFFICES ASSUME TypeOK, InSequenceInv, [Next]_vars PROVE InSequenceInv'
  OBVIOUS
<1>1. CASE Send
  <2>1. net = {}
    BY <1>1, ConstantsAssumption DEF Send, InSequence, InSequenceInv, AllPlayed, TypeOK
  <2>2. /\ net' = {[pkt |-> sent, copy |-> 0]} /\ sent' = sent + 1
        /\ UNCHANGED recvVars
    BY <1>1, <2>1 DEF Send
  <2>3. Len(delivered) = sent /\ sent \in Nat /\ UNCHANGED delivered
    BY <2>1, <2>2, ConstantsAssumption DEF InSequenceInv, AllPlayed, TypeOK, recvVars
  <2>4. net' # {} /\ \A d \in net' : d.pkt = sent' - 1
    BY <2>2, <2>3
  <2>5. Len(delivered') = sent' - 1
    BY <2>2, <2>3
  <2>6. AllPlayed'
    BY <2>3, <2>4, <2>5 DEF InSequenceInv, AllPlayed
  <2> QED BY <2>2, <2>6 DEF InSequenceInv, recvVars
<1>2. ASSUME NEW d \in net, Lose(d) \/ Duplicate(d) PROVE FALSE
  BY <1>2, ConstantsAssumption DEF Lose, Duplicate, InSequence, TypeOK
<1>3. ASSUME NEW d \in net, DataHandler(d) PROVE InSequenceInv'
  BY <1>3, InSequenceArrival
<1>4. ASSUME NEW d \in Tops, Pop(d) PROVE FALSE
  BY <1>4 DEF Tops, InSequenceInv
<1>5. CASE LoopEnds
  BY <1>5 DEF LoopEnds, InSequenceInv, AllPlayed, netVars
<1>6. CASE RecvError
  BY <1>6 DEF RecvError, InSequenceInv, AllPlayed, netVars
<1>7. CASE UNCHANGED vars
  BY <1>7 DEF vars, netVars, recvVars, InSequenceInv, AllPlayed
<1> QED BY <1>1, <1>2, <1>3, <1>4, <1>5, <1>6, <1>7 DEF Next, ProcessCachedPacket

(* On a network that keeps the order and neither loses nor duplicates, every
   packet that has arrived is played, in its place, over any number of wraps of
   the sequence numbers, nothing is skipped and nothing waits. *)
THEOREM WrapIsSeamless ==
  ASSUME InSequence
  PROVE  Spec => [](AllPlayed /\ NoGaps /\ WaitIsBounded)
<1>1. Init => InSequenceInv
  BY DEF Init, InSequenceInv, AllPlayed
<1>2. TypeOK /\ InSequenceInv => AllPlayed /\ NoGaps /\ WaitIsBounded
  <2> SUFFICES ASSUME TypeOK, InSequenceInv PROVE AllPlayed /\ NoGaps /\ WaitIsBounded
    OBVIOUS
  <2>1. delivered \in Seq(Packets) /\ Len(delivered) \in Nat
    BY DEF TypeOK
  <2>2. NoGaps
    BY <2>1 DEF InSequenceInv, AllPlayed, NoGaps
  <2> QED BY <2>2, ConstantsAssumption DEF InSequenceInv, WaitIsBounded
<1> QED BY <1>1, <1>2, TypeCorrect, InSequenceInductive, PTL DEF Spec
=============================================================================
