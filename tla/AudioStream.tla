---------------------------- MODULE AudioStream -----------------------------
(***************************************************************************)
(* The audio data path of a mirroring session:                             *)
(* ap_mirroring_audio_stream_service receives RTP packets over UDP, and    *)
(* reorders them with a small priority queue before it hands them to the   *)
(* application (on_audio_stream_data).                                     *)
(*                                                                         *)
(* A packet is its index in the sender's stream, 0, 1, 2, ...; what the    *)
(* receiver sees of it is only its 16-bit RTP sequence number.  Payloads,  *)
(* decryption and logging are abstracted.  Only the data thread runs       *)
(* data_handler: one arrival is one step up to the loop of                 *)
(* process_cached_packet, and each iteration of that loop, which calls the *)
(* application, is one step; no datagram is received before the loop ends. *)
(* Datagrams that are too short or of another payload type return early    *)
(* and change nothing (stuttering steps).                                  *)
(***************************************************************************)
EXTENDS Integers, Sequences, FiniteSets

CONSTANTS
  SeqMod,        \* number of RTP sequence numbers (2^16 in the code)
  MaxCached,     \* MAX_CACHED_PACKET_SIZE
  FirstSeq,      \* sequence number the sender starts with
  NumPackets,    \* bound: packets the sender emits
  Window,        \* bound: the sender is less than Window packets ahead of the
                 \* oldest packet still in the network
  MaxLosses,     \* bound: packets the network may lose
  MaxDups,       \* bound: packets the network may duplicate
  SocketMayFail  \* may a receive complete with an error?

ASSUME ConstantsAssumption ==
  /\ SeqMod \in Nat \ {0}
  /\ MaxCached \in Nat \ {0}
  /\ FirstSeq \in 0..(SeqMod - 1)
  /\ NumPackets \in Nat
  /\ Window \in Nat \ {0}
  /\ MaxLosses \in Nat
  /\ MaxDups \in Nat
  /\ SocketMayFail \in BOOLEAN

VARIABLES
  sent,       \* packets emitted by the sender
  net,        \* datagrams in flight
  losses,     \* datagrams lost so far
  dups,       \* datagrams duplicated so far
  crowded,    \* more than MaxCached younger packets have arrived before some
              \* packet that was still in flight (history variable)
  receiving,  \* a receive is posted on the data socket
  mode,       \* where the data thread is: "idle" (waiting for a datagram), or
              \* in process_cached_packet, "drain"ing or "flush"ing the cache
  expected,   \* expected_seq_
  cached,     \* cached_queue_
  delivered,  \* packets handed to on_audio_stream_data, in order
  waiting     \* packets, younger than every delivered one, that arrived
              \* since the last delivery (history variable)

netVars  == <<sent, net, losses, dups, crowded>>
recvVars == <<receiving, mode, expected, cached, delivered, waiting>>
vars     == <<netVars, recvVars>>

Packets   == 0..(NumPackets - 1)
Datagrams == [pkt : Packets, copy : 0..MaxDups]
SeqOf(d)  == (FirstSeq + d.pkt) % SeqMod

(* expected_seq_ is a uint16_t: x + 1 wraps. *)
Succ(x) == (x + 1) % SeqMod

Init ==
  /\ sent = 0
  /\ net = {}
  /\ losses = 0
  /\ dups = 0
  /\ crowded = FALSE
  /\ receiving = TRUE
  /\ mode = "idle"
  /\ expected = 0
  /\ cached = {}
  /\ delivered = <<>>
  /\ waiting = 0

-----------------------------------------------------------------------------
(* The sender and the UDP network. *)

Send ==
  /\ sent < NumPackets
  /\ \A d \in net : sent - d.pkt < Window
  /\ net' = net \cup {[pkt |-> sent, copy |-> 0]}
  /\ sent' = sent + 1
  /\ UNCHANGED <<losses, dups, crowded, recvVars>>

Lose(d) ==
  /\ losses < MaxLosses
  /\ net' = net \ {d}
  /\ losses' = losses + 1
  /\ UNCHANGED <<sent, dups, crowded, recvVars>>

Duplicate(d) ==
  /\ dups < MaxDups
  /\ net' = net \cup {[pkt |-> d.pkt, copy |-> dups + 1]}
  /\ dups' = dups + 1
  /\ UNCHANGED <<sent, losses, crowded, recvVars>>

-----------------------------------------------------------------------------
(* data_handler. *)

(* Wrong: every packet is taken as the expected one. *)
AwaitedAlways(d) == SeqOf(d)

(* The receiver takes the first packet of its life as the expected one.  The
   code recognises that moment by expected_seq_ = 0. *)
Awaited(d) == IF expected = 0 THEN SeqOf(d) ELSE expected

Younger(p) == \A i \in DOMAIN delivered : delivered[i] < p

StillWaiting(d) == waiting' = IF Younger(d.pkt) THEN waiting + 1 ELSE waiting

(* audio_data_packet, and the assignment of expected_seq_ that follows it. *)
HandOver(d) ==
  /\ delivered' = Append(delivered, d.pkt)
  /\ expected' = Succ(SeqOf(d))
  /\ waiting' = 0

(* The packets younger than d's that have arrived, or are lost, when only the
   datagrams in others are still in flight. *)
Overtakers(d, others) ==
  {p \in (d.pkt + 1)..(sent - 1) : \A e \in others : e.pkt # p}

Arrive(d) ==
  /\ receiving
  /\ mode = "idle"
  /\ net' = net \ {d}
  /\ crowded' = (crowded \/ \E e \in net' : Cardinality(Overtakers(e, net')) > MaxCached)
  /\ UNCHANGED <<sent, losses, dups, receiving>>

(* Wrong: process_cached_packet is forgotten. *)
DeliverOnly(d) ==
  /\ Arrive(d)
  /\ SeqOf(d) = Awaited(d)
  /\ HandOver(d)
  /\ UNCHANGED <<mode, cached>>

Deliver(d) ==
  /\ Arrive(d)
  /\ SeqOf(d) = Awaited(d)
  /\ HandOver(d)
  /\ mode' = "drain"
  /\ UNCHANGED cached

(* Wrong: <= MAX_CACHED_PACKET_SIZE. *)
CacheOneMore(d) ==
  /\ Arrive(d)
  /\ SeqOf(d) > Awaited(d)
  /\ Cardinality(cached) <= MaxCached
  /\ cached' = cached \cup {d}
  /\ StillWaiting(d)
  /\ UNCHANGED <<mode, expected, delivered>>

CachePacket(d) ==
  /\ Arrive(d)
  /\ SeqOf(d) > Awaited(d)
  /\ Cardinality(cached) < MaxCached
  /\ cached' = cached \cup {d}
  /\ StillWaiting(d)
  /\ UNCHANGED <<mode, expected, delivered>>

(* Wrong: the cache is flushed with room for one packet left. *)
FlushEarly(d) ==
  /\ Arrive(d)
  /\ SeqOf(d) > Awaited(d)
  /\ Cardinality(cached) + 1 >= MaxCached
  /\ mode' = "flush"
  /\ waiting' = 0
  /\ UNCHANGED <<expected, cached, delivered>>

(* The cache is full: process_cached_packet(true) hands over all of it.  The
   packet that triggers the flush is neither delivered nor cached. *)
Flush(d) ==
  /\ Arrive(d)
  /\ SeqOf(d) > Awaited(d)
  /\ Cardinality(cached) >= MaxCached
  /\ mode' = "flush"
  /\ waiting' = 0
  /\ UNCHANGED <<expected, cached, delivered>>

Abandon(d) ==
  /\ Arrive(d)
  /\ SeqOf(d) < Awaited(d)
  /\ StillWaiting(d)
  /\ UNCHANGED <<mode, expected, cached, delivered>>

DataHandler(d) == Deliver(d) \/ CachePacket(d) \/ Flush(d) \/ Abandon(d)

(* Wrong: the comparison of the priority queue is inverted. *)
TopsInverted == {d \in cached : \A e \in cached : SeqOf(d) >= SeqOf(e)}

(* The packets the priority queue may pop: those with the smallest sequence
   number, equal ones in either order. *)
Tops == {d \in cached : \A e \in cached : SeqOf(d) <= SeqOf(e)}

Poppable(d) == mode = "flush" \/ SeqOf(d) = expected

(* One iteration of process_cached_packet. *)
Pop(d) ==
  /\ mode # "idle"
  /\ Poppable(d)
  /\ cached' = cached \ {d}
  /\ HandOver(d)
  /\ UNCHANGED <<netVars, receiving, mode>>

LoopEnds ==
  /\ mode # "idle"
  /\ \A d \in Tops : ~Poppable(d)
  /\ mode' = "idle"
  /\ UNCHANGED <<netVars, receiving, expected, cached, delivered, waiting>>

ProcessCachedPacket == (\E d \in Tops : Pop(d)) \/ LoopEnds

(* on_recv_from posts the next receive only after a receive without error. *)
RecvError ==
  /\ SocketMayFail
  /\ receiving
  /\ mode = "idle"
  /\ receiving' = FALSE
  /\ UNCHANGED <<netVars, mode, expected, cached, delivered, waiting>>

-----------------------------------------------------------------------------
Next ==
  \/ Send
  \/ \E d \in net : Lose(d) \/ Duplicate(d) \/ DataHandler(d)
  \/ ProcessCachedPacket
  \/ RecvError

Spec == Init /\ [][Next]_vars

(* The sender keeps emitting, what the network does not lose arrives, and the
   data thread runs. *)
FairSpec ==
  /\ Spec
  /\ WF_vars(Send)
  /\ \A d \in Datagrams : WF_vars(d \in net /\ DataHandler(d))
  /\ WF_vars(ProcessCachedPacket)

-----------------------------------------------------------------------------
(* Assumptions about the network under which properties are stated. *)

(* The stream ends before its sequence numbers wrap to 0. *)
NoWrap == FirstSeq + NumPackets < SeqMod

(* UDP has delivered each packet at most once. *)
NoDups == dups = 0

-----------------------------------------------------------------------------
(* The types of the variables, and the bound on the cache. *)
TypeOK ==
  /\ sent \in 0..NumPackets
  /\ net \subseteq Datagrams
  /\ losses \in 0..MaxLosses
  /\ dups \in 0..MaxDups
  /\ crowded \in BOOLEAN
  /\ receiving \in BOOLEAN
  /\ mode \in {"idle", "drain", "flush"}
  /\ expected \in 0..(SeqMod - 1)
  /\ cached \subseteq Datagrams
  /\ IsFiniteSet(cached)
  /\ Cardinality(cached) <= MaxCached
  /\ delivered \in Seq(Packets)
  /\ waiting \in Nat

(* The application gets packets in the order the sender emitted them, each at
   most once, however UDP reorders them and whatever a flush skips, as long as
   UDP does not duplicate. *)
PlayedInOrder ==
  NoDups => \A i, j \in DOMAIN delivered : i < j => delivered[i] < delivered[j]

(* "have been waiting for too long time, flush": the receiver never lets more
   than MAX_CACHED_PACKET_SIZE younger packets arrive without delivering
   anything. *)
WaitIsBounded == waiting <= MaxCached

(* As long as the network loses and duplicates nothing and reorders no more
   than the cache can hold, nothing is skipped between the first delivered
   packet and the last. *)
NoGaps ==
  losses + dups = 0 /\ ~crowded =>
    \A i \in 1..(Len(delivered) - 1) : delivered[i + 1] = delivered[i] + 1

(* A packet that is played on arrival ("If the new packet is next expected
   one just process it") is the first one of the session, or younger than
   every packet played before. *)
PlaysOnArrivalOnlyTheNext ==
  [][\A d \in net : Deliver(d) => Younger(d.pkt)]_vars

(* expected_seq_ only moves forward along the stream: as long as nothing is
   duplicated, no step of the receiver makes it expect again a number that it
   has already passed. *)
ExpectedMovesForward == [][NoDups => expected' >= expected]_vars

(* Unless the network loses or duplicates a datagram or reorders more than the
   cache holds, or a receive fails, the application eventually gets the last
   packet of the stream. *)
StreamIsPlayed ==
  <>(\/ losses + dups > 0 \/ crowded \/ ~receiving
     \/ \E i \in DOMAIN delivered : delivered[i] = NumPackets - 1)

(* The receiver implements the in-order playout the application relies on. *)
Playout == INSTANCE AudioPlayout WITH played <- delivered, copies <- dups
PlayoutSpec == Playout!Spec
=============================================================================
