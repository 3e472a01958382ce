----------------------------- MODULE TimingSync ------------------------------
(***************************************************************************)
(* ap_mirroring_timing_sync_service asks the sender for its clock.         *)
(*                                                                         *)
(* Two threads use the service.  The thread of ap_airplay_service sets the *)
(* endpoint of the sender's clock on SETUP and sends a query on RECORD;    *)
(* the service's own thread is told when the query has been sent, posts a  *)
(* receive, and is told when a reply has been received.  All of them share *)
(* one query packet, one reply packet and one remote_endpoint_: a receive  *)
(* writes the endpoint from which the datagram came into the very variable *)
(* that the next query is sent to.                                         *)
(***************************************************************************)
EXTENDS Naturals, Sequences

VARIABLES
  announced,  \* the timing port that the sender announced last, NoPort if none
  endpoint,   \* remote_endpoint_, as the timing port at the sender's address
  sending,    \* queries sent whose on_send_to has not run yet
  sentTo,     \* the queries so far, each as the port it was sent to (NoPort:
              \* it could not be sent)
  unanswered, \* queries that the sender has, or that are on their way to it
  replies,    \* queries whose replies are on their way
  receives,   \* receives posted and not completed
  ready,      \* receives completed whose on_recv_from has not run yet
  packet,     \* reply_packet_: "none", in "network" or in "host" byte order
  overlap,    \* two receives were outstanding at once (history variable)
  crossed,    \* a port was announced while a query or its reply was on its way
              \* (history variable)
  missent     \* a query went elsewhere than to the port announced last
              \* (history variable)

timingVars ==
  <<announced, endpoint, sending, sentTo, unanswered, replies, receives, ready,
    packet, overlap, crossed, missent>>

NoPort == 0

(* One per RECORD. *)
Queries == DOMAIN sentTo

TimingInit ==
  /\ announced = NoPort
  /\ endpoint = NoPort
  /\ sending = {}
  /\ sentTo = <<>>
  /\ unanswered = {}
  /\ replies = {}
  /\ receives = 0
  /\ ready = 0
  /\ packet = "none"
  /\ overlap = FALSE
  /\ crossed = FALSE
  /\ missent = FALSE

-----------------------------------------------------------------------------
(* On the thread of the AirPlay service. *)

(* Wrong: the first endpoint is kept. *)
SetServerEndpointOnce(p) ==
  /\ announced' = p
  /\ endpoint' = IF endpoint = NoPort THEN p ELSE endpoint
  /\ crossed' = (crossed \/ unanswered \cup replies # {})
  /\ UNCHANGED <<sending, sentTo, unanswered, replies, receives, ready, packet,
                 overlap, missent>>

SetServerEndpoint(p) ==
  /\ announced' = p
  /\ endpoint' = p
  /\ crossed' = (crossed \/ unanswered \cup replies # {})
  /\ UNCHANGED <<sending, sentTo, unanswered, replies, receives, ready, packet,
                 overlap, missent>>

(* asio tries to send at once; on_send_to follows on the service's thread.
   Sending to port 0, before any SETUP, fails. *)
PostSendQuery ==
  /\ sentTo' = Append(sentTo, endpoint)
  /\ sending' = sending \cup {Len(sentTo')}
  /\ unanswered' = IF endpoint = NoPort THEN unanswered ELSE unanswered \cup {Len(sentTo')}
  /\ missent' = (missent \/ endpoint # announced)
  /\ UNCHANGED <<announced, endpoint, replies, receives, ready, packet, overlap,
                 crossed>>

-----------------------------------------------------------------------------
(* The sender's clock and the network. *)

Reply(q) ==
  /\ q \in unanswered
  /\ unanswered' = unanswered \ {q}
  /\ replies' = replies \cup {q}
  /\ UNCHANGED <<announced, endpoint, sending, sentTo, receives, ready, packet,
                 overlap, crossed, missent>>

Lose(q) ==
  /\ q \in unanswered \cup replies
  /\ unanswered' = unanswered \ {q}
  /\ replies' = replies \ {q}
  /\ UNCHANGED <<announced, endpoint, sending, sentTo, receives, ready, packet,
                 overlap, crossed, missent>>

-----------------------------------------------------------------------------
(* On the service's own thread. *)

(* on_send_to posts a receive, unless the query could not be sent. *)
OnSendTo(q) ==
  /\ q \in sending
  /\ sending' = sending \ {q}
  /\ receives' = IF sentTo[q] = NoPort THEN receives ELSE receives + 1
  /\ overlap' = (overlap \/ (sentTo[q] # NoPort /\ receives + ready > 0))
  /\ UNCHANGED <<announced, endpoint, sentTo, unanswered, replies, ready, packet,
                 crossed, missent>>

(* A posted receive completes: the reply and where it came from are written to
   the packet and to remote_endpoint_. *)
Receive(q) ==
  /\ q \in replies
  /\ receives > 0
  /\ replies' = replies \ {q}
  /\ receives' = receives - 1
  /\ ready' = ready + 1
  /\ packet' = "network"
  /\ endpoint' = sentTo[q]
  /\ UNCHANGED <<announced, sending, sentTo, unanswered, overlap, crossed, missent>>

(* Wrong: no conversion. *)
OnRecvFromUnconverted ==
  /\ ready > 0
  /\ ready' = ready - 1
  /\ UNCHANGED <<announced, endpoint, sending, sentTo, unanswered, replies,
                 receives, packet, overlap, crossed, missent>>

(* on_recv_from converts the packet in place, whatever order it is in. *)
OnRecvFrom ==
  /\ ready > 0
  /\ ready' = ready - 1
  /\ packet' = IF packet = "network" THEN "host" ELSE "network"
  /\ UNCHANGED <<announced, endpoint, sending, sentTo, unanswered, replies,
                 receives, overlap, crossed, missent>>

TimingThread == (\E q \in Queries : OnSendTo(q) \/ Receive(q)) \/ OnRecvFrom

TimingNetwork == \E q \in Queries : Reply(q) \/ Lose(q)

-----------------------------------------------------------------------------
(* The types of the variables of the timing service. *)
TimingTypeOK ==
  /\ announced \in Nat
  /\ endpoint \in Nat
  /\ sending \subseteq Queries
  /\ sentTo \in Seq(Nat)
  /\ unanswered \subseteq Queries
  /\ replies \subseteq Queries
  /\ receives \in Nat
  /\ ready \in Nat
  /\ packet \in {"none", "network", "host"}
  /\ overlap \in BOOLEAN
  /\ crossed \in BOOLEAN
  /\ missent \in BOOLEAN

(* The query of a RECORD goes to the timing port of the SETUP before it, though
   the service's thread writes the same variable whenever a reply comes in,
   unless a SETUP crossed with a query or its reply. *)
QueriesReachTheSender == ~crossed => ~missent

(* Whoever looks at the reply packet finds it in the order of the host, as long
   as no two receives were outstanding at once on the one packet. *)
RepliesAreReadable == ~overlap /\ ready = 0 => packet # "network"
=============================================================================
