---------------------------- MODULE AudioPlayout ----------------------------
(***************************************************************************)
(* What an application that implements on_audio_stream_data may rely on,   *)
(* whatever the receiver does to get there: an AirPlay sender numbers its  *)
(* audio packets 0, 1, 2, ... in the order it emits them, and the packets  *)
(* that the application is handed are a subsequence of the emitted ones,   *)
(* in the order of emission.  Packets may be skipped (UDP loses them, and  *)
(* the receiver gives up on late ones); none is repeated and none is       *)
(* played after a younger one, until UDP duplicates a datagram: from then  *)
(* on only packets that were emitted are promised.  AudioStream implements *)
(* this specification.                                                     *)
(***************************************************************************)
EXTENDS Integers, Sequences

VARIABLES
  sent,     \* number of packets emitted so far; the next one has this index
  copies,   \* number of datagrams that UDP has duplicated
  played    \* the packets handed to the application, in that order

vars == <<sent, copies, played>>

Init ==
  /\ sent = 0
  /\ copies = 0
  /\ played = <<>>

Emit ==
  /\ sent' = sent + 1
  /\ UNCHANGED <<copies, played>>

Copy ==
  /\ copies' = copies + 1
  /\ UNCHANGED <<sent, played>>

Play(p) ==
  /\ p < sent
  /\ copies = 0 => \A i \in DOMAIN played : played[i] < p
  /\ played' = Append(played, p)
  /\ UNCHANGED <<sent, copies>>

Next == Emit \/ Copy \/ \E p \in 0..(sent - 1) : Play(p)

Spec == Init /\ [][Next]_vars
=============================================================================
