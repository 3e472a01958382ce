--------------------------- MODULE MCMirroringKeys ---------------------------
(* The instances of MirroringKeys that TLC explores: keys and streams, and the
   timing service, with which they share only SETUP. *)
EXTENDS MirroringKeys

None == [ports |-> 1, queries |-> 0, pairings |-> 0, handshakes |-> 1, setups |-> 2,
         streams |-> 0, frames |-> 0, packets |-> 0]

MCInstances ==
  { [None EXCEPT !.pairings = 2, !.streams = 2, !.frames = 2, !.packets = 1],
    [None EXCEPT !.pairings = 1, !.handshakes = 2, !.streams = 1, !.frames = 2, !.packets = 2],
    [None EXCEPT !.ports = 2, !.queries = 3, !.setups = 3] }
=============================================================================
