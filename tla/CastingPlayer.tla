---------------------------- MODULE CastingPlayer ----------------------------
(***************************************************************************)
(* What an application that implements on_video_play may rely on when a    *)
(* sender casts a stream whose playlists only the sender can fetch.        *)
(*                                                                         *)
(* The media server of the SDK has a library of playlists.  A new playback *)
(* empties it.  It is filled with playlists of that playback, one after    *)
(* the other and each once, and the application is told to play when the   *)
(* last one is there: never before, and not later.  From then on the       *)
(* library does not change until the sender asks for something else or     *)
(* stops, so that a player may fetch the playlists in any order and as     *)
(* often as it likes.  This is promised until the sender answers too late  *)
(* or without the data.  CastingPlayback implements this specification.    *)
(***************************************************************************)
EXTENDS Naturals

CONSTANTS
  Senders,  \* senders, each with a session
  NumMedia  \* playlists that a primary playlist lists

VARIABLES
  plays,    \* playbacks asked for so far
  source,   \* the playback that the library is filled for, NoPlay if none
  asker,    \* the sender that has asked for it
  library,  \* the playlists that are served: path and playback of each
  told,     \* per sender, the playback that its session has been told to play
  spoiled   \* a sender has answered too late or without the data

vars == <<plays, source, asker, library, told, spoiled>>

NoPlay   == 0
NoSender == "none"

(* The paths of the primary playlist and of those that it lists. *)
Paths == 0..NumMedia

Init ==
  /\ plays = 0
  /\ source = NoPlay
  /\ asker = NoSender
  /\ library = {}
  /\ told = [c \in Senders |-> NoPlay]
  /\ spoiled = FALSE

(* A sender asks for a playback that the receiver has to fetch.  What was being
   played goes on until the new one can begin. *)
Ask(c) ==
  /\ plays' = plays + 1
  /\ source' = plays'
  /\ asker' = c
  /\ library' = {}
  /\ UNCHANGED told

Empty ==
  /\ source' = NoPlay
  /\ asker' = NoSender
  /\ library' = {}

(* A sender asks for something that the application fetches by itself. *)
AskElsewhere(c) ==
  /\ plays' = plays + 1
  /\ Empty
  /\ told' = [told EXCEPT ![c] = plays']

(* A playlist is fetched; with the last one on_video_play is called. *)
Fetch(p) ==
  /\ source # NoPlay
  /\ <<p, source>> \notin library
  /\ library' = library \cup {<<p, source>>}
  /\ told' = IF library' = Paths \X {source} THEN [told EXCEPT ![asker] = source] ELSE told
  /\ UNCHANGED <<plays, source, asker>>

(* on_video_stop. *)
Stop(c) ==
  /\ Empty
  /\ told' = [told EXCEPT ![c] = NoPlay]
  /\ UNCHANGED plays

(* The session ends. *)
End(c) ==
  /\ told' = [told EXCEPT ![c] = NoPlay]
  /\ UNCHANGED <<plays, source, asker, library>>

Promised ==
  \/ \E c \in Senders : Ask(c) \/ AskElsewhere(c) \/ Stop(c) \/ End(c)
  \/ \E p \in Paths : Fetch(p)

Next == spoiled' \/ (UNCHANGED spoiled /\ Promised)

Spec == Init /\ [][Next]_vars
=============================================================================
