---------------------------- MODULE MirroringKeys ----------------------------
(***************************************************************************)
(* The control connection of a mirroring session as the place where keys   *)
(* are agreed upon: pairing, the FairPlay handshake, SETUP, RECORD and     *)
(* TEARDOWN, the ap_crypto object that they share with the threads of the  *)
(* streams, and the timing service that SETUP and RECORD use.              *)
(*                                                                         *)
(* Ciphers are symbolic.  A key is the list of what it was derived from,   *)
(* and what is encrypted with one can be read with the same key at the     *)
(* same position only.  The counter mode of the video stream and of        *)
(* pair-verify keeps a position that both ends must advance alike; the     *)
(* audio cipher starts anew with every packet.                             *)
(*                                                                         *)
(* The sender is at the other end of every exchange.  What it sends on the *)
(* control connection is handled, by the thread of ap_airplay_service,     *)
(* before it sends the next request; the streams have threads and          *)
(* connections of their own.  A stream's thread decrypts in two steps,     *)
(* between which the control thread may come in.                           *)
(***************************************************************************)
EXTENDS TimingSync, Sequences

CONSTANT
  Instances   \* the bounds of the instances to explore, each a record of Bounds

Bounds == [ports : Nat,      \* timing ports that the sender announces
           queries : Nat,    \* RECORD requests
           pairings : Nat,   \* first frames of pair-verify, each with a new curve key
           handshakes : Nat, \* FairPlay handshakes
           setups : Nat,     \* SETUP requests without streams, each with a new key
           streams : Nat,    \* SETUP requests of the video stream
           frames : Nat,     \* frames of a video stream
           packets : Nat]    \* audio packets on their way

ASSUME InstancesAssumption == Instances \subseteq Bounds

VARIABLES
  max,         \* the bounds of this behaviour
  (* The receiver. *)
  identity,    \* client_ed_public_key_ is the sender's
  curve,       \* client_curve_public_key_, as the pairing that it belongs to
  secret,      \* shared_secret_, likewise; NoPairing until init_pair_verify_aes
  verifyCtr,   \* pair_verify_aes_ctr_: its key and its position, in frames
  fpMessage,   \* fp_key_message_, as the handshake that it belongs to
  clientKey,   \* client_aes_key_: its blocks of 16 bytes
  clientIv,    \* client_aes_iv_, as the SETUP that it came with
  videoCtr,    \* mirror_stream_aes_ctr_: its key and its position, in frames
  hasService,  \* per stream, is there a service?
  decrypting,  \* per stream, what its thread is decrypting, Nothing if idle
  (* The sender. *)
  pairing,     \* pair-verify rounds begun
  frames,      \* second frames sent in this round
  handshakes,  \* FairPlay handshakes made
  setups,      \* SETUP requests without streams
  agreed,      \* the key that the sender derives its streams' keys from
  streams,     \* SETUP requests of the video stream
  senderCtr,   \* the sender's end of the video cipher
  wire,        \* per stream, what is on its way, in the order of emission
  (* History. *)
  rekeyed,     \* a SETUP changed a key that was in use: the session's a second
               \* time, or that of a video stream which was not torn down
  garbled,     \* a frame was decrypted with another key, or elsewhere in it
  refused,     \* a second frame was refused that the sender had not sent before
  raced        \* a cipher was changed while a thread was decrypting with it

pairVars   == <<identity, curve, secret, verifyCtr, pairing, frames>>
fpVars     == <<fpMessage, handshakes>>
keyVars    == <<clientKey, clientIv, setups, agreed>>
streamVars == <<videoCtr, hasService, decrypting, streams, senderCtr, wire>>
history    == <<rekeyed, garbled, refused, raced>>
vars == <<max, timingVars, pairVars, fpVars, keyVars, streamVars, history>>

Streams      == {"video", "audio"}
NoPairing    == 0
NoHandshake  == 0
NoSetup      == 0
Nothing      == [stream |-> 0, key |-> <<>>, iv |-> NoSetup, pos |-> 0]

(* fp_decrypt: what is got from the encrypted key of a SETUP with the key
   message of a handshake. *)
Raw(setup, handshake) == [from |-> "fairplay", setup |-> setup, with |-> handshake]

(* The first half of SHA-512 over the raw key and the shared secret. *)
Hashed(raw, pair) == [from |-> "sha512", setup |-> raw.setup, with |-> pair]

Zeros == [from |-> "zeros", setup |-> NoSetup, with |-> NoHandshake]

(* What video frames of SETUP number n are encrypted with: key and IV are
   hashes over the stream's connection id and all of client_aes_key_. *)
Cipher(n, key, position) == [stream |-> n, key |-> key, iv |-> NoSetup, pos |-> position]

(* What audio packets are encrypted with: the first block and the IV. *)
PacketCipher(key, iv) == [stream |-> 0, key |-> <<key[1]>>, iv |-> iv, pos |-> 0]

Init ==
  /\ max \in Instances
  /\ TimingInit
  /\ identity = FALSE
  /\ curve = NoPairing
  /\ secret = NoPairing
  /\ verifyCtr = [key |-> NoPairing, pos |-> 0]
  /\ fpMessage = NoHandshake
  /\ clientKey = <<Zeros>>
  /\ clientIv = NoSetup
  /\ videoCtr = Cipher(0, <<>>, 0)
  /\ hasService = [s \in Streams |-> FALSE]
  /\ decrypting = [s \in Streams |-> Nothing]
  /\ pairing = NoPairing
  /\ frames = 0
  /\ handshakes = NoHandshake
  /\ setups = NoSetup
  /\ agreed = <<Zeros>>
  /\ streams = 0
  /\ senderCtr = Cipher(0, <<>>, 0)
  /\ wire = [s \in Streams |-> <<>>]
  /\ rekeyed = FALSE
  /\ garbled = FALSE
  /\ refused = FALSE
  /\ raced = FALSE

Busy(s) == decrypting[s] # Nothing

-----------------------------------------------------------------------------
(* Pairing. *)

(* init_client_public_keys. *)
InitClientPublicKeys(n) == identity' = TRUE /\ curve' = n

(* POST /pair-setup brings the sender's identity only. *)
PairSetup ==
  /\ ~identity
  /\ InitClientPublicKeys(curve)
  /\ UNCHANGED <<timingVars, secret, verifyCtr, pairing, frames, fpVars, keyVars,
                 streamVars, history>>

(* Wrong: the position of the cipher is kept. *)
InitPairVerifyAesKeepingPosition(n) ==
  /\ secret' = n
  /\ verifyCtr' = [verifyCtr EXCEPT !.key = n, !.pos = @ + 1]

(* xcrypt_buffer advances the position, set_key_iv resets it. *)
XcryptBuffer(ctr) == [ctr EXCEPT !.pos = @ + 1]

(* init_pair_verify_aes sets key and position; sign_pair_signature encrypts one
   frame's signature with them. *)
InitPairVerifyAes(n) ==
  /\ secret' = n
  /\ verifyCtr' = XcryptBuffer([key |-> n, pos |-> 0])

(* POST /pair-verify with the first frame, which brings both public keys of the
   sender.  Keys are derived with the secret from now on, verified or not. *)
FirstFrame ==
  /\ pairing < max.pairings
  /\ pairing' = pairing + 1
  /\ frames' = 0
  /\ InitClientPublicKeys(pairing')
  /\ InitPairVerifyAes(pairing')
  /\ UNCHANGED <<timingVars, fpVars, keyVars, streamVars, history>>

(* verify_pair_signature, of a signature encrypted at a position. *)
Verified(n, position) ==
  identity /\ curve = n /\ verifyCtr = [key |-> n, pos |-> position]

(* POST /pair-verify with the second frame.  The sender encrypts it where its
   cipher stands, or sends once more the bytes of its first second frame. *)
SecondFrame(position) ==
  /\ pairing # NoPairing
  /\ frames < 2
  /\ frames' = frames + 1
  /\ verifyCtr' = XcryptBuffer(verifyCtr)
  /\ refused' = (refused \/ (position = frames' /\ ~Verified(pairing, position)))
  /\ UNCHANGED <<timingVars, identity, curve, secret, pairing, fpVars, keyVars, streamVars,
                 rekeyed, garbled, raced>>

(* fp_handshake keeps the key message. *)
FpHandshake(n) == fpMessage' = n

(* POST /fp-setup, phase 3.  (Phase 1 only answers.) *)
PostFpSetup ==
  /\ handshakes < max.handshakes
  /\ handshakes' = handshakes + 1
  /\ FpHandshake(handshakes')
  /\ UNCHANGED <<timingVars, pairVars, keyVars, streamVars, history>>

-----------------------------------------------------------------------------
(* SETUP, RECORD and TEARDOWN. *)

Derived(raw, pair) == IF pair = NoPairing THEN <<>> ELSE <<Hashed(raw, pair)>>

(* Wrong: the raw key is appended like the hash. *)
InitClientAesInfoAppending(n) ==
  LET raw == Raw(n, fpMessage) IN
  /\ clientIv' = n
  /\ clientKey' = clientKey \o <<raw>> \o Derived(raw, secret)

(* init_client_aes_info: the raw key takes the place of the first block, the
   hash is appended to what there is. *)
InitClientAesInfo(n) ==
  LET raw == Raw(n, fpMessage) IN
  /\ clientIv' = n
  /\ clientKey' = <<raw>> \o Tail(clientKey) \o Derived(raw, secret)

(* SETUP without streams.  Without timingPort it is refused, but only after the
   key has been set. *)
SetupSession ==
  /\ setups < max.setups
  /\ handshakes # NoHandshake
  /\ setups' = setups + 1
  /\ InitClientAesInfo(setups')
  /\ LET raw == Raw(setups', handshakes) IN agreed' = <<raw>> \o Derived(raw, pairing)
  /\ (\E p \in 1..max.ports : SetServerEndpoint(p)) \/ UNCHANGED timingVars
  /\ rekeyed' = (rekeyed \/ Len(agreed) > 1 \/ hasService["audio"])
  /\ raced' = (raced \/ Busy("audio"))
  /\ UNCHANGED <<pairVars, fpVars, streamVars, garbled, refused>>

(* SETUP of the video stream: init_video_stream_aes_ctr, then the service, if
   there is none. *)
SetupVideo ==
  /\ streams < max.streams
  /\ streams' = streams + 1
  /\ videoCtr' = Cipher(streams', clientKey, 0)
  /\ senderCtr' = Cipher(streams', agreed, 0)
  /\ hasService' = [hasService EXCEPT !["video"] = TRUE]
  /\ rekeyed' = (rekeyed \/ hasService["video"])
  /\ raced' = (raced \/ Busy("video"))
  /\ UNCHANGED <<timingVars, pairVars, fpVars, keyVars, decrypting, wire, garbled, refused>>

(* SETUP of the audio stream: init_audio_stream_aes_cbc is empty. *)
SetupAudio ==
  /\ hasService' = [hasService EXCEPT !["audio"] = TRUE]
  /\ UNCHANGED <<timingVars, pairVars, fpVars, keyVars, videoCtr, decrypting, streams,
                 senderCtr, wire, history>>

(* RECORD. *)
Record ==
  /\ Len(sentTo) < max.queries
  /\ PostSendQuery
  /\ UNCHANGED <<pairVars, fpVars, keyVars, streamVars, history>>

(* Wrong: the stream's thread is not joined. *)
TeardownUnjoined(s) ==
  /\ hasService[s]
  /\ hasService' = [hasService EXCEPT ![s] = FALSE]
  /\ wire' = [wire EXCEPT ![s] = <<>>]
  /\ UNCHANGED <<timingVars, pairVars, fpVars, keyVars, videoCtr, decrypting, streams,
                 senderCtr, history>>

(* TEARDOWN of a stream: the service is stopped, for which its thread must have
   finished what it does, and what had not been read goes with its socket. *)
Teardown(s) ==
  /\ hasService[s]
  /\ ~Busy(s)
  /\ hasService' = [hasService EXCEPT ![s] = FALSE]
  /\ wire' = [wire EXCEPT ![s] = <<>>]
  /\ UNCHANGED <<timingVars, pairVars, fpVars, keyVars, videoCtr, decrypting, streams,
                 senderCtr, history>>

-----------------------------------------------------------------------------
(* The streams. *)

EmitFrame ==
  /\ hasService["video"]
  /\ senderCtr.pos < max.frames
  /\ wire' = [wire EXCEPT !["video"] = Append(@, senderCtr)]
  /\ senderCtr' = [senderCtr EXCEPT !.pos = @ + 1]
  /\ UNCHANGED <<timingVars, pairVars, fpVars, keyVars, videoCtr, hasService, decrypting, streams,
                 history>>

(* A packet is nothing here but its cipher, so that their order matters not. *)
EmitPacket ==
  /\ hasService["audio"]
  /\ Len(wire["audio"]) < max.packets
  /\ wire' = [wire EXCEPT !["audio"] = Append(@, PacketCipher(agreed, setups))]
  /\ UNCHANGED <<timingVars, pairVars, fpVars, keyVars, videoCtr, hasService, decrypting, streams,
                 senderCtr, history>>

LosePacket ==
  /\ wire["audio"] # <<>>
  /\ wire' = [wire EXCEPT !["audio"] = Tail(@)]
  /\ UNCHANGED <<timingVars, pairVars, fpVars, keyVars, videoCtr, hasService, decrypting, streams,
                 senderCtr, history>>

BeginDecrypt(s) ==
  /\ hasService[s]
  /\ ~Busy(s)
  /\ wire[s] # <<>>
  /\ decrypting' = [decrypting EXCEPT ![s] = Head(wire[s])]
  /\ wire' = [wire EXCEPT ![s] = Tail(@)]
  /\ UNCHANGED <<timingVars, pairVars, fpVars, keyVars, videoCtr, hasService, streams, senderCtr,
                 history>>

(* decrypt_video_frame goes on where the last frame ended. *)
DecryptVideoFrame ==
  /\ Busy("video")
  /\ decrypting' = [decrypting EXCEPT !["video"] = Nothing]
  /\ garbled' = (garbled \/ decrypting["video"] # videoCtr)
  /\ videoCtr' = XcryptBuffer(videoCtr)
  /\ UNCHANGED <<timingVars, pairVars, fpVars, keyVars, hasService, streams, senderCtr, wire,
                 rekeyed, refused, raced>>

(* decrypt_audio_data sets key and IV anew for each packet. *)
DecryptAudioData ==
  /\ Busy("audio")
  /\ decrypting' = [decrypting EXCEPT !["audio"] = Nothing]
  /\ garbled' = (garbled \/ decrypting["audio"] # PacketCipher(clientKey, clientIv))
  /\ UNCHANGED <<timingVars, pairVars, fpVars, keyVars, videoCtr, hasService, streams, senderCtr,
                 wire, rekeyed, refused, raced>>

-----------------------------------------------------------------------------
ControlThread ==
  \/ PairSetup \/ FirstFrame \/ \E p \in {1, frames + 1} : SecondFrame(p)
  \/ PostFpSetup
  \/ SetupSession \/ SetupVideo \/ SetupAudio
  \/ Record
  \/ \E s \in Streams : Teardown(s)

StreamThreads == (\E s \in Streams : BeginDecrypt(s)) \/ DecryptVideoFrame \/ DecryptAudioData

Timing ==
  /\ TimingThread \/ TimingNetwork
  /\ UNCHANGED <<pairVars, fpVars, keyVars, streamVars, history>>

Next ==
  /\ \/ ControlThread
     \/ StreamThreads
     \/ Timing
     \/ EmitFrame \/ EmitPacket \/ LosePacket
  /\ UNCHANGED max

Spec == Init /\ [][Next]_vars

-----------------------------------------------------------------------------
Blocks  == [from : {"fairplay", "sha512", "zeros"}, setup : Nat, with : Nat]
Ciphers == [stream : Nat, key : Seq(Blocks), iv : Nat, pos : Nat]

(* The types of the variables. *)
TypeOK ==
  /\ max \in Bounds
  /\ TimingTypeOK
  /\ identity \in BOOLEAN
  /\ curve \in Nat
  /\ secret \in Nat
  /\ verifyCtr \in [key : Nat, pos : Nat]
  /\ fpMessage \in Nat
  /\ clientKey \in Seq(Blocks) /\ clientKey # <<>>
  /\ clientIv \in Nat
  /\ videoCtr \in Ciphers
  /\ hasService \in [Streams -> BOOLEAN]
  /\ decrypting \in [Streams -> Ciphers]
  /\ pairing \in 0..max.pairings
  /\ frames \in 0..2
  /\ handshakes \in 0..max.handshakes
  /\ setups \in 0..max.setups
  /\ agreed \in Seq(Blocks) /\ agreed # <<>>
  /\ streams \in 0..max.streams
  /\ senderCtr \in Ciphers
  /\ wire \in [Streams -> Seq(Ciphers)]
  /\ rekeyed \in BOOLEAN
  /\ garbled \in BOOLEAN
  /\ refused \in BOOLEAN
  /\ raced \in BOOLEAN

(* What the application gets is what the sender encrypted: every frame is
   decrypted with the key, and at the position, with which it was encrypted,
   over any number of pairings, handshakes and streams, lost packets and torn
   down streams, as long as no SETUP replaces a key that is in use. *)
StreamsAreClear == ~rekeyed => ~garbled

(* The control thread and the threads of the streams share ap_crypto without a
   lock: under the same assumption none of its ciphers is changed while a
   thread uses it. *)
CiphersAreNotShared == ~rekeyed => ~raced

(* Both ends keep the position of the cipher of pair-verify: the second frame of
   a sender is accepted in every round, whatever rounds were broken off before
   it. *)
PairVerifySucceeds == ~refused
=============================================================================
