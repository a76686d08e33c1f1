----------------------------- MODULE SecureMedia -----------------------------
(***************************************************************************)
(* The media of one call: the SDP offers and answers of the user agent     *)
(* (core/user_agent.cpp, sip/sdp.cpp) and the engine's socket, SRTP        *)
(* contexts and packets (core/engine.cpp, media/srtp.cpp).                 *)
(*                                                                         *)
(* The far end is external.  A key of the far end is a pair <<epoch, tag>>:*)
(* every crypto line has its own key, and new keys come with a new epoch.  *)
(* Signalling with keys goes over TLS: what the two ends say arrives in    *)
(* order, or not at all when the connection drops.                         *)
(***************************************************************************)
EXTENDS Integers, Sequences, FiniteSets

CONSTANTS Modulus,      \* sequence numbers wrap around here (65536)
          Window,       \* packets of libsrtp's replay window (128)
          Shapes,       \* media descriptions the far end may send, but for the keys
          Configs,      \* configurations of the phone: with or without SRTP, the family of its sockets
          Starts,       \* first sequence numbers this side may draw
          MaxEpochs,    \* bound on the key changes of the far end
          MaxSent       \* bound on the packets this side sends

NoKey == <<0, 0>>
Ours == <<0, 1>>   \* the key this side makes for the call

\* pcma: offers_pcma(); savp: the profile is RTP/SAVP; tags: those of the crypto lines parse_crypto
\* understands; families: those of the endpoints its address resolves to.
Shape == [pcma: BOOLEAN, savp: BOOLEAN, tags: Seq(Nat), families: SUBSET {4, 6}]

ASSUME MediaAssumption ==
  /\ Modulus \in Nat \ {0} /\ Window \in Nat /\ MaxEpochs \in Nat /\ MaxSent \in Nat
  /\ Configs \subseteq [srtp: BOOLEAN, family: {4, 6}] /\ Shapes \subseteq Shape /\ Starts \subseteq 0..(Modulus - 1)

VARIABLES
  config,     \* UserAgentConfig::srtp, and the family of media sockets (media_family_)
  call,       \* "none", "calling", "ringing", "answering", "up" (Confirmed) or "over"
  srtpKey,    \* Call::srtp_key
  offer,      \* Call::offer, the INVITE of the far end
  rtp,        \* rtp_ is open
  out, in,    \* srtp_out_, srtp_in_: their keys, and the packets protected or accepted with them
  remote,     \* the family of rtp_remote_, 0 before there is one
  active,     \* MediaSession::active_
  sequence,   \* send_header_.sequence
  wire,       \* what one end said and the other has not heard yet
  far,        \* external: whether the far end has the call, the keys it sends and hears with, its epoch
  asking,     \* external: the far end waits for the response to its re-INVITE
  sent        \* the packets sent, and the key and index of the last one

mediaVars == <<rtp, out, in, remote, active, sequence>>
callVars == <<call, srtpKey, offer>>
farVars == <<wire, far, asking>>
vars == <<config, callVars, mediaVars, farVars, sent>>

NoDescription == [shape |-> [pcma |-> FALSE, savp |-> FALSE, tags |-> <<>>, families |-> {}], epoch |-> 0]
Message(kind, description, tag, key) == [kind |-> kind, description |-> description, tag |-> tag, key |-> key]
Silence == Message("silence", NoDescription, 0, NoKey)
Fresh(key) == [key |-> key, packets |-> {}]
NoContext == Fresh(NoKey)

Init ==
  /\ config \in Configs
  /\ call = "none" /\ srtpKey = NoKey /\ offer = NoDescription
  /\ rtp = FALSE /\ out = NoContext /\ in = NoContext /\ remote = 0 /\ active = FALSE /\ sequence = 0
  /\ wire = Silence /\ asking = FALSE
  /\ far = [up |-> FALSE, sends |-> NoKey, hears |-> NoKey, epoch |-> 1]
  /\ sent = [count |-> 0, key |-> NoKey, index |-> -1]

-----------------------------------------------------------------------------
(* The user agent's choice of keys.                                        *)

OfferTag == 1   \* kOfferTag

\* The key of a crypto line.
KeyOf(description, tag) == IF config.srtp THEN <<description.epoch, tag>> ELSE NoKey

\* acceptable(): with SRTP there must be a line this side understands; the first one is chosen.
Acceptable(description) ==
  /\ description.shape.pcma
  /\ IF config.srtp THEN description.shape.tags # <<>> ELSE ~description.shape.savp
FirstTag(description) == IF description.shape.tags = <<>> THEN OfferTag ELSE Head(description.shape.tags)

\* Mutant: the answer names the tag of this side's own offers.
AnswerTag_Offer(description) == OfferTag

\* The tag local_sdp_for puts into an answer.
AnswerTag(description) == FirstTag(description)

\* on_invite_final: an answer must take up this side's offer by its tag.
UsableAnswer(description) ==
  /\ Acceptable(description)
  /\ config.srtp => \E i \in 1..Len(description.shape.tags) : description.shape.tags[i] = OfferTag

-----------------------------------------------------------------------------
(* The engine's media.                                                     *)

\* Mutant: a new context for every offer.
Context_Renewed(old, key, made) == IF made THEN Fresh(key) ELSE old

\* A context is kept while its key stays the same; `made` tells whether libsrtp makes a new one.
Context(old, key, made) == IF old.key = key \/ ~made THEN old ELSE Fresh(key)

\* Mutant: the inbound context is made anew for every offer.
UseKeys_FreshInbound(local, theirs, ok) ==
  \E outMade, inMade \in BOOLEAN :
    LET outOk == out.key = local \/ outMade
    IN /\ out' = Context(out, local, outMade)
       /\ in' = IF outOk /\ inMade THEN Fresh(theirs) ELSE in
       /\ ok = (outOk /\ inMade)

\* use_keys() succeeds when both contexts have their keys; inbound is not reached without outbound.
UseKeys(local, theirs, ok) ==
  \E outMade, inMade \in BOOLEAN :
    LET outOk == out.key = local \/ outMade
    IN /\ out' = Context(out, local, outMade)
       /\ in' = IF outOk THEN Context(in, theirs, inMade) ELSE in
       /\ ok = (outOk /\ (in.key = theirs \/ inMade))

\* The endpoint start_media picks: one of the socket's family, else an IPv4 one from an IPv6 socket.
Endpoint(families) ==
  IF config.family \in families THEN config.family
  ELSE IF config.family = 6 /\ 4 \in families THEN 4 ELSE 0

\* start_media(); without a usable endpoint it succeeds and starts nothing, and a session that runs
\* already only follows the far end.
StartMedia(local, description, theirs, ok) ==
  /\ IF config.srtp
     THEN UseKeys(local, theirs, ok)
     ELSE out' = NoContext /\ in' = NoContext /\ ok = TRUE
  /\ LET endpoint == Endpoint(description.shape.families)
     IN IF ok /\ endpoint # 0
        THEN /\ remote' = endpoint /\ active' = TRUE
             /\ sequence' \in IF active THEN {sequence} ELSE Starts
        ELSE UNCHANGED <<remote, active, sequence>>

\* end_call() with close_media().
EndCall ==
  /\ call' = "over" /\ srtpKey' = NoKey /\ offer' = NoDescription
  /\ rtp' = FALSE /\ out' = NoContext /\ in' = NoContext /\ active' = FALSE
  /\ UNCHANGED <<remote, sequence>>

-----------------------------------------------------------------------------
(* Outgoing calls.                                                         *)

\* new_srtp_key(): nothing without SRTP.
NewKey == IF config.srtp THEN Ours ELSE NoKey

\* call(): open_media or secure_random may fail.
Dial ==
  /\ call = "none"
  /\ \/ /\ call' = "calling" /\ rtp' = TRUE /\ srtpKey' = NewKey
        /\ UNCHANGED <<offer, out, in, remote, active, sequence>>
     \/ EndCall
  /\ UNCHANGED <<config, farVars, sent>>

\* The far end answers; it has the keys of the line with the tag of the offer.
FarAnswers(description) ==
  /\ call = "calling" /\ ~far.up /\ description.epoch = far.epoch
  /\ wire' = Message("answer", description, OfferTag, NoKey)
  /\ far' = [far EXCEPT !.up = TRUE, !.sends = KeyOf(description, OfferTag), !.hears = srtpKey]
  /\ UNCHANGED <<config, callVars, mediaVars, asking, sent>>

\* on_invite_final() with a 2xx: without usable media the call ends with a BYE.
OnAnswer ==
  /\ call = "calling" /\ wire.kind = "answer"
  /\ \/ /\ UsableAnswer(wire.description)
        /\ StartMedia(srtpKey, wire.description, KeyOf(wire.description, OfferTag), TRUE)
        /\ call' = "up"
        /\ UNCHANGED <<srtpKey, offer, rtp>>
     \/ /\ UsableAnswer(wire.description) => config.srtp   \* keys that are refused
        /\ EndCall
  /\ wire' = Silence
  /\ UNCHANGED <<config, far, asking, sent>>

-----------------------------------------------------------------------------
(* Incoming calls.                                                         *)

\* on_invite_request() outside of a call; 488 for what cannot be used.
OnInvite(description) ==
  /\ call = "none" /\ description.epoch = far.epoch
  /\ IF Acceptable(description)
     THEN call' = "ringing" /\ offer' = description /\ UNCHANGED <<srtpKey, mediaVars>>
     ELSE EndCall
  /\ UNCHANGED <<config, farVars, sent>>

\* The 200 of an answered call (last_response).
Accept == Message("accept", offer, AnswerTag(offer), srtpKey)

\* answer(): media starts before the 200 goes out; a 500 when something fails.
Answer ==
  /\ call = "ringing"
  /\ \/ /\ StartMedia(NewKey, offer, KeyOf(offer, FirstTag(offer)), TRUE)
        /\ call' = "answering" /\ rtp' = TRUE /\ srtpKey' = NewKey
        /\ wire' = Message("accept", offer, AnswerTag(offer), NewKey)
        /\ UNCHANGED offer
     \/ EndCall /\ UNCHANGED wire
  /\ UNCHANGED <<config, far, asking, sent>>

\* on_timer(): the 200 goes out again until the ACK is there.
ResendAccept ==
  /\ call = "answering" /\ wire = Silence
  /\ wire' = Accept
  /\ UNCHANGED <<config, callVars, mediaVars, far, asking, sent>>

\* The ACK: the call is Confirmed.
OnAck ==
  /\ call = "answering" /\ wire.kind = "ack"
  /\ call' = "up" /\ wire' = Silence
  /\ UNCHANGED <<config, srtpKey, offer, mediaVars, far, asking, sent>>

-----------------------------------------------------------------------------
(* Offers within the call.                                                 *)

\* The far end moves its media, with the key in use or with new ones; one offer at a time.
FarReInvites(description) ==
  /\ far.up /\ ~asking /\ wire = Silence
  /\ \/ KeyOf(description, FirstTag(description)) = far.sends /\ UNCHANGED far
     \/ description.epoch = far.epoch + 1 /\ far' = [far EXCEPT !.epoch = @ + 1]
  /\ wire' = Message("offer", description, 0, NoKey) /\ asking' = TRUE
  /\ UNCHANGED <<config, callVars, mediaVars, sent>>

\* on_invite_request() within the call: before the ACK it is taken for the first INVITE again;
\* what is not acceptable, or whose keys are refused, gets 488 and changes nothing.
OnReInvite ==
  /\ wire.kind = "offer"
  /\ \/ call = "answering" /\ wire' = Accept /\ UNCHANGED mediaVars
     \/ /\ call = "up" /\ ~Acceptable(wire.description)
        /\ wire' = [wire EXCEPT !.kind = "refused"] /\ UNCHANGED mediaVars
     \/ /\ call = "up" /\ Acceptable(wire.description)
        /\ LET description == wire.description
           IN \E ok \in BOOLEAN :
                /\ StartMedia(srtpKey, description, KeyOf(description, FirstTag(description)), ok)
                /\ wire' = IF ok THEN Message("ok", description, AnswerTag(description), srtpKey)
                                 ELSE [wire EXCEPT !.kind = "refused"]
        /\ UNCHANGED rtp
  /\ UNCHANGED <<config, callVars, far, asking, sent>>

\* The far end hears a response; it takes the keys of the line the tag names.
FarHears ==
  /\ \/ /\ wire.kind = "accept" /\ wire' = [Silence EXCEPT !.kind = "ack"]
        /\ far' = IF far.up THEN far
                  ELSE [far EXCEPT !.up = TRUE, !.sends = KeyOf(wire.description, wire.tag), !.hears = wire.key]
        /\ UNCHANGED asking
     \/ /\ wire.kind = "ok" /\ wire' = Silence /\ asking' = FALSE
        /\ far' = [far EXCEPT !.sends = KeyOf(wire.description, wire.tag), !.hears = wire.key]
     \/ wire.kind = "refused" /\ wire' = Silence /\ asking' = FALSE /\ UNCHANGED far
  /\ UNCHANGED <<config, callVars, mediaVars, sent>>

\* The connection drops with what is on it; on_transport_down() ends a call that is still Calling.
\* The far end gives up a call whose offer gets no response.
Drop ==
  /\ IF call = "calling" THEN EndCall ELSE wire # Silence /\ UNCHANGED <<callVars, mediaVars>>
  /\ wire' = Silence
  /\ UNCHANGED <<config, far, asking, sent>>

\* Whatever else ends the call: hangup, a BYE, a CANCEL, the ACK that never comes, shutdown.
End ==
  /\ call \in {"calling", "ringing", "answering", "up"}
  /\ EndCall
  /\ UNCHANGED <<config, farVars, sent>>

-----------------------------------------------------------------------------
(* Packets.                                                                *)

Highest(indices) == CHOOSE i \in indices : \A j \in indices : j <= i

\* srtp_index_guess(): the index of a sequence number, that is the one closest to the highest so far;
\* srtp_rdbx_estimate_index() keeps it from falling below the first cycle.
SrtpIndex(indices, number) ==
  IF indices = {} THEN number
  ELSE LET highest == Highest(indices)
           guess == (highest \div Modulus) * Modulus + number
       IN IF guess - highest > Modulus \div 2 /\ guess >= Modulus THEN guess - Modulus
          ELSE IF highest - guess > Modulus \div 2 THEN guess + Modulus ELSE guess

\* srtp_rdbx_check(): an index in the replay window that was not there before.
NotReplayed(indices, index) ==
  index \notin indices /\ \A i \in indices : index > i - Window

\* UdpSocket::destination(): an IPv6 socket reaches IPv4 peers too.
Reachable == remote = config.family \/ (config.family = 6 /\ remote = 4)

\* One frame of the run loop: next_packet, protect and send_to.
SendFrame ==
  /\ active /\ rtp /\ sent.count < MaxSent
  /\ sequence' = (sequence + 1) % Modulus
  /\ LET indices == {p[2] : p \in out.packets}
         index == SrtpIndex(indices, sequence)
         secure == out.key # NoKey
         size == secure => NotReplayed(indices, index)
     IN /\ out' = IF secure /\ size THEN [out EXCEPT !.packets = @ \cup {<<0, index>>}] ELSE out
        /\ sent' = IF size /\ Reachable THEN [count |-> sent.count + 1, key |-> out.key, index |-> index] ELSE sent
  /\ UNCHANGED <<config, callVars, rtp, in, remote, active, farVars>>

\* unprotect() takes what was protected with the key of srtp_in_ and was not taken before.
Authentic(packet) ==
  LET indices == {p[2] : p \in {q \in in.packets : q[1] = packet.ssrc}}
  IN /\ packet.key = in.key
     /\ SrtpIndex(indices, packet.index % Modulus) = packet.index
     /\ NotReplayed(indices, packet.index)

\* The run loop reads a packet; with keys, one that does not authenticate is dropped.
Unprotect(packet) ==
  /\ rtp /\ active
  /\ in' = IF in.key # NoKey /\ Authentic(packet)
           THEN [in EXCEPT !.packets = @ \cup {<<packet.ssrc, packet.index>>}] ELSE in
  /\ UNCHANGED <<config, callVars, rtp, out, remote, active, sequence, farVars, sent>>

Descriptions == [shape: Shapes, epoch: 1..MaxEpochs]
Packet == [key: Nat \X Nat, ssrc: Nat, index: Nat]

Signalling ==
  \/ Dial \/ OnAnswer \/ Answer \/ ResendAccept \/ OnAck \/ OnReInvite \/ FarHears \/ Drop \/ End
  \/ \E description \in Descriptions :
       FarAnswers(description) \/ OnInvite(description) \/ FarReInvites(description)

Next == Signalling \/ SendFrame \/ \E packet \in Packet : Unprotect(packet)
Spec == Init /\ [][Next]_vars

-----------------------------------------------------------------------------
(* Properties.                                                             *)

\* With SRTP, a call that sends or receives has a context for each direction (the run loop would go
\* on in plain RTP without one), and whenever no offer is under way this side hears the key the far
\* end sends with and sends with the key it hears: answers by tag, refused offers, responses and ACKs
\* lost with the connection and contexts that cannot be made all leave the two ends in agreement.
KeysAgree ==
  /\ config.srtp /\ active => out.key # NoKey /\ in.key # NoKey
  /\ call \in {"answering", "up"} /\ far.up /\ ~asking => in.key = far.sends /\ out.key = far.hears

\* Two packets protected with one key never have the same or a falling index (their keystream would
\* repeat): the outbound context outlives every re-INVITE and counts on when sequence numbers wrap.
OutboundIndexGrows ==
  [][sent'.count > sent.count /\ sent'.key # NoKey /\ sent'.key = sent.key => sent'.index > sent.index]_sent
=============================================================================
