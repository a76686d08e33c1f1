------------------------- MODULE SecureMedia_proofs -------------------------
(***************************************************************************)
(* The two ends of a call agree on their keys, no index is used twice, no  *)
(* packet is taken twice, and the numbers of what is received are right,   *)
(* for every configuration, every set of descriptions and any number of    *)
(* key changes and packets.                                                *)
(***************************************************************************)
EXTENDS MediaReceive, FiniteSetTheorems, TLAPS

\* The records that actions update field by field.
Records ==
  /\ out = [key |-> out.key, packets |-> out.packets]
  /\ in = [key |-> in.key, packets |-> in.packets]
  /\ far = [up |-> far.up, sends |-> far.sends, hears |-> far.hears, epoch |-> far.epoch]
  /\ wire = [kind |-> wire.kind, description |-> wire.description, tag |-> wire.tag, key |-> wire.key]

\* Before a call is answered there are no contexts, and the far end knows of it only by its answer.
Before ==
  /\ call \notin {"answering", "up"} => out = NoContext /\ in = NoContext /\ ~active
  /\ call \in {"none", "ringing"} => ~far.up /\ ~asking /\ wire = Silence
  /\ call = "ringing" => offer.epoch \in Nat \ {0}
  /\ call = "calling" =>
       /\ srtpKey = NewKey /\ ~asking
       /\ ~far.up => wire = Silence
       /\ far.up =>
            /\ wire.kind = "answer" /\ wire.description.epoch \in Nat \ {0}
            /\ far.sends = KeyOf(wire.description, OfferTag) /\ far.hears = srtpKey

\* Once it is, this side's key stays, and the far end's is the one it will hear or has heard of.
Answered ==
  call \in {"answering", "up"} =>
    /\ srtpKey = NewKey /\ out.key = srtpKey
    /\ config.srtp => in.key # NoKey
    /\ far.up => far.hears = srtpKey
    /\ far.up /\ ~asking => in.key = far.sends
    /\ call = "up" => far.up
    /\ call = "answering" => in.key = KeyOf(offer, AnswerTag(offer))
    /\ wire.kind # "answer"
    /\ wire.kind = "ack" => far.up
    /\ wire.kind = "accept" /\ ~far.up => wire.key = srtpKey /\ in.key = KeyOf(wire.description, wire.tag)
    /\ wire.kind \in {"offer", "ok", "refused"} => asking /\ far.up
    /\ wire.kind \in {"offer", "refused"} => in.key = far.sends
    /\ wire.kind = "offer" => wire.description.epoch \in Nat \ {0}
    /\ wire.kind = "ok" => wire.key = srtpKey /\ in.key = KeyOf(wire.description, wire.tag)

KeyInv == Records /\ Before /\ Answered

-----------------------------------------------------------------------------
\* A start_media that succeeds leaves both contexts with the keys it was given.
LEMMA Started ==
  ASSUME NEW local, NEW description, NEW theirs, Records,
         ~config.srtp => local = NoKey /\ theirs = NoKey,
         StartMedia(local, description, theirs, TRUE)
  PROVE  /\ out'.key = local /\ in'.key = theirs
         /\ out' = [key |-> out'.key, packets |-> out'.packets]
         /\ in' = [key |-> in'.key, packets |-> in'.packets]
  BY DEF Records, StartMedia, UseKeys, Context, Fresh, NoContext

\* One that fails, on a re-INVITE with this side's key unchanged, leaves both as they were.
LEMMA NotStarted ==
  ASSUME NEW local, NEW description, NEW theirs, out.key = local,
         StartMedia(local, description, theirs, FALSE)
  PROVE  config.srtp /\ out' = out /\ in' = in /\ active' = active
  BY DEF StartMedia, UseKeys, Context

\* The keys of crypto lines are told apart from none, and there are none without SRTP.
LEMMA LineKeys ==
  ASSUME NEW description, NEW tag, description.epoch \in Nat \ {0}
  PROVE  IF config.srtp THEN KeyOf(description, tag) # NoKey ELSE KeyOf(description, tag) = NoKey
  BY DEF KeyOf, NoKey

\* However a call ends, nothing of its keys is left.
LEMMA Ends ==
  ASSUME KeyInv, EndCall, UNCHANGED far, Records'
  PROVE  KeyInv'
  BY DEF KeyInv, EndCall, Before, Answered, NoContext, Fresh

LEMMA InitKeys == Init => KeyInv
  BY DEF Init, KeyInv, Records, Before, Answered, NoContext, Fresh, Silence, Message

\* Calls: dialling, the answer of the far end, ringing and answering.
LEMMA CallStepsKeep ==
  ASSUME KeyInv,
         \/ Dial \/ OnAnswer \/ Answer \/ ResendAccept \/ OnAck \/ Drop \/ End
         \/ \E description \in Descriptions : FarAnswers(description) \/ OnInvite(description)
  PROVE  KeyInv'
<1> USE DEF KeyInv
<1>1. CASE Dial
  <2>1. CASE EndCall
    BY <1>1, <2>1, Ends, Zenon DEF Dial, farVars, EndCall, Records, NoContext, Fresh
  <2>2. CASE ~EndCall
    BY <1>1, <2>2 DEF Dial, farVars, Records, Before, Answered, Silence, Message, NewKey, NoContext, Fresh
  <2> QED BY <2>1, <2>2
<1>2. CASE OnAnswer
  <2>1. CASE EndCall
    BY <1>2, <2>1, Ends, Zenon DEF OnAnswer, EndCall, Records, NoContext, Fresh, Silence, Message
  <2>2. CASE /\ StartMedia(srtpKey, wire.description, KeyOf(wire.description, OfferTag), TRUE)
             /\ call' = "up" /\ UNCHANGED <<srtpKey, offer, rtp>>
    <3>1. /\ call = "calling" /\ far.up /\ ~asking /\ wire.description.epoch \in Nat \ {0}
          /\ UNCHANGED <<config, far, asking>> /\ wire' = Silence
      BY <1>2 DEF OnAnswer, Before, Silence, Message
    <3>2. /\ srtpKey = NewKey /\ far.sends = KeyOf(wire.description, OfferTag) /\ far.hears = srtpKey
      BY <3>1 DEF Before
    <3>3. ~config.srtp => srtpKey = NoKey /\ KeyOf(wire.description, OfferTag) = NoKey
      BY <3>1, <3>2, LineKeys DEF NewKey
    <3>4. /\ out'.key = srtpKey /\ in'.key = far.sends
          /\ out' = [key |-> out'.key, packets |-> out'.packets]
          /\ in' = [key |-> in'.key, packets |-> in'.packets]
      BY <2>2, <3>2, <3>3, Started, Zenon
    <3>5. config.srtp => in'.key # NoKey
      BY <3>1, <3>2, <3>4, LineKeys
    <3>6. wire'.kind = "silence" /\ srtpKey' = NewKey'
      BY <2>2, <3>1, <3>2 DEF Silence, Message, NewKey
    <3> QED BY <2>2, <3>1, <3>2, <3>4, <3>5, <3>6 DEF Records, Before, Answered, Silence, Message
  <2> QED BY <1>2, <2>1, <2>2, Zenon DEF OnAnswer
<1>3. CASE Answer
  <2>1. CASE EndCall /\ UNCHANGED wire
    BY <1>3, <2>1, Ends, Zenon DEF Answer, EndCall, Records, NoContext, Fresh
  <2>2. CASE /\ StartMedia(NewKey, offer, KeyOf(offer, FirstTag(offer)), TRUE)
             /\ call' = "answering" /\ rtp' = TRUE /\ srtpKey' = NewKey
             /\ wire' = Message("accept", offer, AnswerTag(offer), NewKey)
             /\ UNCHANGED offer
    <3>1. /\ call = "ringing" /\ ~far.up /\ ~asking /\ offer.epoch \in Nat \ {0}
          /\ UNCHANGED <<config, far, asking>>
      BY <1>3 DEF Answer, Before
    <3>2. ~config.srtp => NewKey = NoKey /\ KeyOf(offer, FirstTag(offer)) = NoKey
      BY <3>1, LineKeys DEF NewKey
    <3>3. /\ out'.key = NewKey /\ in'.key = KeyOf(offer, AnswerTag(offer))
          /\ out' = [key |-> out'.key, packets |-> out'.packets]
          /\ in' = [key |-> in'.key, packets |-> in'.packets]
      BY <2>2, <3>2, Started, Zenon DEF AnswerTag
    <3>4. config.srtp => in'.key # NoKey
      BY <3>1, <3>3, LineKeys
    <3>5. /\ NewKey' = NewKey /\ KeyOf(offer, AnswerTag(offer))' = KeyOf(offer, AnswerTag(offer))
          /\ KeyOf(wire.description, wire.tag)' = KeyOf(offer, AnswerTag(offer))
          /\ wire'.kind = "accept" /\ wire'.key = NewKey
      BY <2>2, <3>1 DEF NewKey, KeyOf, AnswerTag, FirstTag, Message
    <3> QED BY <2>2, <3>1, <3>3, <3>4, <3>5 DEF Records, Before, Answered, Message
  <2> QED BY <1>3, <2>1, <2>2, Zenon DEF Answer
<1>4. CASE ResendAccept
  <2>1. /\ call = "answering" /\ UNCHANGED <<config, callVars, mediaVars, far, asking>>
        /\ wire' = Message("accept", offer, AnswerTag(offer), srtpKey)
    BY <1>4 DEF ResendAccept, Accept
  <2>2. /\ KeyOf(wire.description, wire.tag)' = KeyOf(offer, AnswerTag(offer))
        /\ KeyOf(offer, AnswerTag(offer))' = KeyOf(offer, AnswerTag(offer)) /\ NewKey' = NewKey
        /\ wire'.kind = "accept" /\ wire'.key = srtpKey
    BY <2>1 DEF NewKey, KeyOf, AnswerTag, FirstTag, Message, callVars
  <2> QED BY <2>1, <2>2 DEF Records, Before, Answered, Message, callVars, mediaVars
<1>5. CASE OnAck
  BY <1>5 DEF OnAck, Records, Before, Answered, Silence, Message, mediaVars, NewKey, NoContext, Fresh
<1>6. CASE Drop
  <2>1. CASE EndCall
    BY <1>6, <2>1, Ends, Zenon DEF Drop, EndCall, Records, NoContext, Fresh, Silence, Message
  <2>2. CASE call # "calling" /\ UNCHANGED <<callVars, mediaVars>>
    <3>1. /\ NewKey' = NewKey /\ KeyOf(offer, AnswerTag(offer))' = KeyOf(offer, AnswerTag(offer))
      BY <1>6, <2>2 DEF Drop, NewKey, KeyOf, AnswerTag, FirstTag, callVars
    <3> QED BY <1>6, <2>2, <3>1 DEF Drop, Records, Before, Answered, Silence, Message, callVars, mediaVars, NoContext, Fresh
  <2> QED BY <1>6, <2>1, <2>2 DEF Drop
<1>7. CASE End
  BY <1>7, Ends, Zenon DEF End, EndCall, Records, NoContext, Fresh, farVars
<1>8. ASSUME NEW description \in Descriptions, FarAnswers(description)
      PROVE  KeyInv'
  <2>1. description.epoch \in Nat \ {0}
    BY <1>8, MediaAssumption DEF Descriptions
  <2>2. /\ KeyOf(wire.description, OfferTag)' = KeyOf(description, OfferTag) /\ NewKey' = NewKey
        /\ wire'.kind = "answer" /\ wire'.description = description
    BY <1>8, Zenon DEF FarAnswers, Message, KeyOf, NewKey
  <2> QED BY <1>8, <2>1, <2>2, Zenon DEF FarAnswers, Records, Before, Answered, Message, callVars, mediaVars, NoContext, Fresh
<1>9. ASSUME NEW description \in Descriptions, OnInvite(description)
      PROVE  KeyInv'
  <2>1. description.epoch \in Nat \ {0}
    BY <1>9, MediaAssumption DEF Descriptions
  <2>2. CASE EndCall
    BY <1>9, <2>2, Ends, Zenon DEF OnInvite, EndCall, Records, NoContext, Fresh, farVars
  <2>3. CASE ~EndCall
    BY <1>9, <2>1, <2>3 DEF OnInvite, Records, Before, Answered, mediaVars, farVars, NoContext, Fresh, Silence, Message
  <2> QED BY <2>2, <2>3
<1> QED BY <1>1, <1>2, <1>3, <1>4, <1>5, <1>6, <1>7, <1>8, <1>9

\* Offers within the call.
LEMMA OfferStepsKeep ==
  ASSUME KeyInv, OnReInvite \/ FarHears \/ \E description \in Descriptions : FarReInvites(description)
  PROVE  KeyInv'
<1> USE DEF KeyInv
<1>1. CASE OnReInvite
  <2>1. /\ UNCHANGED <<config, call, srtpKey, offer, far, asking>> /\ wire.kind = "offer"
        /\ NewKey' = NewKey /\ KeyOf(offer, AnswerTag(offer))' = KeyOf(offer, AnswerTag(offer))
    BY <1>1 DEF OnReInvite, callVars, NewKey, KeyOf, AnswerTag, FirstTag
  <2>2. CASE call = "answering" /\ wire' = Accept /\ UNCHANGED mediaVars
    BY <2>1, <2>2 DEF Accept, Message, Records, Before, Answered, mediaVars
  <2>3. CASE call = "up" /\ wire' = [wire EXCEPT !.kind = "refused"] /\ UNCHANGED mediaVars
    BY <2>1, <2>3 DEF Records, Before, Answered, mediaVars
  <2>4. ASSUME call = "up", NEW ok \in BOOLEAN,
               StartMedia(srtpKey, wire.description, KeyOf(wire.description, FirstTag(wire.description)), ok),
               wire' = IF ok THEN Message("ok", wire.description, AnswerTag(wire.description), srtpKey)
                             ELSE [wire EXCEPT !.kind = "refused"]
        PROVE  KeyInv'
    <3> DEFINE theirs == KeyOf(wire.description, FirstTag(wire.description))
    <3>1. /\ out.key = srtpKey /\ srtpKey = NewKey /\ wire.description.epoch \in Nat \ {0}
      BY <2>1, <2>4 DEF Answered
    <3>2. CASE ok = TRUE
      <4>1. ~config.srtp => srtpKey = NoKey /\ theirs = NoKey
        BY <3>1, LineKeys DEF NewKey
      <4>2. /\ out'.key = srtpKey /\ in'.key = theirs
            /\ out' = [key |-> out'.key, packets |-> out'.packets]
            /\ in' = [key |-> in'.key, packets |-> in'.packets]
        BY <2>4, <3>2, <4>1, Started, Zenon
      <4>3. config.srtp => in'.key # NoKey
        BY <3>1, <4>2, LineKeys
      <4>4. /\ wire'.kind = "ok" /\ wire'.key = srtpKey /\ KeyOf(wire.description, wire.tag)' = theirs
            /\ wire' = [kind |-> wire'.kind, description |-> wire'.description, tag |-> wire'.tag, key |-> wire'.key]
        BY <2>1, <2>4, <3>2 DEF Message, KeyOf, AnswerTag
      <4> HIDE DEF theirs
      <4> QED BY <2>1, <2>4, <3>1, <4>2, <4>3, <4>4 DEF Records, Before, Answered
    <3>3. CASE ok = FALSE
      <4>1. out' = out /\ in' = in /\ active' = active
        BY <2>4, <3>1, <3>3, NotStarted, Zenon
      <4>2. wire' = [wire EXCEPT !.kind = "refused"]
        BY <2>4, <3>3
      <4> HIDE DEF theirs
      <4> QED BY <2>1, <2>4, <4>1, <4>2 DEF Records, Before, Answered
    <3> QED BY <2>4, <3>2, <3>3, Zenon
  <2> QED BY <1>1, <2>2, <2>3, <2>4 DEF OnReInvite
<1>2. CASE FarHears
  <2>1. /\ UNCHANGED <<config, call, srtpKey, offer, out, in, active>>
        /\ NewKey' = NewKey /\ KeyOf(offer, AnswerTag(offer))' = KeyOf(offer, AnswerTag(offer))
        /\ wire.kind \in {"accept", "ok", "refused"}
    BY <1>2 DEF FarHears, callVars, mediaVars, NewKey, KeyOf, AnswerTag, FirstTag
  <2>2. call \notin {"none", "ringing", "calling"}
    BY <2>1 DEF Before, Silence, Message
  <2>3. CASE wire.kind = "accept"
    <3>1. /\ asking' = asking /\ wire'.kind = "ack" /\ far'.up
          /\ wire' = [kind |-> wire'.kind, description |-> wire'.description, tag |-> wire'.tag, key |-> wire'.key]
          /\ far' = [up |-> far'.up, sends |-> far'.sends, hears |-> far'.hears, epoch |-> far'.epoch]
          /\ IF far.up THEN far' = far ELSE far'.sends = KeyOf(wire.description, wire.tag) /\ far'.hears = wire.key
      BY <1>2, <2>3, Zenon DEF FarHears, Records, Silence, Message
    <3> QED BY <2>1, <2>2, <2>3, <3>1 DEF Records, Before, Answered
  <2>4. CASE wire.kind = "ok"
    <3>1. /\ ~asking' /\ wire' = Silence /\ far'.up = far.up
          /\ far' = [up |-> far'.up, sends |-> far'.sends, hears |-> far'.hears, epoch |-> far'.epoch]
          /\ far'.sends = KeyOf(wire.description, wire.tag) /\ far'.hears = wire.key
      BY <1>2, <2>4, Zenon DEF FarHears, Records
    <3> QED BY <2>1, <2>2, <2>4, <3>1 DEF Records, Before, Answered, Silence, Message
  <2>5. CASE wire.kind = "refused"
    <3>1. ~asking' /\ wire' = Silence /\ far' = far
      BY <1>2, <2>5 DEF FarHears
    <3> QED BY <2>1, <2>2, <2>5, <3>1 DEF Records, Before, Answered, Silence, Message
  <2> QED BY <2>1, <2>3, <2>4, <2>5
<1>3. ASSUME NEW description \in Descriptions, FarReInvites(description)
      PROVE  KeyInv'
  <2>1. description.epoch \in Nat \ {0}
    BY <1>3, MediaAssumption DEF Descriptions
  <2>2. /\ UNCHANGED <<config, call, srtpKey, offer, out, in, active>>
        /\ NewKey' = NewKey /\ KeyOf(offer, AnswerTag(offer))' = KeyOf(offer, AnswerTag(offer))
        /\ far.up /\ ~asking /\ asking' /\ far'.up /\ far'.sends = far.sends /\ far'.hears = far.hears
        /\ far' = [up |-> far'.up, sends |-> far'.sends, hears |-> far'.hears, epoch |-> far'.epoch]
        /\ wire.kind = "silence" /\ wire' = Message("offer", description, 0, NoKey)
    BY <1>3 DEF FarReInvites, callVars, mediaVars, NewKey, KeyOf, AnswerTag, FirstTag, Records, Silence, Message
  <2> QED BY <2>1, <2>2 DEF Records, Before, Answered, Message
<1> QED BY <1>1, <1>2, <1>3

\* Packets leave the keys alone.
LEMMA PacketStepsKeep ==
  ASSUME KeyInv, SendFrame \/ \E packet : Unprotect(packet)
  PROVE  KeyInv'
<1>1. /\ UNCHANGED <<config, call, srtpKey, offer, far, asking, wire, active>>
      /\ out'.key = out.key /\ out' = [key |-> out'.key, packets |-> out'.packets]
      /\ in'.key = in.key /\ in' = [key |-> in'.key, packets |-> in'.packets]
      /\ active
  BY DEF KeyInv, Records, SendFrame, Unprotect, callVars, farVars
<1>2. /\ NewKey' = NewKey /\ KeyOf(offer, AnswerTag(offer))' = KeyOf(offer, AnswerTag(offer))
      /\ KeyOf(wire.description, wire.tag)' = KeyOf(wire.description, wire.tag)
      /\ KeyOf(wire.description, OfferTag)' = KeyOf(wire.description, OfferTag)
  BY <1>1 DEF NewKey, KeyOf, AnswerTag, FirstTag
<1> QED BY <1>1, <1>2 DEF KeyInv, Records, Before, Answered

LEMMA KeyStep ==
  ASSUME KeyInv, [MediaNext]_<<vars, receiveVars>>
  PROVE  KeyInv'
<1>1. CASE UNCHANGED vars
  BY <1>1 DEF KeyInv, Records, Before, Answered, vars, callVars, mediaVars, farVars, NewKey, KeyOf, AnswerTag, FirstTag
<1>2. CASE Signalling
  BY <1>2, CallStepsKeep, OfferStepsKeep DEF Signalling
<1>3. CASE SendFrame
  BY <1>3, PacketStepsKeep
<1>4. ASSUME NEW packet \in network, ReceivePacket(packet) PROVE KeyInv'
  BY <1>4, PacketStepsKeep DEF ReceivePacket
<1> QED BY <1>1, <1>2, <1>3, <1>4, Zenon DEF MediaNext, MediaStep, FarSends, FarSwitches

\* For every configuration, set of descriptions and schedule of packets, key changes, losses and
\* failures, a call that has media has its contexts, and the keys of both ends agree whenever no
\* offer is under way (UserAgent::on_invite_request, on_invite_final, answer; Engine::use_keys).
THEOREM KeysSafe == MediaSpec => []KeysAgree
<1>1. ReceiveInit => KeyInv
  BY InitKeys DEF ReceiveInit
<1>2. KeyInv /\ [MediaNext]_<<vars, receiveVars>> => KeyInv'
  BY KeyStep
<1>3. KeyInv => KeysAgree
  <2> SUFFICES ASSUME KeyInv PROVE KeysAgree
    OBVIOUS
  <2>1. NewKey = NoKey => ~config.srtp
    BY DEF NewKey, NoKey, Ours
  <2>2. active => call \in {"answering", "up"}
    BY DEF KeyInv, Before
  <2> QED BY <2>1, <2>2 DEF KeyInv, Answered, KeysAgree
<1> QED BY <1>1, <1>2, <1>3, PTL DEF MediaSpec


-----------------------------------------------------------------------------
(* The outbound context: the frames of a call are protected with rising    *)
(* indices, and the next sequence number is the one after the highest.     *)

Protected == {p[2] : p \in out.packets}

OutInv ==
  /\ sequence \in 0..(Modulus - 1) /\ sent.index \in Int
  /\ Protected \subseteq Nat
  /\ ~active => out.packets = {}
  /\ call # "over" /\ out.packets = {} => sent.key = NoKey
  /\ out.packets # {} =>
       /\ call \in {"answering", "up"} /\ out.key # NoKey
       /\ \E h \in Protected : /\ \A i \in Protected : i <= h
                               /\ sequence = (h + 1) % Modulus
                               /\ sent.key # NoKey => sent.index <= h

LEMMA Cycles ==
  ASSUME NEW x \in Int
  PROVE  x % Modulus \in 0..(Modulus - 1) /\ \E q \in Int : x = q * Modulus + (x % Modulus) /\ x \div Modulus = q
<1>1. Modulus \in Nat \ {0}
  BY MediaAssumption
<1>2. x = Modulus * (x \div Modulus) + (x % Modulus) /\ x \div Modulus \in Int /\ x % Modulus \in 0..(Modulus - 1)
  BY <1>1
<1>3. PICK q \in Int : q = x \div Modulus
  BY <1>2
<1>4. x = q * Modulus + (x % Modulus)
  BY <1>1, <1>2, <1>3
<1> QED BY <1>2, <1>3, <1>4, Zenon

LEMMA InCycle ==
  ASSUME NEW q \in Int, NEW r \in 0..(Modulus - 1)
  PROVE  (q * Modulus + r) % Modulus = r /\ (q * Modulus + r) \div Modulus = q
<1>1. Modulus \in Nat \ {0}
  BY MediaAssumption
<1>2. PICK x \in Int : x = q * Modulus + r
  BY <1>1
<1>3. PICK p \in Int, s \in 0..(Modulus - 1) : x = p * Modulus + s /\ x % Modulus = s /\ x \div Modulus = p
  BY Cycles
<1>4. (p - q) * Modulus = r - s
  BY <1>1, <1>2, <1>3
<1>5. p = q
  <2>1. PICK d \in Int : d = p - q
    OBVIOUS
  <2>2. d * Modulus = r - s
    BY <1>4, <2>1
  <2>3. d >= 1 => d * Modulus >= Modulus
    BY <1>1
  <2>4. d <= -1 => d * Modulus <= -Modulus
    BY <1>1
  <2>5. r - s < Modulus /\ r - s > -Modulus
    BY <1>1
  <2>6. ~(d >= 1) /\ ~(d <= -1)
    BY <1>1, <2>2, <2>3, <2>4, <2>5
  <2> QED BY <2>1, <2>6
<1> QED BY <1>1, <1>2, <1>3, <1>4, <1>5

LEMMA ModulusLarge == Modulus \in Nat /\ Modulus >= 3
  BY MediaAssumption, ReceiveAssumption

LEMMA HighestIs ==
  ASSUME NEW indices, indices \subseteq Nat, NEW h \in indices, \A i \in indices : i <= h
  PROVE  Highest(indices) = h
<1>1. Highest(indices) \in indices /\ \A i \in indices : i <= Highest(indices)
  BY Zenon DEF Highest
<1>2. Highest(indices) \in Nat /\ h \in Nat
  BY <1>1, Zenon
<1>3. h <= Highest(indices) /\ Highest(indices) <= h
  BY <1>1, Zenon
<1> QED BY <1>2, <1>3

\* libsrtp counts on by one when sequence numbers do, also when they wrap.
LEMMA NextIndex ==
  ASSUME NEW indices, indices \subseteq Nat, NEW h \in indices, \A i \in indices : i <= h
  PROVE  SrtpIndex(indices, (h + 1) % Modulus) = h + 1
<1>1. Highest(indices) = h
  BY HighestIs, Zenon
<1>2. PICK q \in Int, r \in 0..(Modulus - 1) : h = q * Modulus + r /\ h \div Modulus = q
  BY Cycles
<1>3. q >= 0
  <2>1. q <= -1 => q * Modulus <= -Modulus
    BY ModulusLarge
  <2> QED BY <1>2, <2>1, ModulusLarge
<1>4. PICK whole \in Nat : whole = q * Modulus
  BY <1>3, ModulusLarge
<1>5. CASE r + 1 < Modulus
  <2>1. PICK s \in 0..(Modulus - 1) : s = r + 1
    BY <1>5, ModulusLarge
  <2>2. (h + 1) % Modulus = s
    <3>1. h + 1 = q * Modulus + s
      BY <1>2, <1>4, <2>1
    <3> QED BY <3>1, InCycle
  <2>3. (h \div Modulus) * Modulus + s = h + 1
    BY <1>2, <1>4, <2>1
  <2>4. 1 <= Modulus \div 2
    BY ModulusLarge
  <2> QED BY <1>1, <2>2, <2>3, <2>4, ModulusLarge DEF SrtpIndex
<1>6. CASE ~(r + 1 < Modulus)
  <2>1. r + 1 = Modulus
    BY <1>6, ModulusLarge
  <2>2. (h + 1) % Modulus = 0
    <3>1. PICK p \in Int : p = q + 1
      OBVIOUS
    <3>2. h + 1 = p * Modulus + 0
      BY <1>2, <2>1, <3>1, ModulusLarge
    <3>3. 0 \in 0..(Modulus - 1)
      BY ModulusLarge
    <3> QED BY <3>2, <3>3, InCycle
  <2>3. (h \div Modulus) * Modulus + 0 = h + 1 - Modulus
    BY <1>2, <1>4, <2>1, ModulusLarge
  <2>4. Modulus - 1 > Modulus \div 2 /\ Modulus \div 2 >= 0
    BY ModulusLarge
  <2> QED BY <1>1, <2>2, <2>3, <2>4, ModulusLarge DEF SrtpIndex
<1> QED BY <1>5, <1>6

LEMMA OutKept ==
  ASSUME OutInv, sent' = sent, out'.packets = out.packets, out.packets # {} => out'.key # NoKey,
         sequence' = sequence \/ (out.packets = {} /\ sequence' \in Starts),
         active => active', call' # "over" => call # "over",
         call \in {"answering", "up"} => call' \in {"answering", "up"}
  PROVE  OutInv'
<1>1. sequence' \in 0..(Modulus - 1)
  BY MediaAssumption, Zenon DEF OutInv
<1>2. Protected' = Protected
  BY DEF Protected
<1> QED BY <1>1, <1>2 DEF OutInv

LEMMA OutClosed ==
  ASSUME OutInv, EndCall, sent' = sent
  PROVE  OutInv'
<1>1. out'.packets = {} /\ Protected' = {} /\ sequence' = sequence /\ call' = "over"
  BY DEF EndCall, NoContext, Fresh, Protected
<1> QED BY <1>1 DEF OutInv

\* The first start_media of a call finds no context; a later one keeps it.
LEMMA OutStarted ==
  ASSUME KeyInv, OutInv, NEW local, NEW description, NEW theirs, NEW ok \in BOOLEAN,
         StartMedia(local, description, theirs, ok), sent' = sent, config.srtp => local # NoKey,
         call = "calling" \/ call = "ringing" \/ (call \in {"answering", "up"} /\ local = srtpKey),
         call' \in {"answering", "up"}
  PROVE  OutInv'
<1>1. out'.packets = out.packets /\ (out.packets # {} => out'.key = out.key)
  <2>1. CASE call \in {"calling", "ringing"}
    BY <2>1 DEF KeyInv, Before, StartMedia, UseKeys, Context, NoContext, Fresh
  <2>2. CASE call \in {"answering", "up"} /\ config.srtp
    <3>1. out.key = local
      BY <2>2 DEF KeyInv, Answered
    <3> QED BY <2>2, <3>1 DEF StartMedia, UseKeys, Context
  <2>3. CASE call \in {"answering", "up"} /\ ~config.srtp
    <3>1. out.key = NoKey
      BY <2>3 DEF KeyInv, Answered, NewKey
    <3>2. out.packets = {}
      BY <3>1 DEF OutInv
    <3>3. out' = NoContext
      BY <2>3 DEF StartMedia
    <3> QED BY <3>2, <3>3 DEF NoContext, Fresh
  <2> QED BY <2>1, <2>2, <2>3
<1>2. /\ sequence' = sequence \/ (~active /\ sequence' \in Starts)
      /\ active => active'
  BY DEF StartMedia
<1>3. out.packets # {} => out'.key # NoKey
  BY <1>1 DEF OutInv
<1>4. ~active => out.packets = {}
  BY DEF OutInv
<1> QED BY <1>1, <1>2, <1>3, <1>4, OutKept

LEMMA SignallingOut ==
  ASSUME KeyInv, OutInv, Signalling
  PROVE  OutInv'
<1>0. config.srtp => NewKey # NoKey
  BY DEF NewKey, NoKey, Ours
<1>1. ASSUME EndCall, sent' = sent PROVE OutInv'
  BY <1>1, OutClosed
<1>2. ASSUME UNCHANGED <<out, active, sequence, sent>>,
             call' # "over" => call # "over", call \in {"answering", "up"} => call' \in {"answering", "up"}
      PROVE  OutInv'
  BY <1>2, OutKept DEF OutInv
<1>3. CASE Dial
  BY <1>1, <1>2, <1>3 DEF Dial
<1>4. CASE OnAnswer
  <2>1. CASE ~EndCall
    <3>1. /\ StartMedia(srtpKey, wire.description, KeyOf(wire.description, OfferTag), TRUE)
          /\ call = "calling" /\ call' = "up" /\ sent' = sent
      BY <1>4, <2>1, Zenon DEF OnAnswer
    <3>2. srtpKey = NewKey
      BY <3>1 DEF KeyInv, Before
    <3> QED BY <1>0, <3>1, <3>2, OutStarted, Zenon
  <2> QED BY <1>1, <1>4, <2>1 DEF OnAnswer
<1>5. CASE Answer
  <2>1. CASE ~EndCall
    <3>1. /\ StartMedia(NewKey, offer, KeyOf(offer, FirstTag(offer)), TRUE)
          /\ call = "ringing" /\ call' = "answering" /\ sent' = sent
      BY <1>5, <2>1, Zenon DEF Answer
    <3> QED BY <1>0, <3>1, OutStarted, Zenon
  <2> QED BY <1>1, <1>5, <2>1 DEF Answer
<1>6. CASE ResendAccept \/ OnAck \/ FarHears
  BY <1>2, <1>6 DEF ResendAccept, OnAck, FarHears, callVars, mediaVars
<1>7. CASE Drop \/ End
  BY <1>1, <1>2, <1>7 DEF Drop, End, callVars, mediaVars
<1>8. CASE OnReInvite
  <2>1. sent' = sent /\ UNCHANGED callVars
    BY <1>8 DEF OnReInvite
  <2>2. CASE UNCHANGED mediaVars
    BY <1>2, <2>1, <2>2 DEF callVars, mediaVars
  <2>3. ASSUME call = "up", NEW ok \in BOOLEAN,
               StartMedia(srtpKey, wire.description, KeyOf(wire.description, FirstTag(wire.description)), ok)
        PROVE  OutInv'
    <3>1. srtpKey = NewKey /\ call' = "up"
      BY <2>1, <2>3 DEF KeyInv, Answered, callVars
    <3> QED BY <1>0, <2>1, <2>3, <3>1, OutStarted
  <2> QED BY <1>8, <2>2, <2>3 DEF OnReInvite
<1>9. ASSUME NEW description \in Descriptions,
             FarAnswers(description) \/ OnInvite(description) \/ FarReInvites(description)
      PROVE  OutInv'
  BY <1>1, <1>2, <1>9 DEF FarAnswers, OnInvite, FarReInvites, callVars, mediaVars
<1> QED BY <1>3, <1>4, <1>5, <1>6, <1>7, <1>8, <1>9 DEF Signalling

\* A frame is protected with the index after the highest, and becomes the highest.
LEMMA FrameOut ==
  ASSUME KeyInv, OutInv, SendFrame
  PROVE  /\ OutInv'
         /\ sent' # sent /\ sent'.key # NoKey /\ sent'.key = sent.key => sent'.index > sent.index
<1> DEFINE index == SrtpIndex(Protected, sequence)
           size == out.key # NoKey => NotReplayed(Protected, index)
<1>1. /\ sequence' = (sequence + 1) % Modulus /\ active /\ UNCHANGED <<active, call>>
      /\ out' = IF out.key # NoKey /\ size THEN [out EXCEPT !.packets = @ \cup {<<0, index>>}] ELSE out
      /\ sent' = IF size /\ Reachable THEN [count |-> sent.count + 1, key |-> out.key, index |-> index] ELSE sent
  BY DEF SendFrame, Protected, callVars
<1>2. call \in {"answering", "up"} /\ sequence \in 0..(Modulus - 1) /\ Protected \subseteq Nat
  BY <1>1 DEF KeyInv, Before, OutInv
<1>3. sequence \in Nat /\ sequence' \in 0..(Modulus - 1)
  <2>1. sequence + 1 \in Int
    BY <1>2, ModulusLarge
  <2> QED BY <1>1, <1>2, <2>1, Cycles, ModulusLarge
<1>4. CASE out.key = NoKey
  <2>1. out' = out /\ out.packets = {} /\ Protected' = Protected /\ Protected = {}
    BY <1>1, <1>4 DEF OutInv, Protected
  <2>2. index = sequence
    BY <2>1 DEF SrtpIndex
  <2>3. (sent'.key = NoKey \/ sent' = sent) /\ sent'.index \in Int
    BY <1>1, <1>3, <1>4, <2>2 DEF OutInv
  <2> QED BY <1>1, <1>2, <1>3, <1>4, <2>1, <2>3 DEF OutInv
<1>5. CASE out.key # NoKey
  <2>1. /\ index \in Nat /\ \A i \in Protected : i < index
        /\ sequence' = (index + 1) % Modulus
        /\ sent.key # NoKey => sent.index < index
    <3>1. CASE out.packets = {}
      <4>1. Protected = {} /\ index = sequence /\ sent.key = NoKey
        BY <1>2, <3>1 DEF Protected, SrtpIndex, OutInv
      <4> QED BY <1>1, <1>3, <4>1
    <3>2. CASE out.packets # {}
      <4>1. PICK h \in Protected : /\ \A i \in Protected : i <= h
                                   /\ sequence = (h + 1) % Modulus
                                   /\ sent.key # NoKey => sent.index <= h
        BY <3>2 DEF OutInv
      <4>2. index = h + 1 /\ h \in Nat
        BY <1>2, <4>1, NextIndex, Zenon
      <4>3. sequence' = (index + 1) % Modulus
        <5>1. PICK q \in Int, r \in 0..(Modulus - 1) : h + 1 = q * Modulus + r /\ sequence = r
          <6>1. h + 1 \in Int
            BY <4>2
          <6> QED BY <4>1, <6>1, Cycles
        <5>2. CASE r + 1 < Modulus
          <6>1. PICK s \in 0..(Modulus - 1) : s = r + 1
            BY <5>2, ModulusLarge
          <6>2. (q * Modulus + s) % Modulus = s /\ (0 * Modulus + s) % Modulus = s
            BY InCycle
          <6>3. index + 1 = q * Modulus + s /\ sequence + 1 = 0 * Modulus + s
            BY <4>2, <5>1, <6>1, ModulusLarge
          <6> QED BY <1>1, <6>2, <6>3
        <5>3. CASE ~(r + 1 < Modulus)
          <6>1. PICK p \in Int : p = q + 1
            OBVIOUS
          <6>2. 0 \in 0..(Modulus - 1) /\ r + 1 = Modulus
            BY <5>3, ModulusLarge
          <6>3. (p * Modulus + 0) % Modulus = 0 /\ (1 * Modulus + 0) % Modulus = 0
            BY <6>2, InCycle
          <6>4. index + 1 = p * Modulus + 0 /\ sequence + 1 = 1 * Modulus + 0
            BY <4>2, <5>1, <6>1, <6>2, ModulusLarge
          <6> QED BY <1>1, <6>3, <6>4
        <5> QED BY <5>2, <5>3
      <4>4. sent.key # NoKey => sent.index < index
        BY <4>1, <4>2 DEF OutInv
      <4> QED BY <4>1, <4>2, <4>3, <4>4
    <3> QED BY <3>1, <3>2
  <2> HIDE DEF index
  <2>2. size
    BY <2>1, <1>2, MediaAssumption DEF NotReplayed
  <2>3. out' = [out EXCEPT !.packets = @ \cup {<<0, index>>}]
    BY <1>1, <1>5, <2>2
  <2>4. out'.key = out.key /\ out'.packets = out.packets \cup {<<0, index>>}
    BY <2>3 DEF KeyInv, Records
  <2>5. Protected' = Protected \cup {index}
    <3>1. ASSUME NEW i PROVE i \in Protected' <=> i \in Protected \/ i = index
      <4>1. i \in Protected' <=> \E p \in out.packets \cup {<<0, index>>} : i = p[2]
        BY <2>4 DEF Protected
      <4>2. i \in Protected <=> \E p \in out.packets : i = p[2]
        BY DEF Protected
      <4>3. <<0, index>>[2] = index
        OBVIOUS
      <4> QED BY <4>1, <4>2, <4>3, Zenon
    <3> QED BY <3>1, Zenon
  <2>6. sent'.index \in Int /\ (sent'.key # NoKey => sent'.index <= index)
    BY <1>1, <2>1, <2>2 DEF OutInv
  <2>7. OutInv'
    <3>1. Protected' \subseteq Nat /\ index \in Protected' /\ \A i \in Protected' : i <= index
      BY <1>2, <2>1, <2>5
    <3>2. out'.packets # {}
      BY <2>4, Zenon
    <3> QED BY <1>1, <1>2, <1>3, <1>5, <2>1, <2>4, <2>6, <3>1, <3>2 DEF OutInv
  <2> QED BY <1>1, <2>1, <2>7
<1> QED BY <1>4, <1>5

LEMMA OutStep ==
  ASSUME KeyInv, OutInv, [MediaNext]_<<vars, receiveVars>>
  PROVE  /\ OutInv'
         /\ sent' # sent /\ sent'.key # NoKey /\ sent'.key = sent.key => sent'.index > sent.index
<1>1. CASE Signalling
  <2>1. sent' = sent
    BY <1>1, Zenon DEF Signalling, Dial, OnAnswer, Answer, ResendAccept, OnAck, OnReInvite, FarHears, Drop, End,
                FarAnswers, OnInvite, FarReInvites
  <2> QED BY <1>1, <2>1, SignallingOut
<1>2. CASE SendFrame
  BY <1>2, FrameOut
<1>3. CASE UNCHANGED vars \/ \E packet : Unprotect(packet)
  <2>1. UNCHANGED <<out, active, sequence, sent, call>>
    BY <1>3 DEF vars, callVars, mediaVars, Unprotect
  <2> QED BY <2>1, OutKept DEF OutInv
<1> QED BY <1>1, <1>2, <1>3, Zenon DEF MediaNext, MediaStep, FarSends, FarSwitches, ReceivePacket

\* Whatever the numbers drawn, the re-INVITEs and the wraps, two frames protected with one key
\* (SrtpContext::protect in Engine's run loop) never have the same or a falling index.
THEOREM IndexGrows == MediaSpec => OutboundIndexGrows
<1>1. ReceiveInit => KeyInv /\ OutInv
  <2>1. 0 \in 0..(Modulus - 1)
    BY ModulusLarge
  <2>2. ReceiveInit => sequence = 0 /\ out.packets = {} /\ sent.key = NoKey /\ sent.index = -1
    BY DEF ReceiveInit, Init, NoContext, Fresh
  <2>3. ReceiveInit => KeyInv
    BY InitKeys DEF ReceiveInit
  <2> QED BY <2>1, <2>2, <2>3 DEF OutInv, Protected
<1>2. KeyInv /\ OutInv /\ [MediaNext]_<<vars, receiveVars>> => KeyInv' /\ OutInv'
  BY KeyStep, OutStep
<1>3. KeyInv /\ OutInv /\ [MediaNext]_<<vars, receiveVars>> =>
        [sent'.count > sent.count /\ sent'.key # NoKey /\ sent'.key = sent.key => sent'.index > sent.index]_sent
  BY OutStep
<1> QED BY <1>1, <1>2, <1>3, PTL DEF MediaSpec, OutboundIndexGrows

-----------------------------------------------------------------------------
(* The inbound context: what was taken with its key is in its replay       *)
(* window, and the key of an older epoch never comes back.                 *)

TakenInv ==
  config.srtp =>
    /\ far.epoch \in Nat
    /\ \A packet \in DOMAIN taken : taken[packet] = 1
    /\ call \notin {"answering", "up", "over"} => DOMAIN taken = {}
    /\ call = "ringing" => offer.epoch <= far.epoch
    /\ call = "calling" /\ wire.kind = "answer" => wire.description.epoch <= far.epoch
    /\ call \in {"answering", "up"} =>
         /\ in.key[1] \in Nat /\ in.key[1] <= far.epoch
         /\ \A packet \in DOMAIN taken :
              /\ packet.key[1] \in Nat /\ packet.key[1] <= in.key[1]
              /\ packet.key = in.key => <<packet.ssrc, packet.index>> \in in.packets
         /\ wire.kind = "offer" =>
              /\ wire.description.epoch <= far.epoch
              /\ \/ KeyOf(wire.description, FirstTag(wire.description)) = in.key
                 \/ wire.description.epoch > in.key[1]

\* Most steps change neither the inbound context nor the epochs that are announced.
LEMMA TakenKept ==
  ASSUME TakenInv, config' = config, taken' = taken, far'.epoch = far.epoch, in' = in, offer' = offer,
         call' = call \/ (call = "answering" /\ call' = "up"),
         wire' = wire \/ wire'.kind \notin {"offer", "answer"}
  PROVE  TakenInv'
<1>1. KeyOf(wire.description, FirstTag(wire.description))' =
        IF wire' = wire THEN KeyOf(wire.description, FirstTag(wire.description))
        ELSE KeyOf(wire'.description, FirstTag(wire'.description))
  BY DEF KeyOf, FirstTag
<1> QED BY <1>1, Zenon DEF TakenInv

LEMMA TakenOver ==
  ASSUME TakenInv, EndCall, config' = config, taken' = taken, far' = far
  PROVE  TakenInv'
<1>1. call' = "over"
  BY DEF EndCall
<1> QED BY <1>1, Zenon DEF TakenInv

\* A call that is answered starts with the epoch the far end announced.
LEMMA TakenAnswered ==
  ASSUME TakenInv, DOMAIN taken = {}, config' = config, taken' = taken, far' = far, call' \in {"answering", "up"},
         wire'.kind \notin {"offer", "answer"}, NEW epoch \in Nat, NEW tag,
         config.srtp => in'.key = <<epoch, tag>> /\ epoch <= far.epoch
  PROVE  TakenInv'
<1> SUFFICES ASSUME config.srtp PROVE TakenInv'
  BY Zenon DEF TakenInv
<1>1. in'.key[1] = epoch
  OBVIOUS
<1>2. taken' = taken /\ DOMAIN taken' = {}
  OBVIOUS
<1> QED BY <1>1, <1>2, Zenon DEF TakenInv

\* A re-INVITE brings the key that is in use, whose window is kept, or one of a later epoch.
LEMMA TakenReInvited ==
  ASSUME KeyInv, TakenInv, OnReInvite, taken' = taken
  PROVE  TakenInv'
<1>1. /\ UNCHANGED <<config, call, offer, far>> /\ wire.kind = "offer"
      /\ wire'.kind \in {"accept", "refused", "ok"}
  BY DEF OnReInvite, callVars, Accept, Message, KeyInv, Records
<1>2. CASE in' = in
  BY <1>1, <1>2, TakenKept
<1>3. CASE in' # in
  <2> SUFFICES ASSUME config.srtp PROVE TakenInv'
    BY <1>1, Zenon DEF TakenInv
  <2> DEFINE theirs == KeyOf(wire.description, FirstTag(wire.description))
  <2>1. PICK ok \in BOOLEAN : StartMedia(srtpKey, wire.description, theirs, ok) /\ call = "up"
    BY <1>3 DEF OnReInvite, mediaVars
  <2>2. in' = Fresh(theirs) /\ in.key # theirs
    BY <1>3, <2>1 DEF StartMedia, UseKeys, Context
  <2>3. /\ in.key[1] \in Nat /\ wire.description.epoch \in Nat
        /\ wire.description.epoch > in.key[1] /\ wire.description.epoch <= far.epoch
    BY <1>1, <2>1, <2>2, Zenon DEF TakenInv, KeyInv, Answered
  <2>4. in'.key[1] = wire.description.epoch
    BY <2>2 DEF Fresh, KeyOf
  <2>5. ASSUME NEW packet \in DOMAIN taken
        PROVE  packet.key[1] \in Nat /\ packet.key[1] <= in'.key[1] /\ packet.key # in'.key
    <3>1. packet.key[1] \in Nat /\ packet.key[1] <= in.key[1]
      BY <2>1, Zenon DEF TakenInv
    <3>2. packet.key[1] < in'.key[1]
      BY <2>3, <2>4, <3>1
    <3> QED BY <2>3, <2>4, <3>1, <3>2
  <2> HIDE DEF theirs
  <2> QED BY <1>1, <2>1, <2>3, <2>4, <2>5, Zenon DEF TakenInv
<1> QED BY <1>2, <1>3

LEMMA TakenOffered ==
  ASSUME KeyInv, TakenInv, NEW description \in Descriptions, FarReInvites(description), taken' = taken
  PROVE  TakenInv'
<1> SUFFICES ASSUME config.srtp PROVE TakenInv'
  BY Zenon DEF FarReInvites, TakenInv
<1>1. /\ UNCHANGED <<config, call, offer, in>> /\ far.up /\ ~asking /\ wire = Silence
      /\ wire' = Message("offer", description, 0, NoKey)
      /\ description.epoch \in Nat /\ far.epoch \in Nat
  BY MediaAssumption DEF FarReInvites, callVars, mediaVars, Descriptions, TakenInv
<1>2. call \notin {"ringing", "calling"}
  BY <1>1 DEF KeyInv, Before, Silence, Message
<1>3. wire'.kind = "offer" /\ wire'.description = description
  BY <1>1 DEF Message
<1>4. KeyOf(wire.description, FirstTag(wire.description))' = <<description.epoch, FirstTag(description)>>
  BY <1>1, <1>3 DEF KeyOf, FirstTag
<1>5. CASE call \in {"answering", "up"}
  <2>1. in.key = far.sends /\ in.key[1] \in Nat /\ in.key[1] <= far.epoch
    BY <1>1, <1>5, Zenon DEF KeyInv, Answered, TakenInv
  <2>2. \/ /\ <<description.epoch, FirstTag(description)>> = in.key /\ far' = far
        \/ /\ description.epoch = far.epoch + 1 /\ far'.epoch = far.epoch + 1
    BY <2>1 DEF FarReInvites, KeyOf, KeyInv, Records
  <2>3. /\ far'.epoch \in Nat /\ far'.epoch >= far.epoch /\ description.epoch <= far'.epoch
        /\ \/ <<description.epoch, FirstTag(description)>> = in.key
           \/ description.epoch > in.key[1]
    BY <1>1, <2>1, <2>2
  <2>4. in.key[1] <= far'.epoch
    BY <1>1, <2>1, <2>3
  <2> QED BY <1>1, <1>2, <1>3, <1>4, <1>5, <2>1, <2>3, <2>4, Zenon DEF TakenInv
<1>6. CASE call \notin {"answering", "up"}
  <2>1. far'.epoch \in Nat
    BY <1>1 DEF FarReInvites, KeyInv, Records
  <2> QED BY <1>1, <1>2, <1>6, <2>1, Zenon DEF TakenInv
<1> QED BY <1>5, <1>6

\* A packet that authenticates was not taken before.
LEMMA TakenReceived ==
  ASSUME KeyInv, TakenInv, NEW packet \in network, ReceivePacket(packet)
  PROVE  TakenInv'
<1>1. /\ UNCHANGED <<config, call, offer, far, wire>> /\ active
      /\ in' = IF in.key # NoKey /\ Authentic([key |-> packet.key, ssrc |-> packet.ssrc, index |-> packet.index])
               THEN [in EXCEPT !.packets = @ \cup {<<packet.ssrc, packet.index>>}] ELSE in
  BY DEF ReceivePacket, Unprotect, callVars, farVars
<1> SUFFICES ASSUME config.srtp PROVE TakenInv'
  BY <1>1 DEF TakenInv
<1>2. call \in {"answering", "up"}
  BY <1>1 DEF KeyInv, Before
<1>3. in.key # NoKey
  BY <1>2, Zenon DEF KeyInv, Answered
<1>4. Authentic([key |-> packet.key, ssrc |-> packet.ssrc, index |-> packet.index]) <=> Authentic(packet)
  BY DEF Authentic
<1>5. CASE ~Authentic(packet)
  <2>1. in' = in /\ taken' = taken
    BY <1>1, <1>3, <1>4, <1>5 DEF ReceivePacket
  <2> QED BY <1>1, <2>1, TakenKept
<1>6. CASE Authentic(packet)
  <2>1. in'.key = in.key /\ in'.packets = in.packets \cup {<<packet.ssrc, packet.index>>}
    BY <1>1, <1>3, <1>4, <1>6 DEF KeyInv, Records
  <2>2. packet.key = in.key /\ <<packet.ssrc, packet.index>> \notin in.packets
    <3>1. packet.index \notin {p[2] : p \in {q \in in.packets : q[1] = packet.ssrc}} /\ packet.key = in.key
      BY <1>6 DEF Authentic, NotReplayed
    <3>2. <<packet.ssrc, packet.index>>[1] = packet.ssrc /\ <<packet.ssrc, packet.index>>[2] = packet.index
      OBVIOUS
    <3> QED BY <3>1, <3>2, Zenon
  <2>3. packet \notin DOMAIN taken
    BY <1>2, <2>2 DEF TakenInv
  <2>4. taken' = [p \in DOMAIN taken \cup {packet} |->
                    (IF p \in DOMAIN taken THEN taken[p] ELSE 0) + (IF p = packet THEN 1 ELSE 0)]
    BY <1>6 DEF ReceivePacket
  <2>5. DOMAIN taken' = DOMAIN taken \cup {packet} /\ \A p \in DOMAIN taken' : taken'[p] = 1
    <3>1. DOMAIN taken' = DOMAIN taken \cup {packet}
      BY <2>4, Zenon
    <3>2. ASSUME NEW p \in DOMAIN taken' PROVE taken'[p] = 1
      <4>1. taken'[p] = (IF p \in DOMAIN taken THEN taken[p] ELSE 0) + (IF p = packet THEN 1 ELSE 0)
        BY <2>4, <3>1, Zenon
      <4>2. p \in DOMAIN taken => taken[p] = 1
        BY DEF TakenInv
      <4>3. p \notin DOMAIN taken <=> p = packet
        BY <2>3, <3>1
      <4> QED BY <4>1, <4>2, <4>3
    <3> QED BY <3>1, <3>2
  <2>6. KeyOf(wire.description, FirstTag(wire.description))' = KeyOf(wire.description, FirstTag(wire.description))
    BY <1>1 DEF KeyOf, FirstTag
  <2>7. ASSUME NEW p \in DOMAIN taken'
        PROVE  /\ p.key[1] \in Nat /\ p.key[1] <= in'.key[1]
               /\ p.key = in'.key => <<p.ssrc, p.index>> \in in'.packets
    <3>1. CASE p = packet
      BY <1>2, <2>1, <2>2, <3>1 DEF TakenInv
    <3>2. CASE p \in DOMAIN taken
      BY <1>2, <2>1, <3>2 DEF TakenInv
    <3> QED BY <2>5, <3>1, <3>2
  <2> QED BY <1>1, <1>2, <2>1, <2>5, <2>6, <2>7 DEF TakenInv
<1> QED BY <1>5, <1>6

LEMMA TakenStep ==
  ASSUME KeyInv, TakenInv, [MediaNext]_<<vars, receiveVars>>
  PROVE  TakenInv'
<1>1. ASSUME Signalling, taken' = taken PROVE TakenInv'
  <2>0. config' = config
    BY <1>1, Zenon DEF Signalling, Dial, OnAnswer, Answer, ResendAccept, OnAck, OnReInvite, FarHears, Drop, End,
                FarAnswers, OnInvite, FarReInvites
  <2>1. ASSUME EndCall, far' = far PROVE TakenInv'
    BY <1>1, <2>0, <2>1, TakenOver
  <2>2. CASE Dial
    <3>1. CASE ~EndCall
      <4>1. call = "none" /\ call' = "calling" /\ UNCHANGED <<far, wire>>
        BY <2>2, <3>1 DEF Dial, farVars
      <4>2. wire'.kind = "silence"
        BY <4>1 DEF KeyInv, Before, Silence, Message
      <4> QED BY <1>1, <2>0, <4>1, <4>2, Zenon DEF TakenInv
    <3> QED BY <2>1, <2>2, <3>1 DEF Dial, farVars
  <2>3. CASE OnAnswer
    <3>1. CASE ~EndCall
      <4>1. /\ StartMedia(srtpKey, wire.description, KeyOf(wire.description, OfferTag), TRUE)
            /\ call = "calling" /\ call' = "up" /\ wire.kind = "answer" /\ wire' = Silence /\ far' = far
        BY <2>3, <3>1, Zenon DEF OnAnswer
      <4>2. wire.description.epoch \in Nat \ {0} /\ srtpKey = NewKey
        BY <4>1 DEF KeyInv, Before, Silence, Message
      <4>3. in'.key = KeyOf(wire.description, OfferTag)
        <5>1. ~config.srtp => srtpKey = NoKey /\ KeyOf(wire.description, OfferTag) = NoKey
          BY <4>2 DEF NewKey, KeyOf
        <5> QED BY <4>1, <5>1, Started, Zenon DEF KeyInv
      <4>4. config.srtp => in'.key = <<wire.description.epoch, OfferTag>> /\ wire.description.epoch <= far.epoch
                           /\ DOMAIN taken = {}
        BY <4>1, <4>3, Zenon DEF KeyOf, TakenInv
      <4>5. wire'.kind = "silence"
        BY <4>1 DEF Silence, Message
      <4>6. CASE config.srtp
        BY <1>1, <2>0, <4>1, <4>2, <4>4, <4>5, <4>6, TakenAnswered
      <4> QED BY <2>0, <4>6, Zenon DEF TakenInv
    <3> QED BY <2>1, <2>3, <3>1 DEF OnAnswer
  <2>4. CASE Answer
    <3>1. CASE ~EndCall
      <4>1. /\ StartMedia(NewKey, offer, KeyOf(offer, FirstTag(offer)), TRUE)
            /\ call = "ringing" /\ call' = "answering" /\ far' = far
            /\ wire' = Message("accept", offer, AnswerTag(offer), NewKey)
        BY <2>4, <3>1, Zenon DEF Answer
      <4>2. offer.epoch \in Nat \ {0}
        BY <4>1 DEF KeyInv, Before
      <4>3. in'.key = KeyOf(offer, FirstTag(offer))
        <5>1. ~config.srtp => NewKey = NoKey /\ KeyOf(offer, FirstTag(offer)) = NoKey
          BY DEF NewKey, KeyOf
        <5> QED BY <4>1, <5>1, Started, Zenon DEF KeyInv
      <4>4. config.srtp => in'.key = <<offer.epoch, FirstTag(offer)>> /\ offer.epoch <= far.epoch /\ DOMAIN taken = {}
        BY <4>1, <4>3, Zenon DEF KeyOf, TakenInv
      <4>5. wire'.kind = "accept"
        BY <4>1 DEF Message
      <4>6. CASE config.srtp
        BY <1>1, <2>0, <4>1, <4>2, <4>4, <4>5, <4>6, TakenAnswered, Zenon
      <4> QED BY <2>0, <4>6, Zenon DEF TakenInv
    <3> QED BY <2>1, <2>4, <3>1 DEF Answer
  <2>5. CASE ResendAccept
    BY <1>1, <2>0, <2>5, TakenKept DEF ResendAccept, Accept, Message, callVars, mediaVars
  <2>6. CASE OnAck
    BY <1>1, <2>0, <2>6, TakenKept DEF OnAck, Silence, Message, mediaVars
  <2>7. CASE OnReInvite
    BY <1>1, <2>7, TakenReInvited
  <2>8. CASE FarHears
    <3>1. UNCHANGED <<call, offer, in>> /\ wire'.kind \in {"ack", "silence"} /\ far'.epoch = far.epoch
      <4>1. UNCHANGED <<call, offer, in>>
        BY <2>8 DEF FarHears, callVars, mediaVars
      <4>2. wire' = Silence \/ wire' = [Silence EXCEPT !.kind = "ack"]
        BY <2>8 DEF FarHears
      <4>3. wire'.kind \in {"ack", "silence"}
        BY <4>2 DEF Silence, Message
      <4>4. far' = far \/ \E sends, hears : \/ far' = [far EXCEPT !.up = TRUE, !.sends = sends, !.hears = hears]
                                           \/ far' = [far EXCEPT !.sends = sends, !.hears = hears]
        BY <2>8, Zenon DEF FarHears
      <4>5. far'.epoch = far.epoch
        BY <4>4, Zenon DEF KeyInv, Records
      <4> QED BY <4>1, <4>3, <4>5
    <3> QED BY <1>1, <2>0, <3>1, TakenKept
  <2>9. CASE Drop
    <3>1. CASE call # "calling"
      BY <1>1, <2>0, <2>9, <3>1, TakenKept DEF Drop, Silence, Message, callVars, mediaVars
    <3> QED BY <2>1, <2>9, <3>1 DEF Drop
  <2>10. CASE End
    BY <2>1, <2>10 DEF End, farVars
  <2>11. ASSUME NEW description \in Descriptions, FarAnswers(description) PROVE TakenInv'
    <3>1. /\ call = "calling" /\ UNCHANGED <<call, offer, in>> /\ far'.epoch = far.epoch
          /\ wire'.description = description /\ description.epoch = far.epoch
      BY <2>11 DEF FarAnswers, Message, callVars, mediaVars, KeyInv, Records
    <3>2. config.srtp => /\ far.epoch \in Nat /\ DOMAIN taken = {}
                         /\ \A packet \in DOMAIN taken : taken[packet] = 1
      BY <3>1, Zenon DEF TakenInv
    <3>3. wire'.description.epoch = far'.epoch /\ call' = "calling"
      BY <3>1
    <3>4. config.srtp => wire'.description.epoch <= far'.epoch
      BY <3>1, <3>2, <3>3
    <3> QED BY <1>1, <2>0, <3>1, <3>2, <3>3, <3>4, Zenon DEF TakenInv
  <2>12. ASSUME NEW description \in Descriptions, OnInvite(description) PROVE TakenInv'
    <3>1. CASE ~EndCall
      <4>1. /\ call = "none" /\ call' = "ringing" /\ offer' = description /\ UNCHANGED <<far, wire>>
            /\ description.epoch = far.epoch
        BY <2>12, <3>1 DEF OnInvite, farVars
      <4>2. config.srtp => /\ far.epoch \in Nat /\ DOMAIN taken = {}
                           /\ \A packet \in DOMAIN taken : taken[packet] = 1
        BY <4>1, Zenon DEF TakenInv
      <4>3. config.srtp => offer'.epoch <= far'.epoch
        BY <4>1, <4>2
      <4> QED BY <1>1, <2>0, <4>1, <4>2, <4>3, Zenon DEF TakenInv
    <3> QED BY <2>1, <2>12, <3>1 DEF OnInvite, farVars
  <2>13. ASSUME NEW description \in Descriptions, FarReInvites(description) PROVE TakenInv'
    BY <1>1, <2>13, TakenOffered
  <2> QED BY <1>1, <2>2, <2>3, <2>4, <2>5, <2>6, <2>7, <2>8, <2>9, <2>10, <2>11, <2>12, <2>13 DEF Signalling
<1>2. ASSUME UNCHANGED <<config, call, offer, in, far, wire, taken>> PROVE TakenInv'
  BY <1>2, TakenKept
<1>3. CASE MediaStep
  BY <1>1, <1>2, <1>3 DEF MediaStep, SendFrame, callVars, farVars
<1>4. CASE (\E pcma \in BOOLEAN : FarSends(pcma)) \/ FarSwitches \/ UNCHANGED <<vars, receiveVars>>
  BY <1>2, <1>4, Zenon DEF FarSends, FarSwitches, vars, receiveVars, callVars, farVars, mediaVars
<1>5. ASSUME NEW packet \in network, ReceivePacket(packet) PROVE TakenInv'
  BY <1>5, TakenReceived
<1> QED BY <1>3, <1>4, <1>5 DEF MediaNext

\* For every schedule of duplicates, delays and re-INVITEs, with SRTP no packet reaches
\* MediaSession::on_packet twice (SrtpContext::unprotect, Engine::use_keys).
THEOREM PacketsTakenOnce == MediaSpec => []TakenOnce
<1>1. ReceiveInit => KeyInv /\ TakenInv
  <2> SUFFICES ASSUME ReceiveInit PROVE KeyInv /\ TakenInv
    OBVIOUS
  <2>1. DOMAIN taken = {} /\ call = "none" /\ far.epoch = 1
    BY DEF ReceiveInit, Init
  <2> QED BY <2>1, InitKeys DEF ReceiveInit, TakenInv
<1>2. KeyInv /\ TakenInv /\ [MediaNext]_<<vars, receiveVars>> => KeyInv' /\ TakenInv'
  BY KeyStep, TakenStep
<1>3. TakenInv => TakenOnce
  BY DEF TakenInv, TakenOnce
<1> QED BY <1>1, <1>2, <1>3, PTL DEF MediaSpec

-----------------------------------------------------------------------------
(* The numbers of the far end: a source sends without gaps but for its     *)
(* restarts, which leave more than MaxDropout out.                         *)

SentBy(ssrc) == {p.number : p \in {q \in network : q.ssrc = ssrc}}

SourceInv ==
  /\ source = [ssrc |-> source.ssrc, index |-> source.index, key |-> source.key, counter |-> source.counter]
  /\ source.index \in Nat
  /\ \A p \in network : p.number \in Nat
  /\ \A i \in SentBy(source.ssrc) :
       /\ i < source.index
       /\ source.index - i <= MaxDropout => i..(source.index - 1) \subseteq SentBy(source.ssrc)
  /\ \A p, q \in network : p.ssrc = q.ssrc /\ q.number - p.number <= MaxDropout =>
       p.number..q.number \subseteq SentBy(p.ssrc)

\* The statistics: extended numbers are the sent ones moved by whole cycles, and everything from the
\* base to the highest was sent.
Places(shift, first, last) ==
  /\ shift % Modulus = 0
  /\ receive.base = first + shift /\ receive.highest = last + shift
  /\ \A a \in placed : a[1] \in Int /\ a[2] = a[1] + shift
  /\ first \in counted /\ last \in counted /\ \A i \in counted : i <= last
  /\ first <= last /\ first..last \subseteq SentBy(receive.ssrc)

StatisticsInv ==
  /\ receive = [ssrc |-> receive.ssrc, started |-> receive.started, base |-> receive.base,
                highest |-> receive.highest, received |-> receive.received]
  /\ receive.started \in BOOLEAN /\ receive.received \in Nat
  /\ IsFiniteSet(counted) /\ Cardinality(counted) <= receive.received
  /\ ~receive.started => placed = {} /\ counted = {}
  /\ receive.started => \E shift, first, last \in Int : Places(shift, first, last)
  /\ counted \subseteq SentBy(receive.ssrc)

\* Packets of the far end: the next number, another source, or a restart.
LEMMA SourceSends ==
  ASSUME SourceInv, NEW pcma \in BOOLEAN, FarSends(pcma)
  PROVE  /\ SourceInv' /\ \A ssrc : SentBy(ssrc) \subseteq SentBy(ssrc)'
<1>1. PICK packet : /\ packet.ssrc = source.ssrc /\ packet.number = source.index
                    /\ network' = network \cup {packet}
                    /\ source'.ssrc = source.ssrc /\ source'.index = source.index + 1
                    /\ source' = [ssrc |-> source'.ssrc, index |-> source'.index, key |-> source'.key,
                                  counter |-> source'.counter]
  <2>1. PICK counter : /\ network' = network \cup {[key |-> far.sends, ssrc |-> source.ssrc, number |-> source.index,
                                                    index |-> source.index - counter, pcma |-> pcma]}
                       /\ source' = [source EXCEPT !.index = @ + 1, !.key = far.sends, !.counter = counter]
    BY Zenon DEF FarSends
  <2>2. PICK packet : packet = [key |-> far.sends, ssrc |-> source.ssrc, number |-> source.index,
                                index |-> source.index - counter, pcma |-> pcma]
    BY Zenon
  <2>3. packet.ssrc = source.ssrc /\ packet.number = source.index
    BY <2>2
  <2>4. /\ source'.ssrc = source.ssrc /\ source'.index = source.index + 1
        /\ source' = [ssrc |-> source'.ssrc, index |-> source'.index, key |-> source'.key,
                      counter |-> source'.counter]
    BY <2>1, Zenon DEF SourceInv
  <2> QED BY <2>1, <2>2, <2>3, <2>4, Zenon
<1>2. PICK n \in Nat, s \in {source.ssrc} : n = source.index /\ s = source.ssrc
  BY DEF SourceInv
<1>3. ASSUME NEW ssrc, NEW i
      PROVE  i \in SentBy(ssrc)' <=> i \in SentBy(ssrc) \/ (i = n /\ ssrc = s)
  BY <1>1, <1>2 DEF SentBy
<1>4. ASSUME NEW i \in SentBy(s)
      PROVE  /\ i \in Nat /\ i < n
             /\ n - i <= MaxDropout => i..(n - 1) \subseteq SentBy(s)
  <2>1. i \in Nat
    BY DEF SentBy, SourceInv
  <2> QED BY <1>2, <2>1 DEF SourceInv
<1>5. ASSUME NEW i \in SentBy(s)'
      PROVE  i < n + 1 /\ (n + 1 - i <= MaxDropout => i..n \subseteq SentBy(s)')
  <2>1. CASE i \in SentBy(s)
    <3>1. i < n + 1 /\ i \in Nat
      BY <1>4, <2>1
    <3>2. ASSUME n + 1 - i <= MaxDropout, NEW j \in i..n PROVE j \in SentBy(s)'
      <4>1. n - i <= MaxDropout
        BY <3>1, <3>2, ReceiveAssumption
      <4>2. j \in i..(n - 1) \/ j = n
        BY <3>1
      <4> QED BY <1>3, <1>4, <2>1, <4>1, <4>2
    <3> QED BY <3>1, <3>2
  <2>2. CASE i = n
    <3>1. i..n = {n}
      BY <2>2
    <3> QED BY <1>3, <2>2, <3>1
  <2> QED BY <1>3, <2>1, <2>2
<1>6. ASSUME NEW p \in network', NEW q \in network', p.ssrc = q.ssrc, q.number - p.number <= MaxDropout
      PROVE  p.number..q.number \subseteq SentBy(p.ssrc)'
  <2>1. CASE p \in network /\ q \in network
    BY <1>3, <1>6, <2>1 DEF SourceInv
  <2>2. CASE p \in network /\ q = packet
    <3>1. p.number \in SentBy(s) /\ q.number = n /\ p.ssrc = s
      BY <1>1, <1>2, <1>6, <2>2 DEF SentBy
    <3>2. p.number \in Nat /\ n - p.number <= MaxDropout
      BY <1>4, <1>6, <3>1
    <3>3. ASSUME NEW j \in p.number..n PROVE j \in SentBy(s)'
      <4>1. j \in p.number..(n - 1) \/ j = n
        BY <3>2
      <4> QED BY <1>3, <1>4, <3>1, <3>2, <4>1
    <3> QED BY <3>1, <3>3
  <2>3. CASE p = packet /\ q \in network
    <3>1. q.number \in SentBy(s) /\ p.number = n
      BY <1>1, <1>2, <1>6, <2>3 DEF SentBy
    <3>2. q.number \in Nat /\ q.number < n
      BY <1>4, <3>1
    <3>3. p.number..q.number = {}
      BY <3>1, <3>2
    <3> QED BY <3>3
  <2>4. CASE p = packet /\ q = packet
    <3>1. p.number..q.number = {n} /\ p.ssrc = s
      BY <1>1, <1>2, <2>4
    <3> QED BY <1>3, <3>1
  <2> QED BY <1>1, <2>1, <2>2, <2>3, <2>4
<1>7. \A p \in network' : p.number \in Nat
  BY <1>1, <1>2 DEF SourceInv
<1>8. source'.index = n + 1 /\ n + 1 \in Nat /\ source'.ssrc = s
  BY <1>1, <1>2
<1>9. SentBy(source.ssrc)' = SentBy(s)'
  BY <1>8 DEF SentBy
<1>10. \A ssrc : SentBy(ssrc) \subseteq SentBy(ssrc)'
  BY <1>3
<1>11. ASSUME NEW i \in SentBy(source.ssrc)'
       PROVE  /\ i < source'.index
              /\ source'.index - i <= MaxDropout => i..(source'.index - 1) \subseteq SentBy(source.ssrc)'
  <2>1. i < n + 1 /\ (n + 1 - i <= MaxDropout => i..n \subseteq SentBy(s)')
    BY <1>5, <1>9, Zenon
  <2>2. PICK m \in Nat : m = source'.index /\ m = n + 1
    BY <1>8
  <2>3. i < m /\ (m - i <= MaxDropout => i..(m - 1) \subseteq SentBy(source.ssrc)')
    <3>1. i \in Nat
      BY <1>7 DEF SentBy
    <3>2. m - i = n + 1 - i /\ m - 1 = n /\ i < m
      BY <2>1, <2>2, <3>1
    <3> QED BY <1>9, <2>1, <3>2, Zenon
  <2> QED BY <2>2, <2>3, Zenon
<1>12. \A p, q \in network' : p.ssrc = q.ssrc /\ q.number - p.number <= MaxDropout =>
         p.number..q.number \subseteq SentBy(p.ssrc)'
  BY <1>6
<1>13. source'.index \in Nat
  BY <1>8
<1> QED BY <1>1, <1>7, <1>10, <1>11, <1>12, <1>13, Zenon DEF SourceInv

LEMMA SourceSwitches ==
  ASSUME SourceInv, FarSwitches
  PROVE  SourceInv'
<1>1. network' = network /\ \A ssrc : SentBy(ssrc)' = SentBy(ssrc)
  BY Zenon DEF FarSwitches, SentBy
<1>2. ASSUME NEW ssrc \in Sources, NEW start \in Starts, \A packet \in network : packet.ssrc # ssrc,
             source' = [source EXCEPT !.ssrc = ssrc, !.index = start, !.key = NoKey]
      PROVE  SourceInv'
  <2>1. SentBy(source'.ssrc) = {} /\ SentBy(source.ssrc)' = {}
    BY <1>1, <1>2 DEF SourceInv, SentBy
  <2>2. start \in Nat
    BY MediaAssumption
  <2> QED BY <1>1, <1>2, <2>1, <2>2, Zenon DEF SourceInv
<1>3. ASSUME source' = [source EXCEPT !.index = @ + Jump]
      PROVE  SourceInv'
  <2>1. /\ source'.ssrc = source.ssrc /\ source'.index = source.index + Jump
        /\ source' = [ssrc |-> source'.ssrc, index |-> source'.index, key |-> source'.key,
                      counter |-> source'.counter]
    BY <1>3, Zenon DEF SourceInv
  <2>2. SentBy(source.ssrc)' = SentBy(source.ssrc)
    BY <1>1, <2>1 DEF SentBy
  <2>3. ASSUME NEW i \in SentBy(source.ssrc)
        PROVE  i < source'.index /\ ~(source'.index - i <= MaxDropout)
    <3>1. i \in Nat /\ source.index \in Nat
      BY DEF SentBy, SourceInv
    <3>2. i < source.index
      BY DEF SourceInv
    <3> QED BY <2>1, <3>1, <3>2, ReceiveAssumption
  <2>4. source'.index \in Nat
    BY <2>1, ReceiveAssumption DEF SourceInv
  <2> QED BY <1>1, <2>1, <2>2, <2>3, <2>4, Zenon DEF SourceInv
<1> QED BY <1>2, <1>3, Zenon DEF FarSwitches

LEMMA SourceStep ==
  ASSUME SourceInv, [MediaNext]_<<vars, receiveVars>>
  PROVE  SourceInv'
<1>1. CASE UNCHANGED <<source, network>>
  BY <1>1 DEF SourceInv, SentBy
<1> QED BY <1>1, SourceSends, SourceSwitches, Zenon DEF MediaNext, MediaStep, ReceivePacket, receiveVars

\* The 16 bits on the wire are enough: the extended number is the one that was meant, as long as it
\* is within half a cycle of the highest.
LEMMA ExtendedIs ==
  ASSUME NEW h \in Int, NEW x \in Int, 2 * (x - h) < Modulus, 2 * (h - x) < Modulus
  PROVE  Extended(h, x % Modulus) = x
<1>1. PICK q \in Int, r \in 0..(Modulus - 1) : h = q * Modulus + r /\ h \div Modulus = q
  BY Cycles, Zenon
<1>2. PICK p \in Int, s \in 0..(Modulus - 1) : x = p * Modulus + s /\ x % Modulus = s
  BY Cycles, Zenon
<1>3. PICK whole \in Int : whole = q * Modulus
  BY ModulusLarge
<1>4. PICK d \in Int : d = p - q
  OBVIOUS
<1>5. p * Modulus = whole + d * Modulus
  BY <1>3, <1>4, ModulusLarge
<1>6. d \in {-1, 0, 1}
  <2>1. d >= 2 => d * Modulus >= 2 * Modulus
    BY ModulusLarge
  <2>2. d <= -2 => d * Modulus <= -2 * Modulus
    BY ModulusLarge
  <2>3. PICK e \in Int : e = d * Modulus /\ x - h = e + s - r
    BY <1>1, <1>2, <1>3, <1>5, ModulusLarge
  <2> QED BY <2>1, <2>2, <2>3, ModulusLarge
<1>7. PICK half \in Nat : half = Modulus \div 2 /\ (Modulus = 2 * half \/ Modulus = 2 * half + 1)
  BY ModulusLarge
<1>8. Extended(h, x % Modulus) =
        LET extended == whole + s
        IN IF extended - h > half THEN extended - Modulus
           ELSE IF h - extended > half THEN extended + Modulus ELSE extended
  BY <1>1, <1>2, <1>3, <1>7 DEF Extended
<1>9. CASE d = 0
  <2>1. x = whole + s
    BY <1>2, <1>5, <1>9, ModulusLarge
  <2> QED BY <1>7, <1>8, <2>1, ModulusLarge
<1>10. CASE d = 1
  <2>1. x = whole + s + Modulus
    BY <1>2, <1>5, <1>10, ModulusLarge
  <2> QED BY <1>7, <1>8, <2>1, ModulusLarge
<1>11. CASE d = -1
  <2>1. x = whole + s - Modulus
    BY <1>2, <1>5, <1>11, ModulusLarge
  <2> QED BY <1>7, <1>8, <2>1, ModulusLarge
<1> QED BY <1>6, <1>9, <1>10, <1>11

\* A shift by whole cycles is not seen in the 16 bits.
LEMMA WholeCycles ==
  ASSUME NEW n \in Int, NEW shift \in Int, shift % Modulus = 0
  PROVE  (n + shift) % Modulus = n % Modulus
<1>1. PICK q \in Int : shift = q * Modulus + 0
  BY Cycles
<1>2. PICK p \in Int, s \in 0..(Modulus - 1) : n = p * Modulus + s /\ n % Modulus = s
  BY Cycles
<1>3. PICK m \in Int : m = p + q
  OBVIOUS
<1>4. n + shift = m * Modulus + s
  BY <1>1, <1>2, <1>3, ModulusLarge
<1> QED BY <1>2, <1>4, InCycle

LEMMA FirstShift ==
  ASSUME NEW n \in Nat
  PROVE  (n % Modulus) - n \in Int /\ ((n % Modulus) - n) % Modulus = 0
<1>1. PICK p \in Int, s \in 0..(Modulus - 1) : n = p * Modulus + s /\ n % Modulus = s
  BY Cycles
<1>2. PICK m \in Int : m = -p
  OBVIOUS
<1>3. s - n = m * Modulus + 0 /\ 0 \in 0..(Modulus - 1)
  BY <1>1, <1>2, ModulusLarge
<1> QED BY <1>1, <1>3, InCycle

\* The first packet of a source.
LEMMA FirstPacket ==
  ASSUME StatisticsInv, SourceInv, NEW packet \in network, packet.pcma, OnPacket(packet), network' = network,
         ~(receive.started /\ receive.ssrc = packet.ssrc)
  PROVE  StatisticsInv'
<1>1. PICK n \in Nat : n = packet.number
  BY DEF SourceInv
<1>2. PICK r \in Int : r = n % Modulus /\ r - n \in Int /\ (r - n) % Modulus = 0
  <2>1. n % Modulus \in Int
    BY Cycles, ModulusLarge
  <2> QED BY <2>1, FirstShift, Zenon
<1>3. receive' = [ssrc |-> packet.ssrc, started |-> TRUE, base |-> r, highest |-> r, received |-> 1]
  BY <1>1, <1>2, Zenon DEF OnPacket
<1>4. receive.ssrc = packet.ssrc => placed = {} /\ counted = {}
  BY DEF StatisticsInv
<1>5. placed' = {<<n, r>>} /\ counted' = {n}
  BY <1>1, <1>2, <1>4, Zenon DEF OnPacket
<1>6. n \in SentBy(packet.ssrc)' /\ SentBy(receive.ssrc)' = SentBy(packet.ssrc)'
  BY <1>1, <1>3, Zenon DEF SentBy
<1>7. PICK shift \in Int : shift = r - n
  BY <1>2
<1>8. Places(shift, n, n)'
  <2>1. r = n + shift /\ n..n = {n} /\ shift % Modulus = 0
    BY <1>2, <1>7
  <2>2. \A a \in placed' : a[1] \in Int /\ a[2] = a[1] + shift
    BY <1>5, <2>1
  <2>3. receive'.base = n + shift /\ receive'.highest = n + shift
    BY <1>3, <2>1
  <2>4. n \in counted' /\ \A i \in counted' : i <= n
    BY <1>5
  <2>5. n <= n /\ n..n \subseteq SentBy(receive.ssrc)'
    BY <1>6, <2>1
  <2> QED BY <2>1, <2>2, <2>3, <2>4, <2>5, Zenon DEF Places
<1>9. IsFiniteSet(counted') /\ Cardinality(counted') = 1
  BY <1>5, FS_Singleton, Zenon
<1>10. \E a, b, c \in Int : Places(a, b, c)'
  BY <1>8
<1> QED BY <1>3, <1>5, <1>6, <1>9, <1>10 DEF StatisticsInv

\* A later one is placed where it was sent, whether it counts on or starts afresh.
LEMMA LaterPacket ==
  ASSUME StatisticsInv, SourceInv, NEW packet \in network, packet.pcma, InReach(packet), OnPacket(packet),
         network' = network, receive.started, receive.ssrc = packet.ssrc
  PROVE  StatisticsInv'
<1>1. PICK n \in Nat : n = packet.number
  BY DEF SourceInv
<1>2. PICK shift \in Int, first \in Int, last \in Int : Places(shift, first, last)
  BY DEF StatisticsInv
<1>3. PICK s : s = receive.ssrc
  OBVIOUS
<1>4. counted \subseteq SentBy(s) /\ SentBy(s) \subseteq Nat /\ n \in SentBy(s) /\ last \in counted
  BY <1>1, <1>2, <1>3, Zenon DEF StatisticsInv, SourceInv, SentBy, Places
<1>5. PICK p \in network : p.ssrc = s /\ p.number = last
  BY <1>4 DEF SentBy
<1>6. last \in Nat
  BY <1>4
<1>7. n - last <= MaxDropout => last..n \subseteq SentBy(s)
  BY <1>1, <1>3, <1>5 DEF SourceInv
<1>8. Highest(counted) = last
  BY <1>2, <1>4, HighestIs, Zenon DEF Places
<1>9. Extended(receive.highest, packet.number % Modulus) = n + shift
  <2>1. PICK h \in Int, x \in Int : h = last + shift /\ x = n + shift
    BY <1>6
  <2>2. 2 * (x - h) < Modulus /\ 2 * (h - x) < Modulus
    <3>1. 2 * (n - last) \in (1 - Modulus)..(Modulus - 1)
      BY <1>1, <1>4, <1>8, Zenon DEF InReach
    <3> QED BY <1>6, <2>1, <3>1, ModulusLarge
  <2>3. receive.highest = h /\ packet.number % Modulus = x % Modulus
    <3>1. x % Modulus = n % Modulus
      BY <1>2, <2>1, WholeCycles DEF Places
    <3> QED BY <1>1, <1>2, <2>1, <3>1 DEF Places
  <2> QED BY <2>1, <2>2, <2>3, ExtendedIs
<1>10. receive' = Counted(receive, n + shift) /\ placed' = placed \cup {<<n, n + shift>>}
  BY <1>1, <1>9, Zenon DEF OnPacket
<1>11. counted' = (IF n - last \in -MaxDropout..MaxDropout THEN counted ELSE {}) \cup {n}
  <2>1. (\E i \in counted : i = Highest(counted) /\ packet.number - i \in -MaxDropout..MaxDropout) <=>
          n - last \in -MaxDropout..MaxDropout
    BY <1>1, <1>4, <1>8
  <2> QED BY <1>1, <2>1, Zenon DEF OnPacket
<1>12. receive.highest = last + shift /\ receive.base = first + shift /\ (n + shift) - (last + shift) = n - last
  BY <1>2, <1>6 DEF Places
<1>13. \A a \in placed' : a[1] \in Int /\ a[2] = a[1] + shift
  <2>1. \A a \in placed : a[1] \in Int /\ a[2] = a[1] + shift
    BY <1>2 DEF Places
  <2>2. <<n, n + shift>>[1] \in Int /\ <<n, n + shift>>[2] = <<n, n + shift>>[1] + shift
    OBVIOUS
  <2> QED BY <1>10, <2>1, <2>2, Zenon
<1>14. SentBy(s)' = SentBy(s) /\ shift % Modulus = 0
  BY <1>2 DEF SentBy, Places
<1>15. CASE n - last \in -MaxDropout..MaxDropout
  <2>1. PICK top \in Nat : top = IF n > last THEN n ELSE last
    BY <1>6
  <2>2. receive' = [receive EXCEPT !.highest = top + shift, !.received = @ + 1]
    <3>1. (n + shift) - receive.highest \in -MaxDropout..MaxDropout
      BY <1>12, <1>15
    <3>2. receive' = [receive EXCEPT !.highest = IF n + shift > @ THEN n + shift ELSE @, !.received = @ + 1]
      BY <1>10, <3>1, Zenon DEF Counted
    <3>3. (IF n + shift > receive.highest THEN n + shift ELSE receive.highest) = top + shift
      BY <1>6, <1>12, <2>1
    <3> QED BY <3>2, <3>3, Zenon
  <2>3. /\ receive'.ssrc = s /\ receive'.started /\ receive'.base = first + shift /\ receive'.highest = top + shift
        /\ receive'.received = receive.received + 1
        /\ receive' = [ssrc |-> receive'.ssrc, started |-> receive'.started, base |-> receive'.base,
                       highest |-> receive'.highest, received |-> receive'.received]
    BY <1>3, <1>12, <2>2, Zenon DEF StatisticsInv
  <2>4. counted' = counted \cup {n}
    BY <1>11, <1>15
  <2>5. IsFiniteSet(counted') /\ Cardinality(counted') <= receive'.received /\ receive'.received \in Nat
    <3>1. IsFiniteSet(counted) /\ Cardinality(counted) \in Nat /\ Cardinality(counted) <= receive.received
          /\ receive.received \in Nat
      BY FS_CardinalityType DEF StatisticsInv
    <3>2. IsFiniteSet(counted') /\ (Cardinality(counted') = Cardinality(counted) \/ Cardinality(counted') = Cardinality(counted) + 1)
      BY <2>4, <3>1, FS_AddElement
    <3> QED BY <2>3, <3>1, <3>2
  <2>6. counted' \subseteq SentBy(s)
    BY <1>4, <2>4
  <2>7. SentBy(receive.ssrc)' = SentBy(s)
    BY <1>14, <2>3 DEF SentBy
  <2>8. Places(shift, first, top)'
    <3>1. first <= last /\ first..last \subseteq SentBy(s) /\ first \in counted /\ \A i \in counted : i <= last
      BY <1>2, <1>3 DEF Places
    <3>2. first \in counted' /\ top \in counted' /\ \A i \in counted' : i <= top
      BY <1>4, <1>6, <2>1, <2>4, <3>1
    <3>3. first <= top /\ first..top \subseteq SentBy(s)
      <4>1. CASE n > last
        <5>1. n - last <= MaxDropout
          BY <1>6, <1>15, ReceiveAssumption
        <5>2. \A j \in first..n : j \in first..last \/ j \in last..n
          BY <1>6
        <5> QED BY <1>6, <1>7, <2>1, <3>1, <4>1, <5>1, <5>2
      <4>2. CASE ~(n > last)
        BY <1>6, <2>1, <3>1, <4>2
      <4> QED BY <4>1, <4>2
    <3> QED BY <1>13, <1>14, <2>3, <2>7, <3>2, <3>3 DEF Places
  <2>9. \E a, b, c \in Int : Places(a, b, c)'
    BY <2>8
  <2> QED BY <2>3, <2>5, <2>6, <2>7, <2>9 DEF StatisticsInv
<1>16. CASE n - last \notin -MaxDropout..MaxDropout
  <2>1. receive' = [receive EXCEPT !.base = n + shift, !.highest = n + shift, !.received = 1]
    BY <1>10, <1>12, <1>16 DEF Counted
  <2>2. /\ receive'.ssrc = s /\ receive'.started /\ receive'.base = n + shift /\ receive'.highest = n + shift
        /\ receive'.received = 1
        /\ receive' = [ssrc |-> receive'.ssrc, started |-> receive'.started, base |-> receive'.base,
                       highest |-> receive'.highest, received |-> receive'.received]
    BY <1>3, <2>1, Zenon DEF StatisticsInv
  <2>3. counted' = {n} /\ IsFiniteSet(counted') /\ Cardinality(counted') = 1
    <3>1. counted' = {n}
      BY <1>11, <1>16
    <3> QED BY <3>1, FS_Singleton, Zenon
  <2>4. SentBy(receive.ssrc)' = SentBy(s)
    BY <1>14, <2>2 DEF SentBy
  <2>5. Places(shift, n, n)'
    <3>1. n..n = {n}
      OBVIOUS
    <3>2. n \in counted' /\ \A i \in counted' : i <= n
      BY <2>3
    <3>3. n <= n /\ n..n \subseteq SentBy(receive.ssrc)'
      BY <1>4, <2>4, <3>1
    <3> QED BY <1>13, <1>14, <2>2, <3>2, <3>3, Zenon DEF Places
  <2>6. \E a, b, c \in Int : Places(a, b, c)'
    BY <2>5
  <2>7. counted' \subseteq SentBy(receive.ssrc)' /\ 1 \in Nat /\ 1 <= 1
    BY <1>4, <2>3, <2>4
  <2> QED BY <2>2, <2>3, <2>6, <2>7, Zenon DEF StatisticsInv
<1> QED BY <1>15, <1>16

LEMMA StatisticsStep ==
  ASSUME SourceInv, StatisticsInv, [MediaNext]_<<vars, receiveVars>>
  PROVE  StatisticsInv'
<1>1. ASSUME UNCHANGED <<receive, placed, counted>>, \A ssrc : SentBy(ssrc) \subseteq SentBy(ssrc)'
      PROVE  StatisticsInv'
  <2>1. SentBy(receive.ssrc) \subseteq SentBy(receive.ssrc)'
    BY <1>1 DEF SentBy
  <2>2. ASSUME NEW shift \in Int, NEW first \in Int, NEW last \in Int, Places(shift, first, last)
        PROVE  Places(shift, first, last)'
    BY <1>1, <2>1, <2>2 DEF Places
  <2>3. receive.started => \E a, b, c \in Int : Places(a, b, c)'
    BY <2>2 DEF StatisticsInv
  <2> QED BY <1>1, <2>1, <2>3 DEF StatisticsInv
<1>2. network' = network => \A ssrc : SentBy(ssrc) \subseteq SentBy(ssrc)'
  BY DEF SentBy
<1>3. CASE MediaStep
  <2>1. CASE receive' = NoStatistics /\ placed' = {} /\ counted' = {}
    BY <2>1, FS_EmptySet DEF NoStatistics, StatisticsInv
  <2>2. CASE UNCHANGED <<receive, placed, counted>>
    BY <1>1, <1>2, <1>3, <2>2 DEF MediaStep
  <2> QED BY <1>3, <2>1, <2>2 DEF MediaStep
<1>4. ASSUME NEW pcma \in BOOLEAN, FarSends(pcma) PROVE StatisticsInv'
  BY <1>1, <1>4, SourceSends DEF FarSends
<1>5. CASE FarSwitches \/ UNCHANGED <<vars, receiveVars>>
  BY <1>1, <1>2, <1>5, Zenon DEF FarSwitches, receiveVars
<1>6. ASSUME NEW packet \in network, ReceivePacket(packet) PROVE StatisticsInv'
  <2>1. network' = network
    BY <1>6 DEF ReceivePacket
  <2>2. CASE OnPacket(packet) /\ packet.pcma
    <3>1. InReach(packet)
      BY <1>6 DEF ReceivePacket
    <3> QED BY <2>1, <2>2, <3>1, FirstPacket, LaterPacket, Zenon
  <2>3. CASE UNCHANGED <<receive, placed, counted>>
    BY <1>1, <1>2, <2>1, <2>3
  <2> QED BY <1>6, <2>2, <2>3 DEF ReceivePacket, OnPacket
<1> QED BY <1>3, <1>4, <1>5, <1>6 DEF MediaNext

LEMMA InitStatistics == ReceiveInit => SourceInv /\ StatisticsInv
<1> SUFFICES ASSUME ReceiveInit PROVE SourceInv /\ StatisticsInv
  OBVIOUS
<1>1. network = {} /\ receive = NoStatistics /\ placed = {} /\ counted = {} /\ IsFiniteSet({}) /\ Cardinality({}) = 0
  BY FS_EmptySet DEF ReceiveInit
<1>2. PICK start \in Starts :
        source = [ssrc |-> CHOOSE ssrc \in Sources : TRUE, index |-> start, key |-> NoKey, counter |-> 0]
  BY Zenon DEF ReceiveInit
<1>3. start \in Nat
  BY MediaAssumption
<1>4. SourceInv
  BY <1>1, <1>2, <1>3, Zenon DEF SourceInv, SentBy
<1>5. StatisticsInv
  BY <1>1 DEF StatisticsInv, NoStatistics
<1> QED BY <1>4, <1>5

LEMMA StatisticsAlways == MediaSpec => [](SourceInv /\ StatisticsInv)
<1>1. SourceInv /\ StatisticsInv /\ [MediaNext]_<<vars, receiveVars>> => SourceInv' /\ StatisticsInv'
  BY SourceStep, StatisticsStep
<1> QED BY <1>1, InitStatistics, PTL DEF MediaSpec

\* For every sender, any number of packets and wraps and every schedule of losses, duplicates and
\* delays shorter than half a cycle (InReach), the extended numbers ReceiveStatistics::on_packet hands
\* on are as far apart as the packets were sent.
THEOREM NumbersPlaced == MediaSpec => []PlacedRight
<1>1. StatisticsInv => PlacedRight
  <2> SUFFICES ASSUME StatisticsInv, NEW a \in placed, NEW b \in placed PROVE a[2] - b[2] = a[1] - b[1]
    BY DEF PlacedRight
  <2>1. PICK shift \in Int : \A c \in placed : c[1] \in Int /\ c[2] = c[1] + shift
    BY DEF StatisticsInv, Places
  <2> QED BY <2>1
<1> QED BY <1>1, StatisticsAlways, PTL

\* ReceiveStatistics::lost never reports more than what was sent between the packets counted and was
\* not counted, for every dropout bound, sender and schedule, and a call of any length: duplicates and
\* late packets never make it too large.
THEOREM LossesReal == MediaSpec => []LostIsReal
<1> DEFINE Missing == {p.number : p \in {q \in network :
      /\ q.ssrc = receive.ssrc /\ q.number \notin counted
      /\ \E i, j \in counted : i < q.number /\ q.number < j}}
<1>1. SourceInv /\ StatisticsInv => LostIsReal
  <2> SUFFICES ASSUME SourceInv, StatisticsInv PROVE Lost <= Cardinality(Missing)
    BY DEF LostIsReal
  <2>1. CASE ~receive.started
    <3>1. Missing = {}
      BY <2>1 DEF StatisticsInv
    <3>2. Lost = 0 /\ Cardinality({}) = 0
      BY <2>1, FS_EmptySet DEF Lost
    <3>3. Cardinality(Missing) = 0
      BY <3>1, <3>2, Zenon
    <3> HIDE DEF Missing
    <3> QED BY <3>2, <3>3
  <2>2. CASE receive.started
    <3>1. PICK shift \in Int, first \in Int, last \in Int : Places(shift, first, last)
      BY <2>2 DEF StatisticsInv
    <3>2. /\ receive.highest - receive.base + 1 = last - first + 1 /\ first <= last
          /\ first \in counted /\ last \in counted
          /\ first..last \subseteq SentBy(receive.ssrc) /\ \A i \in counted : i <= last
      BY <3>1 DEF Places
    <3>3. SentBy(receive.ssrc) \subseteq Nat /\ counted \subseteq Nat /\ last \in Nat
      BY <3>2, Zenon DEF SentBy, SourceInv, StatisticsInv
    <3>4. IsFiniteSet(Missing) /\ Cardinality(Missing) \in Nat
      <4>1. Missing \in SUBSET Nat
        BY DEF SourceInv
      <4>2. \A x \in Missing : x <= last
        <5> SUFFICES ASSUME NEW x \in Missing PROVE x <= last
          OBVIOUS
        <5>1. PICK i \in counted : x < i
          OBVIOUS
        <5>2. x \in Nat /\ i \in Nat /\ i <= last
          BY <3>2, <3>3, <4>1
        <5> QED BY <3>3, <5>1, <5>2
      <4> HIDE DEF Missing
      <4> QED BY <3>3, <4>1, <4>2, FS_BoundedSetOfNaturals, FS_CardinalityType
    <3>5. (first..last) \ counted \in SUBSET Missing
      <4> SUFFICES ASSUME NEW x \in first..last, x \notin counted PROVE x \in Missing
        OBVIOUS
      <4>1. first < x /\ x < last
        BY <3>2, <3>3
      <4>2. PICK p \in network : p.ssrc = receive.ssrc /\ p.number = x
        BY <3>2 DEF SentBy
      <4> QED BY <3>2, <4>1, <4>2
    <3> HIDE DEF Missing
    <3>6. Cardinality((first..last) \ counted) <= Cardinality(Missing)
      BY <3>4, <3>5, FS_Subset
    <3>7. IsFiniteSet(first..last) /\ Cardinality(first..last) = last - first + 1
      BY <3>2, FS_Interval
    <3>8. Cardinality((first..last) \ counted) = Cardinality(first..last) - Cardinality((first..last) \cap counted)
      BY <3>7, FS_Difference, Zenon
    <3>9. /\ IsFiniteSet(counted) /\ Cardinality(counted) \in Nat /\ receive.received \in Nat
          /\ Cardinality(counted) <= receive.received
      BY FS_CardinalityType DEF StatisticsInv
    <3>10. Cardinality((first..last) \cap counted) \in Nat /\ Cardinality((first..last) \cap counted) <= Cardinality(counted)
      BY <3>9, FS_Intersection, FS_CardinalityType
    <3>11. PICK expected \in Int : expected = last - first + 1
      OBVIOUS
    <3>12. Lost = IF expected > receive.received THEN expected - receive.received ELSE 0
      BY <2>2, <3>2, <3>11 DEF Lost
    <3>13. PICK both \in Nat : both = Cardinality((first..last) \cap counted)
      BY <3>10
    <3>14. PICK missed \in Int : missed = Cardinality((first..last) \ counted) /\ missed = expected - both
      BY <3>7, <3>8, <3>11, <3>13
    <3> QED BY <3>4, <3>6, <3>9, <3>10, <3>12, <3>13, <3>14
  <2> QED BY <2>1, <2>2 DEF StatisticsInv
<1> QED BY <1>1, StatisticsAlways, PTL
=============================================================================
