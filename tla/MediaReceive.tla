----------------------------- MODULE MediaReceive -----------------------------
(***************************************************************************)
(* What the media of a call receives: the packets of the far end on a      *)
(* network that loses, duplicates and delays them, unprotected by          *)
(* SecureMedia and counted by media/media_session.cpp and media/rtp.cpp.   *)
(***************************************************************************)
EXTENDS SecureMedia

CONSTANTS MaxDropout,   \* kMaxDropout
          Jump,         \* how far a sender that restarts its numbers goes ahead
          Sources,      \* the SSRCs of the far end
          MaxFarSent,   \* bound on the packets of the far end
          MaxTwice      \* bound on the packets taken twice

\* kMaxDropout is far smaller than half a cycle; a restart that goes no further is no restart to the
\* code, and one by half a cycle or more cannot be told from a step back.
ASSUME ReceiveAssumption ==
  /\ MaxDropout \in Nat /\ Sources \subseteq Nat \ {0} /\ MaxFarSent \in Nat /\ MaxTwice \in Nat
  /\ Jump \in Nat /\ MaxDropout < Jump /\ 2 * Jump < Modulus

VARIABLES
  source,     \* external: the SSRC the far end sends with, the index of its next packet, the key of
              \* the last one and the index where the packet counter of that key began
  network,    \* external: every packet sent; one that never arrives is lost
  receive,    \* remote_ssrc_ (0 before there is one) and the numbers of ReceiveStatistics
  placed,     \* the index and the extended number of every packet since this source was taken up
  counted,    \* the index of every packet the statistics counted since the last jump
  taken       \* how often each packet reached the media session

receiveVars == <<source, network, receive, placed, counted, taken>>

NoStatistics == [ssrc |-> 0, started |-> FALSE, base |-> 0, highest |-> 0, received |-> 0]

ReceiveInit ==
  /\ Init
  /\ \E start \in Starts :
       source = [ssrc |-> CHOOSE ssrc \in Sources : TRUE, index |-> start, key |-> NoKey, counter |-> 0]
  /\ network = {} /\ receive = NoStatistics /\ placed = {} /\ counted = {} /\ taken = <<>>

\* The far end sends one packet, each key with a packet counter of its own.  What is not PCMA (DTMF,
\* comfort noise) shares the numbers of what is.
FarSends(pcma) ==
  /\ far.up /\ call # "over" /\ Cardinality(network) < MaxFarSent
  /\ LET counter == IF far.sends = source.key THEN source.counter ELSE (source.index \div Modulus) * Modulus
         packet == [key |-> far.sends, ssrc |-> source.ssrc, number |-> source.index,
                    index |-> source.index - counter, pcma |-> pcma]
     IN /\ network' = network \cup {packet}
        /\ source' = [source EXCEPT !.index = @ + 1, !.key = far.sends, !.counter = counter]
  /\ UNCHANGED <<vars, receive, placed, counted, taken>>

\* The far end is bridged to another source, or restarts its numbers, after a packet or more.
FarSwitches ==
  /\ far.up /\ call # "over"
  /\ \E packet \in network : packet.ssrc = source.ssrc /\ packet.number = source.index - 1
  /\ \/ \E ssrc \in Sources, start \in Starts :
          /\ \A packet \in network : packet.ssrc # ssrc
          /\ ssrc # source.ssrc
          /\ source' = [source EXCEPT !.ssrc = ssrc, !.index = start, !.key = NoKey]
     \/ source' = [source EXCEPT !.index = @ + Jump]
  /\ UNCHANGED <<vars, network, receive, placed, counted, taken>>

-----------------------------------------------------------------------------
(* ReceiveStatistics.                                                      *)

\* Mutant: numbers before a wrap are not moved back.
Extended_Forward(highest, number) ==
  LET extended == (highest \div Modulus) * Modulus + number
  IN IF highest - extended > Modulus \div 2 THEN extended + Modulus ELSE extended

\* The extended number closest to the highest one.
Extended(highest, number) ==
  LET extended == (highest \div Modulus) * Modulus + number
  IN IF extended - highest > Modulus \div 2 THEN extended - Modulus
     ELSE IF highest - extended > Modulus \div 2 THEN extended + Modulus ELSE extended

\* Mutant: a restarted sender is counted from the old base.
Counted_OldBase(statistics, extended) ==
  [statistics EXCEPT !.highest = IF extended > @ THEN extended ELSE @, !.received = @ + 1]

\* on_packet() once the stream is started: a jump beyond kMaxDropout counts afresh.
Counted(statistics, extended) ==
  IF extended - statistics.highest \in -MaxDropout..MaxDropout
  THEN [statistics EXCEPT !.highest = IF extended > @ THEN extended ELSE @, !.received = @ + 1]
  ELSE [statistics EXCEPT !.base = extended, !.highest = extended, !.received = 1]

Lost == LET expected == receive.highest - receive.base + 1
        IN IF receive.started /\ expected > receive.received THEN expected - receive.received ELSE 0

\* MediaSession::on_packet(): a new source restarts the statistics.
OnPacket(packet) ==
  LET number == packet.number % Modulus
      same == receive.ssrc = packet.ssrc
      started == receive.started /\ same
      extended == IF started THEN Extended(receive.highest, number) ELSE number
  IN \/ ~packet.pcma /\ UNCHANGED <<receive, placed, counted>>
     \/ /\ packet.pcma
        /\ receive' = IF started THEN Counted(receive, extended)
                      ELSE [ssrc |-> packet.ssrc, started |-> TRUE, base |-> extended,
                            highest |-> extended, received |-> 1]
        /\ placed' = (IF same THEN placed ELSE {}) \cup {<<packet.number, extended>>}
        /\ counted' = (IF same /\ \E i \in counted : i = Highest(counted) /\ packet.number - i \in -MaxDropout..MaxDropout
                       THEN counted ELSE {}) \cup {packet.number}

\* What the numbers can tell apart: no packet comes from half a cycle (11 minutes of voice) before or
\* after the newest one counted, so no outage is that long and no packet that late.
InReach(packet) ==
  receive.ssrc = packet.ssrc =>
    \A i \in counted : i = Highest(counted) => 2 * (packet.number - i) \in (1 - Modulus)..(Modulus - 1)

\* The run loop receives a packet; without keys it goes to the session as it is.
ReceivePacket(packet) ==
  /\ InReach(packet)
  /\ packet \in DOMAIN taken => taken[packet] = 1 /\ Cardinality({p \in DOMAIN taken : taken[p] = 2}) < MaxTwice
  /\ Unprotect([key |-> packet.key, ssrc |-> packet.ssrc, index |-> packet.index])
  /\ IF in.key # NoKey => Authentic(packet)
     THEN /\ OnPacket(packet)
          /\ taken' = [p \in DOMAIN taken \cup {packet} |->
                         (IF p \in DOMAIN taken THEN taken[p] ELSE 0) + (IF p = packet THEN 1 ELSE 0)]
     ELSE UNCHANGED <<receive, placed, counted, taken>>
  /\ UNCHANGED <<source, network>>

\* start() also resets the statistics: it runs when a session becomes active.
MediaStep ==
  /\ Signalling \/ SendFrame
  /\ IF active' /\ ~active
     THEN receive' = NoStatistics /\ placed' = {} /\ counted' = {}
     ELSE UNCHANGED <<receive, placed, counted>>
  /\ UNCHANGED <<source, network, taken>>

MediaNext ==
  \/ MediaStep
  \/ \E pcma \in BOOLEAN : FarSends(pcma)
  \/ FarSwitches
  \/ \E packet \in network : ReceivePacket(packet)
MediaSpec == ReceiveInit /\ [][MediaNext]_<<vars, receiveVars>>

-----------------------------------------------------------------------------
(* Properties.                                                             *)

\* With SRTP no packet reaches the media session twice, not even when a re-INVITE comes between the
\* packet and its duplicate: an offer with the same key does not open the replay window again.
TakenOnce ==
  config.srtp => \A packet \in DOMAIN taken : taken[packet] = 1

\* The extended numbers handed to the jitter buffer are as far apart as the packets were sent, across
\* wraps, reordering, losses and restarts of the sender's numbers.
PlacedRight ==
  \A a, b \in placed : a[2] - b[2] = a[1] - b[1]

\* The loss that is reported really happened: since the last jump of the numbers, at least so many
\* packets of this source were sent between the ones counted and were not counted, because they did
\* not arrive or were not PCMA.
LostIsReal ==
  Lost <= Cardinality({p.number : p \in {q \in network :
    /\ q.ssrc = receive.ssrc /\ q.number \notin counted
    /\ \E i, j \in counted : i < q.number /\ q.number < j}})
=============================================================================
