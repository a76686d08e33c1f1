------------------------ MODULE TlsConnection_proofs ------------------------
(***************************************************************************)
(* The wake-up protocol of OpenSslTls and the byte stream it implements,   *)
(* for any number of sends, any input and any capacity of the wake pipe.   *)
(***************************************************************************)
EXTENDS TlsConnection, SequenceTheorems, TLAPS

\* TypeOK in parts, each with what makes it inductive: the peer's input is a budget it uses up.
ControlOK ==
  /\ pc \in {"connect", "handshake", "wait", "waitPoll", "waitDrain", "waitCheck", "connected",
             "read", "take", "write", "poll", "drain", "check", "end", "done"}
  /\ phase \in {"connect", "handshake"}
  /\ owner \in {"idle", "wake", "stop", "join", "gone"}
  /\ told \in {"none", "connected", "data", "closed"}
  /\ peer \in {"open", "closed"}

CountsOK ==
  /\ left \in 0..Endpoints /\ wake \in 0..WakeCapacity /\ sent \in 0..MaxSends
  /\ input \in Nat /\ inputLeft \in Nat /\ input + inputLeft <= MaxInput

FlagsOK ==
  /\ revents \in BOOLEAN /\ wantWrite \in BOOLEAN /\ stopping \in BOOLEAN
  /\ room \in BOOLEAN /\ late \in BOOLEAN

BytesOK ==
  /\ sent \in 0..MaxSends
  /\ pending \in Seq(Bytes) /\ outbox \in Seq(Bytes) /\ written \in Seq(Bytes)

\* Every step moves the threads, the callbacks and the peer between known places.
LEMMA ControlStep == ASSUME ControlOK, [Next]_vars PROVE ControlOK'
<1> USE DEF ControlOK, loopVars, threadVars, ownerVars, outcomeVars, networkVars
<1>1. CASE Owner
  BY <1>1 DEF Owner, Send, Wake, Destroy, WakeStop, Join
<1>2. CASE Network
  BY <1>2 DEF Network, PeerSends, PeerCloses, RoomComes, DeadlinePasses
<1>3. CASE Connect \/ Handshake \/ Wait \/ WaitPoll \/ WaitDrain
  BY <1>3 DEF Connect, Handshake, Wait, WaitPoll, WaitDrain, WaitFails, NextEndpoint
<1>4. CASE WaitCheck
  BY <1>4 DEF WaitCheck, WaitFails, WaitSucceeds, NextEndpoint
<1>5. CASE Connected \/ Read \/ Take \/ Write
  BY <1>5 DEF Connected, Read, Take, Write
<1>6. CASE Poll \/ Drain \/ Check \/ End
  BY <1>6 DEF Poll, Drain, Check, End
<1>7. CASE UNCHANGED vars
  BY <1>7 DEF vars
<1> QED BY <1>1, <1>2, <1>3, <1>4, <1>5, <1>6, <1>7 DEF Next, Run

\* Every step keeps the counters in their ranges, the wake pipe within its capacity.
LEMMA CountsStep == ASSUME CountsOK, [Next]_vars PROVE CountsOK'
<1> USE TlsAssumption DEF CountsOK, loopVars, threadVars, sharedVars, ownerVars, networkVars
<1>1. CASE Owner
  BY <1>1, SMTT(60) DEF Owner, Send, Wake, Destroy, WakeStop, Join, PutWake
<1>2. CASE Network
  BY <1>2 DEF Network, PeerSends, PeerCloses, RoomComes, DeadlinePasses
<1>3. CASE Connect \/ Handshake \/ Wait \/ WaitPoll \/ WaitDrain
  BY <1>3 DEF Connect, Handshake, Wait, WaitPoll, WaitDrain
<1>4. CASE WaitCheck
  BY <1>4 DEF WaitCheck
<1>5. CASE Connected \/ Read \/ Take \/ Write
  BY <1>5 DEF Connected, Read, Take, Write
<1>6. CASE Poll \/ Drain \/ Check \/ End
  BY <1>6 DEF Poll, Drain, Check, End
<1>7. CASE UNCHANGED vars
  BY <1>7 DEF vars
<1> QED BY <1>1, <1>2, <1>3, <1>4, <1>5, <1>6, <1>7 DEF Next, Run

\* Every step keeps the flags Boolean.
LEMMA FlagsStep == ASSUME FlagsOK, [Next]_vars PROVE FlagsOK'
<1> USE DEF FlagsOK, loopVars, threadVars, sharedVars, networkVars
<1>1. CASE Owner
  BY <1>1, Zenon DEF Owner, Send, Wake, Destroy, WakeStop, Join
<1>2. CASE Network
  BY <1>2, Zenon DEF Network, PeerSends, PeerCloses, RoomComes, DeadlinePasses
<1>3. CASE Connect \/ Handshake \/ Wait \/ WaitDrain \/ WaitCheck
  BY <1>3, Zenon DEF Connect, Handshake, Wait, WaitDrain, WaitCheck
<1>4. CASE WaitPoll
  <2>1. revents' \in BOOLEAN
    BY <1>4 DEF WaitPoll, Readable
  <2> QED BY <1>4, <2>1, Zenon DEF WaitPoll
<1>5. CASE Connected \/ Read \/ Take
  BY <1>5, Zenon DEF Connected, Read, Take
<1>6. CASE Write
  BY <1>6, Zenon DEF Write
<1>7. CASE Poll \/ Drain \/ Check \/ End
  BY <1>7, Zenon DEF Poll, Drain, Check, End
<1>8. CASE UNCHANGED vars
  BY <1>8, Zenon DEF vars
<1> QED BY <1>1, <1>2, <1>3, <1>4, <1>5, <1>6, <1>7, <1>8, Zenon DEF Next, Run

\* Every step keeps the bytes on their way sequences of bytes that were given to send.
LEMMA BytesStep == ASSUME BytesOK, [Next]_vars PROVE BytesOK'
<1> USE TlsAssumption DEF BytesOK, loopVars, threadVars, sharedVars, ownerVars, outcomeVars
<1>1. CASE UNCHANGED <<sent, pending, outbox, written>>
  BY <1>1
<1>2. CASE Send
  BY <1>2 DEF Send, Bytes
<1>3. CASE Take
  BY <1>3 DEF Take
<1>4. CASE Write
  <2>1. CASE UNCHANGED <<pending, written>>
    BY <1>4, <2>1 DEF Write
  <2>2. ASSUME NEW n \in 1..Len(pending), written' = written \o SubSeq(pending, 1, n),
               pending' = SubSeq(pending, n + 1, Len(pending))
        PROVE  BytesOK'
    <3>1. SubSeq(pending, 1, n) \in Seq(Bytes) /\ SubSeq(pending, n + 1, Len(pending)) \in Seq(Bytes)
      OBVIOUS
    <3> QED BY <1>4, <2>2, <3>1, SMTT(60) DEF Write
  <2> QED BY <1>4, <2>1, <2>2, Zenon DEF Write
<1>5. CASE End
  BY <1>5 DEF End
<1>6. CASE Wake \/ Destroy \/ WakeStop \/ Join
  BY <1>1, <1>6 DEF Wake, Destroy, WakeStop, Join
<1>7. CASE Network
  BY <1>1, <1>7 DEF Network, PeerSends, PeerCloses, RoomComes, DeadlinePasses
<1>8. CASE Connect \/ Handshake \/ Wait \/ WaitPoll \/ WaitDrain \/ WaitCheck
  BY <1>1, <1>8 DEF Connect, Handshake, Wait, WaitPoll, WaitDrain, WaitCheck
<1>9. CASE Connected \/ Read \/ Poll \/ Drain \/ Check
  BY <1>1, <1>9 DEF Connected, Read, Poll, Drain, Check
<1>10. CASE UNCHANGED vars
  BY <1>1, <1>10 DEF vars
<1> QED BY <1>2, <1>3, <1>4, <1>5, <1>6, <1>7, <1>8, <1>9, <1>10 DEF Next, Run, Owner

\* The state of both threads, the outbox, the wake pipe and the network keep their types, for any
\* number of sends, endpoints and reads.
THEOREM TypeCorrect == Spec => []TypeOK
<1>1. Init => ControlOK /\ CountsOK /\ BytesOK
  BY TlsAssumption DEF Init, ControlOK, CountsOK, BytesOK
<1>2. Init => FlagsOK
  BY Zenon DEF Init, FlagsOK
<1>3. ControlOK /\ CountsOK /\ FlagsOK /\ BytesOK /\ [Next]_vars
        => ControlOK' /\ CountsOK' /\ FlagsOK' /\ BytesOK'
  BY ControlStep, CountsStep, FlagsStep, BytesStep
<1>4. ControlOK /\ CountsOK /\ FlagsOK /\ BytesOK => TypeOK
  <2> SUFFICES ASSUME ControlOK, CountsOK, FlagsOK, BytesOK PROVE TypeOK
    OBVIOUS
  <2>1. input \in 0..MaxInput /\ inputLeft \in 0..MaxInput
    BY TlsAssumption DEF CountsOK
  <2> QED BY <2>1, Zenon DEF TypeOK, ControlOK, CountsOK, FlagsOK, BytesOK
<1> QED BY <1>1, <1>2, <1>3, <1>4, PTL DEF Spec

-----------------------------------------------------------------------------
\* From taking the outbox to sleeping, pump drains no wake-up: whatever send() added since has its
\* byte in the pipe, or send() has not reached its wake().
WakeInv ==
  /\ wake \in Nat
  /\ pc \in {"write", "poll"} /\ outbox # <<>> => wake > 0 \/ owner = "wake"

\* wake() leaves a byte in the pipe, also in a full one.
LEMMA PutWakeLeavesByte == ASSUME wake \in Nat, PutWake PROVE wake' \in Nat /\ wake' > 0
BY TlsAssumption DEF PutWake

\* Every step of both threads and of the network keeps the invariant.
LEMMA WakeStep == ASSUME WakeInv, [Next]_vars PROVE WakeInv'
<1>1. CASE UNCHANGED <<outbox, wake, owner>> /\ pc' \notin {"write", "poll"}
  BY <1>1 DEF WakeInv
<1>2. CASE UNCHANGED <<outbox, wake, owner, pc>>
  BY <1>2 DEF WakeInv
<1>3. CASE Owner
  <2>1. CASE Send
    BY <2>1 DEF Send, WakeInv
  <2>2. CASE Wake
    BY <2>2, PutWakeLeavesByte DEF Wake, WakeInv
  <2>3. CASE Destroy
    <3>1. UNCHANGED <<pc, outbox, wake>> /\ owner # "wake"
      BY <2>3 DEF Destroy, threadVars
    <3> QED BY <3>1 DEF WakeInv
  <2>4. CASE WakeStop
    BY <2>4, PutWakeLeavesByte DEF WakeStop, WakeInv
  <2>5. CASE Join
    <3>1. UNCHANGED <<pc, outbox, wake>> /\ owner # "wake"
      BY <2>5 DEF Join, threadVars, sharedVars
    <3> QED BY <3>1 DEF WakeInv
  <2> QED BY <1>3, <2>1, <2>2, <2>3, <2>4, <2>5 DEF Owner
<1>4. CASE Network
  BY <1>2, <1>4 DEF Network, PeerSends, PeerCloses, RoomComes, DeadlinePasses, threadVars,
     sharedVars, ownerVars
\* Steps of the connection's thread outside the stretch from Take to Poll.
<1>5. CASE Connect \/ Handshake \/ Wait \/ WaitPoll \/ WaitCheck
  <2>1. UNCHANGED <<outbox, wake, owner>>
    BY <1>5 DEF Connect, Handshake, Wait, WaitPoll, WaitCheck, sharedVars, ownerVars
  <2>2. pc' \notin {"write", "poll"}
    BY <1>5 DEF Connect, Handshake, Wait, WaitPoll, WaitCheck, WaitFails, WaitSucceeds, NextEndpoint
  <2> QED BY <1>1, <2>1, <2>2
<1>6. CASE Connected \/ Read \/ Poll \/ Check \/ End
  <2>1. UNCHANGED <<outbox, wake, owner>>
    BY <1>6 DEF Connected, Read, Poll, Check, End, sharedVars, ownerVars
  <2>2. pc' \notin {"write", "poll"}
    BY <1>6 DEF Connected, Read, Poll, Check, End
  <2> QED BY <1>1, <2>1, <2>2
<1>7. CASE WaitDrain \/ Drain
  <2>1. pc' \notin {"write", "poll"} /\ wake' = 0
    BY <1>7 DEF WaitDrain, Drain
  <2> QED BY <2>1 DEF WakeInv
<1>8. CASE Take
  <2>1. outbox' = <<>> /\ UNCHANGED wake
    BY <1>8 DEF Take
  <2> QED BY <2>1 DEF WakeInv
<1>9. CASE Write
  <2>1. UNCHANGED <<outbox, wake, owner>> /\ pc = "write"
    BY <1>9 DEF Write, sharedVars, ownerVars
  <2> QED BY <2>1 DEF WakeInv
<1>10. CASE UNCHANGED vars
  BY <1>2, <1>10 DEF vars, threadVars, sharedVars, ownerVars
<1> QED BY <1>3, <1>4, <1>5, <1>6, <1>7, <1>8, <1>9, <1>10 DEF Next, Run

\* For any number of sends and any capacity of the pipe, pump never sleeps on bytes in the outbox
\* unless send() is about to wake it: what the comment above its poll claims.
THEOREM WakeUpSafe == Spec => []WakeUpComes
<1>1. Init => WakeInv
  BY DEF Init, WakeInv
<1>2. WakeInv /\ [Next]_vars => WakeInv'
  BY WakeStep
<1>3. WakeInv => WakeUpComes
  BY DEF WakeInv, WakeUpComes
<1> QED BY <1>1, <1>2, <1>3, PTL DEF Spec

-----------------------------------------------------------------------------
\* Adding a byte behind the outbox adds it behind everything queued.
LEMMA AppendQueued ==
  ASSUME NEW S, NEW p \in Seq(S), NEW o \in Seq(S), NEW b \in S
  PROVE  p \o Append(o, b) = Append(p \o o, b)
<1> DEFINE l == p \o Append(o, b)
           r == Append(p \o o, b)
<1>1. Append(o, b) \in Seq(S) /\ Len(Append(o, b)) = Len(o) + 1
  OBVIOUS
<1>2. l \in Seq(S) /\ Len(l) = Len(p) + Len(o) + 1
  BY <1>1, ConcatProperties
<1>3. p \o o \in Seq(S) /\ Len(p \o o) = Len(p) + Len(o)
  BY ConcatProperties
<1>4. r \in Seq(S) /\ Len(r) = Len(p) + Len(o) + 1
  BY <1>3
<1>5. ASSUME NEW i \in 1..Len(l) PROVE l[i] = r[i]
  <2>1. l[i] = IF i <= Len(p) THEN p[i] ELSE Append(o, b)[i - Len(p)]
    <3> DEFINE a == Append(o, b)
    <3>1. a \in Seq(S) /\ Len(a) = Len(o) + 1 /\ i \in 1..Len(p) + Len(a)
      BY <1>1, <1>2
    <3> HIDE DEF a
    <3>2. (p \o a)[i] = IF i <= Len(p) THEN p[i] ELSE a[i - Len(p)]
      BY <3>1, ConcatProperties
    <3> QED BY <3>2 DEF a
  <2>2. i <= Len(p) + Len(o) => (p \o o)[i] = IF i <= Len(p) THEN p[i] ELSE o[i - Len(p)]
    BY <1>2, ConcatProperties
  <2> QED BY <1>2, <1>3, <2>1, <2>2
<1> HIDE DEF l, r
<1>6. l = r
  BY <1>2, <1>4, <1>5, SeqEqual
<1> QED BY <1>6 DEF l, r

\* Writing the first n pending bytes takes the first n queued ones.
LEMMA TakeQueued ==
  ASSUME NEW S, NEW p \in Seq(S), NEW o \in Seq(S), NEW n \in 1..Len(p)
  PROVE  /\ n \in 1..Len(p \o o)
         /\ SubSeq(p \o o, 1, n) = SubSeq(p, 1, n)
         /\ SubSeq(p \o o, n + 1, Len(p \o o)) = SubSeq(p, n + 1, Len(p)) \o o
<1> DEFINE q == p \o o
           rest == SubSeq(p, n + 1, Len(p))
           l == SubSeq(q, n + 1, Len(q))
           r == rest \o o
<1>1. /\ q \in Seq(S) /\ Len(q) = Len(p) + Len(o) /\ Len(p) \in Nat /\ Len(o) \in Nat
      /\ \A i \in 1..Len(q) : q[i] = IF i <= Len(p) THEN p[i] ELSE o[i - Len(p)]
      /\ \A i \in 1..Len(q) : q[i] \in S
  BY ConcatProperties, ElementOfSeq
<1>2. \A i \in 1..Len(p) : p[i] \in S
  BY ElementOfSeq
<1> HIDE DEF q
<1>3. SubSeq(q, 1, n) = SubSeq(p, 1, n)
  <2>1. /\ SubSeq(q, 1, n) \in Seq(S) /\ Len(SubSeq(q, 1, n)) = n
        /\ \A i \in 1..n : SubSeq(q, 1, n)[i] = q[i]
    BY <1>1, SubSeqProperties
  <2>2. /\ SubSeq(p, 1, n) \in Seq(S) /\ Len(SubSeq(p, 1, n)) = n
        /\ \A i \in 1..n : SubSeq(p, 1, n)[i] = p[i]
    BY <1>2, SubSeqProperties
  <2>3. \A i \in 1..n : q[i] = p[i]
    BY <1>1
  <2> QED BY <2>1, <2>2, <2>3, SeqEqual
<1>4. /\ l \in Seq(S) /\ Len(l) = Len(q) - n
      /\ \A i \in 1..Len(l) : l[i] = q[n + i]
  <2>1. /\ l \in Seq(S)
        /\ Len(l) = IF n + 1 <= Len(q) THEN Len(q) - (n + 1) + 1 ELSE 0
        /\ \A i \in 1..Len(q) - (n + 1) + 1 : l[i] = q[(n + 1) + i - 1]
    <3>1. \A i \in (n + 1)..Len(q) : q[i] \in S
      BY <1>1
    <3> QED BY <1>1, <3>1, SubSeqProperties
  <2> QED BY <1>1, <2>1
<1>5. /\ rest \in Seq(S) /\ Len(rest) = Len(p) - n
      /\ \A i \in 1..Len(rest) : rest[i] = p[n + i]
  <2>1. /\ rest \in Seq(S)
        /\ Len(rest) = IF n + 1 <= Len(p) THEN Len(p) - (n + 1) + 1 ELSE 0
        /\ \A i \in 1..Len(p) - (n + 1) + 1 : rest[i] = p[(n + 1) + i - 1]
    <3>1. \A i \in (n + 1)..Len(p) : p[i] \in S
      BY <1>2
    <3> QED BY <1>1, <3>1, SubSeqProperties
  <2> QED BY <1>1, <2>1
<1> HIDE DEF l, rest
<1>6. /\ r \in Seq(S) /\ Len(r) = Len(rest) + Len(o)
      /\ \A i \in 1..Len(rest) + Len(o) : r[i] = IF i <= Len(rest) THEN rest[i] ELSE o[i - Len(rest)]
  BY <1>5, ConcatProperties, Zenon
<1> HIDE DEF r
<1>7. l = r
  <2>1. ASSUME NEW i \in 1..Len(l) PROVE l[i] = r[i]
    <3>1. l[i] = IF n + i <= Len(p) THEN p[n + i] ELSE o[(n + i) - Len(p)]
      BY <1>1, <1>4
    <3>2. r[i] = IF i <= Len(rest) THEN rest[i] ELSE o[i - Len(rest)]
      BY <1>1, <1>4, <1>5, <1>6
    <3> QED BY <1>1, <1>4, <1>5, <3>1, <3>2
  <2> QED BY <1>1, <1>4, <1>5, <1>6, <2>1, SeqEqual, SMTT(60)
<1>8. n \in 1..Len(q)
  BY <1>1
<1> QED BY <1>3, <1>7, <1>8, Zenon DEF q, l, r, rest

-----------------------------------------------------------------------------
PumpSteps == {"read", "take", "write", "poll", "drain", "check"}

\* Where the thread is, what the listener was told and how many bytes are on their way agree: pump
\* runs after on_connected, on_closed is last, and until the end no byte is lost or made up.
StreamInv ==
  /\ BytesOK
  /\ pc # "done" => told # "closed" /\ Len(written) + Len(pending) + Len(outbox) = sent
  /\ pc \in PumpSteps => told # "none"
  /\ pc \notin PumpSteps \cup {"end", "done"} => told = "none"

\* Steps that move no byte and after which the thread is where the listener's last callback left it.
LEMMA StreamKept ==
  ASSUME StreamInv, UNCHANGED <<sent, pending, outbox, written, told>>,
         \/ pc' = pc
         \/ pc # "done" /\ pc' = "end"
         \/ pc \in PumpSteps /\ pc' \in PumpSteps
         \/ pc \notin PumpSteps \cup {"end", "done"} /\ pc' \notin PumpSteps \cup {"end", "done"}
  PROVE  StreamInv' /\ UNCHANGED Contract!vars
<1>1. BytesOK' /\ (pc = "done" <=> pc' = "done")
  BY DEF StreamInv, BytesOK, PumpSteps
<1>2. StreamInv'
  BY <1>1 DEF StreamInv, PumpSteps
<1>3. UNCHANGED StreamState /\ UNCHANGED QueuedBytes
  BY <1>1 DEF StreamState, QueuedBytes
<1> QED BY <1>2, <1>3 DEF Contract!vars

\* send() before the end queues one byte of the contract; after it, nothing.
LEMMA SendStep ==
  ASSUME StreamInv, Send PROVE StreamInv' /\ [Contract!Next]_(Contract!vars)
<1> USE DEF BytesOK
<1>1. /\ UNCHANGED <<pc, told, written, pending>> /\ sent < MaxSends
      /\ sent' = sent + 1 /\ outbox' = Append(outbox, sent + 1)
  BY DEF Send, threadVars, loopVars, outcomeVars
<1>2. BytesOK /\ sent + 1 \in Bytes
  BY <1>1, TlsAssumption DEF StreamInv, Bytes
<1>3. /\ outbox' \in Seq(Bytes) /\ Len(outbox') = Len(outbox) + 1
      /\ sent' \in 0..MaxSends
  BY <1>1, <1>2, TlsAssumption
<1>4. /\ Len(written) \in Nat /\ Len(pending) \in Nat /\ Len(outbox) \in Nat /\ sent \in Nat
      /\ pc # "done" => Len(written) + Len(pending) + Len(outbox) = sent
  BY <1>2, TlsAssumption, LenProperties DEF StreamInv
<1>5. pc # "done" => Len(written) + Len(pending) + Len(outbox') = sent'
  BY <1>1, <1>3, <1>4
<1>6. StreamInv'
  BY <1>1, <1>2, <1>3, <1>5 DEF StreamInv
<1>7. UNCHANGED StreamState
  BY <1>1 DEF StreamState
<1>8. CASE pc = "done"
  BY <1>1, <1>6, <1>7, <1>8 DEF QueuedBytes, Contract!vars
<1>9. CASE pc # "done"
  <2>1. QueuedBytes = pending \o outbox /\ QueuedBytes' = pending \o Append(outbox, sent + 1)
    BY <1>1, <1>9 DEF QueuedBytes
  <2>2. pending \o Append(outbox, sent + 1) = Append(pending \o outbox, sent + 1)
    BY <1>2, AppendQueued
  <2>3. Len(pending \o outbox) = Len(pending) + Len(outbox)
    BY <1>2, ConcatProperties
  <2>4. Len(written) + Len(QueuedBytes) + 1 = sent + 1
    BY <1>9, <1>4, <2>1, <2>3
  <2>5. StreamState # "ended"
    BY <1>9 DEF StreamState
  <2>6. Contract!Send
    BY <1>1, <1>7, <2>1, <2>2, <2>4, <2>5 DEF Contract!Send
  <2> QED BY <1>6, <2>6 DEF Contract!Next
<1> QED BY <1>6, <1>8, <1>9

\* Taking the outbox leaves what is queued as it was.
LEMMA TakeStep == ASSUME StreamInv, Take PROVE StreamInv' /\ UNCHANGED Contract!vars
<1>1. /\ pc = "take" /\ pc' = "write" /\ UNCHANGED <<told, sent, written>>
      /\ pending' = pending \o outbox /\ outbox' = <<>>
  BY DEF Take, ownerVars, outcomeVars
<1>2. BytesOK
  BY DEF StreamInv
<1>3. pending' \in Seq(Bytes) /\ Len(pending') = Len(pending) + Len(outbox)
  BY <1>1, <1>2, ConcatProperties DEF BytesOK
<1>4. outbox' \in Seq(Bytes) /\ Len(outbox') = 0
  BY <1>1
<1>5. StreamInv'
  BY <1>1, <1>2, <1>3, <1>4 DEF StreamInv, BytesOK, PumpSteps
<1>6. pending' \o <<>> = pending'
  BY <1>3, ConcatEmptySeq
<1>7. UNCHANGED QueuedBytes
  BY <1>1, <1>6 DEF QueuedBytes
<1>8. UNCHANGED StreamState
  BY <1>1 DEF StreamState
<1> QED BY <1>1, <1>5, <1>7, <1>8 DEF Contract!vars

\* What one SSL_write takes is delivered.
LEMMA WriteStep ==
  ASSUME StreamInv, Write PROVE StreamInv' /\ [Contract!Next]_(Contract!vars)
<1>1. pc = "write" /\ UNCHANGED <<told, sent, outbox>>
  BY DEF Write, sharedVars, ownerVars
<1>2. BytesOK /\ told # "none" /\ told # "closed"
  BY <1>1 DEF StreamInv, PumpSteps
<1>3. CASE UNCHANGED <<pending, written>> /\ pc' \in {"poll", "end"}
  BY <1>1, <1>3, StreamKept DEF PumpSteps
<1>4. ASSUME NEW n \in 1..Len(pending), written' = written \o SubSeq(pending, 1, n),
             pending' = SubSeq(pending, n + 1, Len(pending)), pc' = pc
      PROVE  StreamInv' /\ Contract!Next
  <2> USE <1>2 DEF BytesOK
  <2>1. /\ SubSeq(pending, 1, n) \in Seq(Bytes) /\ Len(SubSeq(pending, 1, n)) = n
        /\ pending' \in Seq(Bytes) /\ Len(pending') = Len(pending) - n
    BY <1>4, SMTT(60)
  <2>2. written' \in Seq(Bytes) /\ Len(written') = Len(written) + n
    BY <1>4, <2>1, ConcatProperties
  <2>3. Len(written') + Len(pending') + Len(outbox') = sent'
    <3>1. /\ Len(written) \in Nat /\ Len(pending) \in Nat /\ Len(outbox) \in Nat /\ sent \in Nat
          /\ Len(written) + Len(pending) + Len(outbox) = sent
          /\ n \in Nat /\ Len(outbox') = Len(outbox)
      BY <1>1, TlsAssumption, LenProperties DEF StreamInv
    <3>2. sent' = sent /\ Len(pending') = Len(pending) - n /\ Len(written') = Len(written) + n
      BY <1>1, <2>1, <2>2
    <3> HIDE <1>2 DEF BytesOK
    <3> QED BY <3>1, <3>2
  <2>4. StreamInv'
    BY <1>1, <1>4, <2>1, <2>2, <2>3, Zenon DEF StreamInv, PumpSteps
  <2>5. StreamState = "open" /\ UNCHANGED StreamState
    BY <1>1, <1>4 DEF StreamState
  <2>6. QueuedBytes = pending \o outbox /\ QueuedBytes' = pending' \o outbox
    BY <1>1, <1>4 DEF QueuedBytes
  <2>7. /\ n \in 1..Len(pending \o outbox)
        /\ SubSeq(pending \o outbox, 1, n) = SubSeq(pending, 1, n)
        /\ SubSeq(pending \o outbox, n + 1, Len(pending \o outbox)) = pending' \o outbox
    BY <1>4, TakeQueued, Zenon
  <2>8. Contract!Deliver
    BY <1>4, <2>5, <2>6, <2>7, Zenon DEF Contract!Deliver
  <2> QED BY <2>4, <2>8 DEF Contract!Next
<1> QED BY <1>3, <1>4, Zenon DEF Write

\* on_connected opens the stream, and every way out of run() ends it.
LEMMA OutcomeStep ==
  ASSUME StreamInv, Connected \/ End PROVE StreamInv' /\ [Contract!Next]_(Contract!vars)
<1>1. CASE Connected
  <2>1. /\ pc = "connected" /\ pc' = "read" /\ told' = "connected"
        /\ UNCHANGED <<sent, pending, outbox, written>>
    BY <1>1 DEF Connected, loopVars, sharedVars, ownerVars
  <2>2. StreamInv'
    BY <2>1 DEF StreamInv, BytesOK, PumpSteps
  <2>3. StreamState = "opening" /\ StreamState' = "open"
    BY <2>1 DEF StreamState, StreamInv, PumpSteps
  <2>4. UNCHANGED QueuedBytes
    BY <2>1 DEF QueuedBytes
  <2> QED BY <2>1, <2>2, <2>3, <2>4 DEF Contract!Connected, Contract!Next
<1>2. CASE End
  <2>1. /\ pc = "end" /\ pc' = "done" /\ pending' = <<>>
        /\ UNCHANGED <<sent, outbox, written>>
    BY <1>2 DEF End, sharedVars, ownerVars
  <2>2. StreamInv'
    BY <2>1 DEF StreamInv, BytesOK, PumpSteps
  <2>3. StreamState # "ended" /\ StreamState' = "ended" /\ QueuedBytes' = <<>>
    BY <2>1 DEF StreamState, QueuedBytes
  <2> QED BY <2>1, <2>2, <2>3 DEF Contract!End, Contract!Next
<1> QED BY <1>1, <1>2

\* Every step keeps the invariant and is a step of the contract or none.
LEMMA StreamStep ==
  ASSUME StreamInv, [Next]_vars PROVE StreamInv' /\ [Contract!Next]_(Contract!vars)
<1> USE DEF loopVars, threadVars, sharedVars, ownerVars, outcomeVars
<1>1. CASE Wake \/ Destroy \/ WakeStop \/ Join
  BY <1>1, StreamKept DEF Wake, Destroy, WakeStop, Join
<1>2. CASE Network
  BY <1>2, StreamKept DEF Network, PeerSends, PeerCloses, RoomComes, DeadlinePasses
<1>3. CASE Connect \/ Handshake \/ Wait \/ WaitPoll \/ WaitDrain \/ WaitCheck
  <2>1. UNCHANGED <<sent, pending, outbox, written, told>>
    BY <1>3 DEF Connect, Handshake, Wait, WaitPoll, WaitDrain, WaitCheck
  <2>2. /\ pc \notin PumpSteps \cup {"end", "done"}
        /\ pc' = "end" \/ pc' \notin PumpSteps \cup {"end", "done"}
    BY <1>3 DEF Connect, Handshake, Wait, WaitPoll, WaitDrain, WaitCheck, WaitFails, WaitSucceeds,
       NextEndpoint, PumpSteps
  <2>3. pc # "done"
    BY <2>2
  <2> QED BY <2>1, <2>2, <2>3, StreamKept
<1>4. CASE Read
  <2>1. CASE told' = told
    BY <1>4, <2>1, StreamKept DEF Read, PumpSteps
  <2>2. CASE told' = "data" /\ pc' = pc
    <3>1. pc = "read" /\ UNCHANGED <<sent, pending, outbox, written>>
      BY <1>4 DEF Read
    <3>2. StreamInv'
      BY <2>2, <3>1 DEF StreamInv, BytesOK, PumpSteps
    <3>3. UNCHANGED StreamState /\ UNCHANGED QueuedBytes
      BY <2>2, <3>1 DEF StreamState, QueuedBytes, StreamInv, PumpSteps
    <3> QED BY <3>1, <3>2, <3>3 DEF Contract!vars
  <2> QED BY <1>4, <2>1, <2>2 DEF Read
<1>5. CASE Poll \/ Drain \/ Check
  <2>1. UNCHANGED <<sent, pending, outbox, written, told>>
    BY <1>5 DEF Poll, Drain, Check
  <2>2. pc \in PumpSteps /\ pc # "done" /\ (pc' = "end" \/ pc' \in PumpSteps)
    BY <1>5 DEF Poll, Drain, Check, PumpSteps
  <2> QED BY <2>1, <2>2, StreamKept
<1>6. CASE UNCHANGED vars
  BY <1>6, StreamKept DEF vars
<1> QED BY <1>1, <1>2, <1>3, <1>4, <1>5, <1>6, SendStep, TakeStep, WriteStep, OutcomeStep
        DEF Next, Run, Owner

\* OpenSslTls keeps the contract of tls_transport.hpp for any number of sends: bytes go out in
\* order and once, after on_connected, and nothing follows the end.
THEOREM KeepsContract == Spec => IsByteStream
<1>1. Init => StreamInv /\ Contract!Init
  <2> SUFFICES ASSUME Init PROVE StreamInv /\ Contract!Init
    OBVIOUS
  <2>1. BytesOK /\ Len(written) + Len(pending) + Len(outbox) = sent
    BY TlsAssumption DEF Init, BytesOK
  <2>2. StreamInv
    BY <2>1 DEF Init, StreamInv, PumpSteps
  <2>3. <<>> \o <<>> = <<>>
    BY ConcatEmptySeq
  <2>4. Contract!Init
    BY <2>3 DEF Init, Contract!Init, StreamState, QueuedBytes
  <2> QED BY <2>2, <2>4
<1>2. StreamInv /\ [Next]_vars => StreamInv' /\ [Contract!Next]_(Contract!vars)
  BY StreamStep
<1> QED BY <1>1, <1>2, PTL DEF Spec, IsByteStream, Contract!Spec
=============================================================================
