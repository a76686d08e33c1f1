-------------------------- MODULE ThreadQueues_proofs --------------------------
(***************************************************************************)
(* The two queues between threads.  Commands of the C API: each is         *)
(* answered at most once and never by nobody, for any number of            *)
(* application threads.  Samples in a ring: for any capacity the audio and *)
(* the network thread see a bounded queue and never share a slot.          *)
(***************************************************************************)
EXTENDS EngineCommands, SpscRing, WellFoundedInduction, SequenceTheorems, TLAPS

CommandSet == Clients \cup {Stop}

\* A batch only exists while it is run or refused, and nothing is queued once closed_ is set.
QueueInv ==
  /\ queue \in Seq(CommandSet) /\ batch \in Seq(CommandSet)
  /\ client \in [Clients -> {"free", "waiting", "ran", "refused"}]
  /\ closed => queue = <<>> /\ pc \in {"closing", "exited"}
  /\ pc \in {"loop", "check"} \/ (pc = "closing" /\ ~closed) => batch = <<>>
  /\ pc = "exited" => closed /\ batch = <<>>

\* The part of WaitingIsQueued that ties each waiting thread to one command.
OneEach(commands, state) ==
  /\ \A c \in Clients : state[c] = "waiting" <=> \E i \in 1..Len(commands) : commands[i] = c
  /\ \A i, j \in 1..Len(commands) : commands[i] = commands[j] /\ commands[i] # Stop => i = j

Inv == QueueInv /\ OneEach(Commands, client)

-----------------------------------------------------------------------------
\* Queueing a command of a thread that did not wait.
LEMMA Queueing ==
  ASSUME NEW q \in Seq(CommandSet), NEW state, NEW next, NEW c \in CommandSet,
         OneEach(q, state),
         \A d \in Clients : next[d] = IF d = c THEN "waiting" ELSE state[d],
         c \in Clients => state[c] # "waiting"
  PROVE  OneEach(Append(q, c), next)
<1> DEFINE r == Append(q, c)
<1>1. /\ Len(r) = Len(q) + 1 /\ Len(q) \in Nat
      /\ \A i \in 1..Len(q) : r[i] = q[i]
      /\ r[Len(q) + 1] = c
  BY AppendProperties, LenProperties
<1>2. c # Stop => \A i \in 1..Len(q) : q[i] # c
  BY DEF OneEach, CommandSet
<1> HIDE DEF r
<1>3. ASSUME NEW d \in Clients
      PROVE  next[d] = "waiting" <=> \E i \in 1..Len(r) : r[i] = d
  <2>1. (\E i \in 1..Len(r) : r[i] = d) <=> d = c \/ \E i \in 1..Len(q) : q[i] = d
    BY <1>1
  <2> QED BY <2>1 DEF OneEach
<1>4. \A i, j \in 1..Len(r) : r[i] = r[j] /\ r[i] # Stop => i = j
  BY <1>1, <1>2 DEF OneEach
<1> QED BY <1>3, <1>4 DEF OneEach, r

\* Answering the oldest command.
LEMMA Answering ==
  ASSUME NEW q \in Seq(CommandSet), q # <<>>, NEW state, NEW next,
         OneEach(q, state),
         \A d \in Clients : IF d = Head(q) THEN next[d] # "waiting" ELSE next[d] = state[d]
  PROVE  OneEach(Tail(q), next)
<1> DEFINE r == Tail(q)
<1>1. /\ Len(r) = Len(q) - 1 /\ Len(q) \in Nat \ {0}
      /\ \A i \in 1..Len(r) : r[i] = q[i + 1]
      /\ Head(q) = q[1]
  BY HeadTailProperties, LenProperties, EmptySeq
<1> HIDE DEF r
<1>2. \A i \in 1..Len(r) : i + 1 \in 1..Len(q) /\ r[i] = q[i + 1]
  BY <1>1
<1>3. ASSUME NEW d \in Clients
      PROVE  next[d] = "waiting" <=> \E i \in 1..Len(r) : r[i] = d
  <2>1. d # Stop
    BY EngineCommandsAssumption
  <2>2. CASE d = Head(q)
    <3>1. \A i \in 1..Len(r) : r[i] # d
      BY <1>1, <1>2, <2>1, <2>2 DEF OneEach
    <3> QED BY <2>2, <3>1
  <2>3. CASE d # Head(q)
    <3>1. ASSUME NEW i \in 1..Len(q), q[i] = d
          PROVE  \E j \in 1..Len(r) : r[j] = d
      <4>1. i - 1 \in 1..Len(r) /\ r[i - 1] = d
        BY <1>1, <2>3, <3>1
      <4> QED BY <4>1
    <3>2. (\E i \in 1..Len(r) : r[i] = d) => \E i \in 1..Len(q) : q[i] = d
      BY <1>2
    <3>3. next[d] = state[d]
      BY <2>3
    <3> QED BY <3>1, <3>2, <3>3 DEF OneEach
  <2> QED BY <2>2, <2>3
<1>4. \A i, j \in 1..Len(r) : r[i] = r[j] /\ r[i] # Stop => i = j
  BY <1>1, <1>2 DEF OneEach
<1> QED BY <1>3, <1>4 DEF OneEach, r

\* What the thread takes from the queue is still under way.
LEMMA Taking ==
  ASSUME NEW q \in Seq(CommandSet)
  PROVE  q \o <<>> = q /\ <<>> \o q = q
  BY ConcatEmptySeq

LEMMA CommandsMoved ==
  ASSUME QueueInv
  PROVE  /\ Commands \in Seq(CommandSet)
         /\ \A c \in CommandSet : batch \o Append(queue, c) = Append(Commands, c)
         /\ batch # <<>> => /\ Commands # <<>> /\ Head(Commands) = Head(batch)
                           /\ Tail(batch) \o queue = Tail(Commands)
                           /\ Head(batch) \in CommandSet /\ Tail(batch) \in Seq(CommandSet)
<1> USE DEF QueueInv
<1>1. Commands \in Seq(CommandSet)
  BY ConcatProperties DEF Commands
<1>2. ASSUME NEW c \in CommandSet
      PROVE  batch \o Append(queue, c) = Append(Commands, c)
  BY <1>2 DEF Commands
<1>3. ASSUME batch # <<>>
      PROVE  /\ Commands # <<>> /\ Head(Commands) = Head(batch)
             /\ Tail(batch) \o queue = Tail(Commands)
             /\ Head(batch) \in CommandSet /\ Tail(batch) \in Seq(CommandSet)
  BY <1>3 DEF Commands
<1> QED BY <1>1, <1>2, <1>3, Zenon

LEMMA InvStep ==
  ASSUME Inv, [Next]_vars
  PROVE  Inv'
<1> USE DEF Inv
<1>1. ASSUME NEW c \in Clients, Run(c)
      PROVE  Inv'
  <2>1. client[c] # "waiting" /\ UNCHANGED <<closed, pc, batch>>
    BY <1>1 DEF Run
  <2>2. CASE closed
    <3>1. client' = [client EXCEPT ![c] = "refused"] /\ queue' = queue
      BY <1>1, <2>2 DEF Run
    <3>2. QueueInv'
      BY <2>1, <3>1 DEF QueueInv
    <3>3. OneEach(Commands, client')
      BY <2>1, <3>1 DEF OneEach, QueueInv
    <3>4. Commands' = Commands
      BY <2>1, <3>1 DEF Commands
    <3> QED BY <3>2, <3>3, <3>4
  <2>3. CASE ~closed
    <3>1. client' = [client EXCEPT ![c] = "waiting"] /\ queue' = Append(queue, c)
      BY <1>1, <2>3 DEF Run
    <3>2. QueueInv'
      BY <2>1, <2>3, <3>1 DEF QueueInv, CommandSet
    <3>3. Commands' = Append(Commands, c)
      BY <2>1, <3>1, CommandsMoved DEF Commands, CommandSet
    <3>4. \A d \in Clients : client'[d] = IF d = c THEN "waiting" ELSE client[d]
      BY <3>1 DEF QueueInv
    <3>5. OneEach(Append(Commands, c), client')
      <4>1. c \in CommandSet /\ Commands \in Seq(CommandSet)
        BY CommandsMoved DEF CommandSet
      <4> QED BY <2>1, <3>4, <4>1, Queueing
    <3> QED BY <3>2, <3>3, <3>5
  <2> QED BY <2>2, <2>3
<1>2. CASE Destroy
  <2>1. UNCHANGED <<closed, pc, batch, client>> /\ queue' = IF closed THEN queue ELSE Append(queue, Stop)
    BY <1>2 DEF Destroy
  <2>2. QueueInv'
    BY <2>1 DEF QueueInv, CommandSet
  <2>3. CASE closed
    <3>1. Commands' = Commands /\ client' = client
      BY <2>1, <2>3 DEF Commands
    <3> QED BY <2>2, <3>1
  <2>4. CASE ~closed
    <3>1. Commands' = Append(Commands, Stop) /\ client' = client
      BY <2>1, <2>4, CommandsMoved DEF Commands, CommandSet
    <3>2. OneEach(Append(Commands, Stop), client)
      BY CommandsMoved, Queueing, EngineCommandsAssumption, Zenon DEF CommandSet
    <3> QED BY <2>2, <3>1, <3>2
  <2> QED BY <2>3, <2>4
<1>3. CASE TakeQueue \/ Close
  <2>1. /\ batch = <<>> /\ batch' = queue /\ queue' = <<>> /\ client' = client
    BY <1>3 DEF TakeQueue, Close, QueueInv
  <2>2. QueueInv'
    BY <1>3, <2>1 DEF TakeQueue, Close, QueueInv
  <2>3. Commands' = Commands
    BY <2>1, Taking DEF Commands, QueueInv
  <2> QED BY <2>1, <2>2, <2>3
<1>4. CASE RunCommand \/ Abandon
  <2>1. /\ batch # <<>> /\ batch' = Tail(batch) /\ UNCHANGED <<queue, closed, pc>>
        /\ pc \in {"commands", "closing"} /\ (pc = "closing" => closed)
    BY <1>4 DEF RunCommand, Abandon
  <2>2. \/ Head(batch) = Stop /\ client' = client
        \/ /\ Head(batch) # Stop
           /\ \E answer \in {"ran", "refused"} : client' = [client EXCEPT ![Head(batch)] = answer]
    BY <1>4 DEF RunCommand, Abandon
  <2>3. QueueInv'
    BY <2>1, <2>2, CommandsMoved, Zenon DEF QueueInv, CommandSet
  <2>4. Commands' = Tail(Commands) /\ Head(batch) = Head(Commands) /\ Commands # <<>>
    BY <2>1, CommandsMoved DEF Commands
  <2>5. \A d \in Clients : IF d = Head(Commands) THEN client'[d] # "waiting" ELSE client'[d] = client[d]
    BY <2>2, <2>4, EngineCommandsAssumption DEF QueueInv
  <2>6. OneEach(Tail(Commands), client')
    BY <2>4, <2>5, CommandsMoved, Answering
  <2> QED BY <2>3, <2>4, <2>6
<1>5. CASE Joined \/ Work \/ Check \/ Exit \/ GraceEnds \/ UNCHANGED vars
  <2>1. UNCHANGED <<queue, batch, closed, client>>
    BY <1>5 DEF Joined, Work, Check, Exit, GraceEnds, vars
  <2>2. QueueInv'
    BY <1>5, <2>1 DEF Joined, Work, Check, Exit, GraceEnds, vars, QueueInv
  <2>3. Commands' = Commands
    BY <2>1 DEF Commands
  <2> QED BY <2>1, <2>2, <2>3
<1> QED BY <1>1, <1>2, <1>3, <1>4, <1>5 DEF Next, Network

\* For any number of application threads: whoever waits in run() has exactly one command in the
\* queue or in the batch the network thread works on, nobody else has one, and none is left when
\* the thread exits, so no promise is forgotten or set twice.
THEOREM CommandsSafe == Spec => []WaitingIsQueued
<1>1. Init => Inv
  <2> SUFFICES ASSUME Init PROVE Inv
    OBVIOUS
  <2>1. QueueInv
    BY DEF Init, QueueInv
  <2>2. Commands = <<>> /\ Len(Commands) = 0
    BY DEF Init, Commands
  <2>3. OneEach(Commands, client)
    BY <2>2 DEF Init, OneEach
  <2> QED BY <2>1, <2>3 DEF Inv
<1>2. Inv /\ [Next]_vars => Inv'
  BY InvStep
<1>3. Inv => WaitingIsQueued
  <2> SUFFICES ASSUME Inv PROVE WaitingIsQueued
    OBVIOUS
  <2>1. pc = "exited" => Commands = <<>>
    BY Taking DEF Inv, QueueInv, Commands
  <2> QED BY <2>1 DEF Inv, OneEach, WaitingIsQueued
<1> QED BY <1>1, <1>2, <1>3, PTL DEF Spec

-----------------------------------------------------------------------------
(* The ring's index arithmetic: subtraction, addition and masking that     *)
(* wrap around.                                                            *)

LEMMA LeastNat ==
  ASSUME NEW S, S \subseteq Nat, S # {}
  PROVE  \E x \in S : \A y \in S : x <= y
<1> DEFINE R == OpToRel(<, Nat)
<1>1. IsWellFoundedOn(R, Nat)
  BY NatLessThanWellFounded, Zenon
<1>2. \A x, y \in Nat : <<y, x>> \in R <=> y < x
  BY DEF OpToRel
<1> HIDE DEF R
<1>3. PICK x \in S : \A y \in S : ~ (<<y, x>> \in R)
  BY <1>1, WFMin, Zenon
<1>4. \A y \in S : ~ (y < x)
  BY <1>2, <1>3, Zenon
<1> QED BY <1>4

LEMMA Division ==
  ASSUME NEW x \in Int, NEW m \in Nat \ {0}
  PROVE  x % m \in 0..(m - 1) /\ \E q \in Int : x = q * m + (x % m)
<1>1. x = m * (x \div m) + (x % m) /\ x \div m \in Int /\ x % m \in 0..(m - 1)
  OBVIOUS
<1>2. PICK q \in Int : q = x \div m
  BY <1>1
<1>3. x = q * m + (x % m)
  BY <1>1, <1>2
<1> QED BY <1>1, <1>3, Zenon

LEMMA Remainder ==
  ASSUME NEW m \in Nat \ {0}, NEW q \in Int, NEW r \in 0..(m - 1)
  PROVE  (q * m + r) % m = r
  OBVIOUS

LEMMA DoubledPower ==
  ASSUME NEW c \in Nat \ {0}, PowerOfTwo(c)
  PROVE  PowerOfTwo(2 * c)
<1> SUFFICES ASSUME NEW d \in 2..(2 * c), (2 * c) % d = 0, d % 2 # 0
             PROVE  FALSE
  BY DEF PowerOfTwo
<1>1. d \in Nat \ {0} /\ d >= 2
  OBVIOUS
<1>2. PICK q \in Int : 2 * c = q * d
  <2>1. PICK x \in Int : x = 2 * c
    OBVIOUS
  <2>2. \E q \in Int : x = q * d + (x % d)
    BY <1>1, Division, Zenon
  <2> QED BY <1>1, <2>1, <2>2
<1>3. PICK h \in Int : d = 2 * h + 1
  <2>1. d % 2 \in 0..1 /\ \E q1 \in Int : d = q1 * 2 + (d % 2)
    BY <1>1, Division
  <2> QED BY <2>1
<1>4. PICK p \in Int : q = 2 * p
  <2>1. q % 2 \in 0..(2 - 1) /\ \E q1 \in Int : q = q1 * 2 + (q % 2)
    BY Division, 2 \in Nat \ {0}, Zenon
  <2>2. PICK q1 \in Int : q = 2 * q1 \/ q = 2 * q1 + 1
    BY <2>1
  <2>3. ASSUME q = 2 * q1 + 1 PROVE FALSE
    <3>1. q * d = 2 * (2 * (q1 * h) + q1 + h) + 1
      BY <1>3, <2>3
    <3>2. PICK z \in Int : z = 2 * (q1 * h) + q1 + h
      OBVIOUS
    <3> QED BY <1>2, <3>1, <3>2
  <2> QED BY <2>2, <2>3
<1>5. c = p * d
  <2>1. 2 * c = 2 * (p * d)
    BY <1>1, <1>2, <1>4
  <2>2. PICK z \in Int : z = p * d
    BY <1>1
  <2> QED BY <2>1, <2>2
<1>6. c % d = 0
  <2>1. (p * d + 0) % d = 0
    BY <1>1, Remainder
  <2> QED BY <1>1, <1>5, <2>1
<1>7. d <= c
  BY <1>1, <1>5
<1> QED BY <1>1, <1>6, <1>7 DEF PowerOfTwo

\* The constructor's loop ends at a capacity between the minimum and twice the minimum.
LEMMA CapacityFound ==
  ASSUME NEW n \in Nat
  PROVE  \E c \in (n + 1)..(2 * n + 1) : PowerOfTwo(c)
<1> DEFINE Fails == {k \in Nat : ~ \E c \in (k + 1)..(2 * k + 1) : PowerOfTwo(c)}
<1>1. SUFFICES ASSUME Fails # {} PROVE FALSE
  BY Zenon
<1>2. PICK k \in Fails : \A j \in Fails : k <= j
  BY <1>1, LeastNat, Zenon
<1>3. k # 0
  <2>1. PowerOfTwo(1)
    BY DEF PowerOfTwo
  <2> QED BY <2>1
<1>4. PICK h \in Nat : k = 2 * h \/ k = 2 * h + 1
  <2>1. k % 2 \in 0..1 /\ \E q \in Int : k = q * 2 + (k % 2)
    BY Division
  <2>2. PICK q \in Int : k = 2 * q \/ k = 2 * q + 1
    BY <2>1
  <2> QED BY <2>2
<1>5. h \notin Fails
  BY <1>2, <1>3, <1>4
<1>6. PICK c \in (h + 1)..(2 * h + 1) : PowerOfTwo(c)
  BY <1>5
<1>7. PowerOfTwo(2 * c)
  BY <1>6, DoubledPower
<1>8. ASSUME k = 2 * h, c = 2 * h + 1 PROVE FALSE
  <2>1. c \in 2..c /\ c % c = 0 /\ c % 2 = 1
    <3>1. (1 * c + 0) % c = 0 /\ (h * 2 + 1) % 2 = 1
      BY Remainder
    <3> QED BY <1>3, <1>8, <3>1
  <2> QED BY <1>6, <2>1 DEF PowerOfTwo
<1>9. 2 * c \in (k + 1)..(2 * k + 1)
  BY <1>4, <1>8
<1> QED BY <1>2, <1>7, <1>9

LEMMA SlotsFacts ==
  /\ Slots \in Nat \ {0} /\ mask \in Nat /\ mask = Slots - 1 /\ mask >= MinimumCapacity
  /\ IndexModulus \in Nat \ {0}
<1>1. MinimumCapacity \in Nat /\ IndexModulus \in Nat \ {0}
  BY SpscRingAssumption
<1>2. Slots \in (MinimumCapacity + 1)..(2 * MinimumCapacity + 1)
  BY <1>1, CapacityFound DEF Slots, Capacity
<1> QED BY <1>1, <1>2 DEF mask

\* Masking after a wrap of the index is masking before it: the capacity divides the indices.
LEMMA MaskedWrap ==
  ASSUME NEW x \in Int
  PROVE  x % IndexModulus \in Indices /\ Masked(x % IndexModulus) = Masked(x)
<1>1. PICK k \in Int : IndexModulus = k * Slots
  <2>1. IndexModulus % Slots = 0 /\ \E q \in Int : IndexModulus = q * Slots + (IndexModulus % Slots)
    <3>1. IndexModulus \in Int
      BY SlotsFacts
    <3> QED BY <3>1, SlotsFacts, SpscRingAssumption, Division, Zenon
  <2> QED BY <2>1, SlotsFacts
<1>2. PICK r \in Int : r = x % IndexModulus /\ r \in Indices
  <2>1. x % IndexModulus \in 0..(IndexModulus - 1)
    BY SlotsFacts, Division
  <2> QED BY <2>1, SlotsFacts DEF Indices
<1>3. PICK q \in Int : x = q * IndexModulus + r
  BY SlotsFacts, Division, <1>2, Zenon
<1>4. PICK t \in 0..mask : t = r % Slots
  BY SlotsFacts, Division, Zenon
<1>5. PICK p \in Int : r = p * Slots + t
  BY SlotsFacts, Division, <1>4, Zenon
<1>6. x = (q * k + p) * Slots + t
  BY SlotsFacts, <1>1, <1>3, <1>5
<1>7. x % Slots = t
  <2>1. PICK z \in Int : z = q * k + p
    OBVIOUS
  <2> QED BY SlotsFacts, Remainder, <1>6, <2>1
<1> QED BY <1>2, <1>4, <1>7 DEF Masked

\* Two numbers less than a ring apart have the same slot only if they are equal.
LEMMA SlotMoves ==
  ASSUME NEW x \in Int, NEW n \in 0..mask
  PROVE  /\ Masked(x) \in 0..mask
         /\ Masked(x + n) = IF Masked(x) + n < Slots THEN Masked(x) + n ELSE Masked(x) + n - Slots
<1>1. PICK t \in 0..mask : t = x % Slots
  BY SlotsFacts, Division, Zenon
<1>2. PICK q \in Int : x = q * Slots + t
  BY SlotsFacts, Division, <1>1, Zenon
<1>3. CASE t + n < Slots
  <2>1. x + n = q * Slots + (t + n) /\ t + n \in 0..(Slots - 1)
    BY SlotsFacts, <1>2, <1>3
  <2>2. (x + n) % Slots = t + n
    BY SlotsFacts, Remainder, <2>1, Zenon
  <2> QED BY <1>1, <1>3, <2>2 DEF Masked
<1>4. CASE ~(t + n < Slots)
  <2>1. PICK z \in Int : z = q + 1
    OBVIOUS
  <2>2. PICK s \in 0..(Slots - 1) : s = t + n - Slots
    BY SlotsFacts, <1>4
  <2>3. x + n = z * Slots + s
    BY SlotsFacts, <1>2, <1>4, <2>1, <2>2
  <2>4. (z * Slots + s) % Slots = s
    BY SlotsFacts, Remainder, Zenon
  <2> QED BY <1>1, <1>4, <2>2, <2>3, <2>4 DEF Masked
<1> QED BY <1>3, <1>4

LEMMA MaskedMinus ==
  ASSUME NEW x \in Int, NEW y \in Int
  PROVE  Masked(x - y) = IF Masked(y) <= Masked(x) THEN Masked(x) - Masked(y) ELSE Masked(x) - Masked(y) + Slots
<1>1. PICK t \in 0..mask : t = x % Slots
  BY SlotsFacts, Division, Zenon
<1>2. PICK q \in Int : x = q * Slots + t
  BY SlotsFacts, Division, <1>1, Zenon
<1>3. PICK u \in 0..mask : u = y % Slots
  BY SlotsFacts, Division, Zenon
<1>4. PICK p \in Int : y = p * Slots + u
  BY SlotsFacts, Division, <1>3, Zenon
<1>5. CASE u <= t
  <2>1. PICK z \in Int : z = q - p
    OBVIOUS
  <2>2. PICK s \in 0..(Slots - 1) : s = t - u
    BY SlotsFacts, <1>5
  <2>3. x - y = z * Slots + s
    BY SlotsFacts, <1>2, <1>4, <1>5, <2>1, <2>2
  <2>4. (z * Slots + s) % Slots = s
    BY SlotsFacts, Remainder, Zenon
  <2> QED BY <1>1, <1>3, <1>5, <2>2, <2>3, <2>4 DEF Masked
<1>6. CASE ~(u <= t)
  <2>1. PICK z \in Int : z = q - p - 1
    OBVIOUS
  <2>2. PICK s \in 0..(Slots - 1) : s = t - u + Slots
    BY SlotsFacts, <1>6
  <2>3. x - y = z * Slots + s
    BY SlotsFacts, <1>2, <1>4, <1>6, <2>1, <2>2
  <2>4. (z * Slots + s) % Slots = s
    BY SlotsFacts, Remainder, Zenon
  <2> QED BY <1>1, <1>3, <1>6, <2>2, <2>3, <2>4 DEF Masked
<1> QED BY <1>5, <1>6

\* What the slots say of two indices, in terms of the slots alone.
LEMMA DistanceFacts ==
  ASSUME NEW r \in Indices, NEW w \in Indices
  PROVE  /\ Distance(r, w) \in 0..mask
         /\ Distance(r, w) = IF Masked(r) <= Masked(w) THEN Masked(w) - Masked(r)
                                                      ELSE Masked(w) - Masked(r) + Slots
<1>1. r \in Int /\ w \in Int /\ IndexModulus \in Int
  BY SlotsFacts DEF Indices
<1>2. PICK x \in Int : x = w - r + IndexModulus
  BY <1>1
<1>3. Distance(r, w) = Masked(x)
  BY <1>2, MaskedWrap DEF Distance
<1>4. Masked(x) = Masked(w - r)
  <2>1. Masked(IndexModulus) = 0
    BY SpscRingAssumption DEF Masked
  <2>2. Masked(x) \in 0..mask
    <3>1. 0 \in 0..mask
      BY SlotsFacts
    <3> QED BY <3>1, SlotMoves, Zenon
  <2>3. Masked(x - IndexModulus) = Masked(x) - 0
    <3>1. Masked(IndexModulus) <= Masked(x)
      BY <2>1, <2>2, SlotsFacts
    <3> QED BY <1>1, <2>1, <3>1, MaskedMinus
  <2>4. x - IndexModulus = w - r
    BY <1>1, <1>2
  <2> QED BY <2>2, <2>3, <2>4, SlotsFacts
<1>5. Masked(r) \in 0..mask /\ Masked(w) \in 0..mask
  <2>1. 0 \in 0..mask
    BY SlotsFacts
  <2> QED BY <1>1, <2>1, SlotMoves
<1>6. Masked(w - r) = IF Masked(r) <= Masked(w) THEN Masked(w) - Masked(r) ELSE Masked(w) - Masked(r) + Slots
  BY <1>1, MaskedMinus
<1> QED BY <1>3, <1>4, <1>5, <1>6, SlotsFacts

LEMMA PlusFacts ==
  ASSUME NEW i \in Indices, NEW n \in 0..mask
  PROVE  /\ Plus(i, n) \in Indices /\ Masked(i) \in 0..mask /\ Masked(Plus(i, n)) \in 0..mask
         /\ Masked(Plus(i, n)) = IF Masked(i) + n < Slots THEN Masked(i) + n ELSE Masked(i) + n - Slots
<1>1. i \in Int /\ n \in Int
  BY SlotsFacts DEF Indices
<1>2. PICK x \in Int : x = i + n
  BY <1>1
<1>3. Plus(i, n) \in Indices /\ Masked(Plus(i, n)) = Masked(i + n)
  BY <1>2, MaskedWrap DEF Plus
<1> QED BY <1>1, <1>3, SlotMoves, SlotsFacts

\* The push that is stored makes the ring longer by what it wrote, the pop shorter by what it read.
LEMMA DistanceMoves ==
  ASSUME NEW r \in Indices, NEW w \in Indices, NEW n \in Nat
  PROVE  /\ Distance(r, r) = 0
         /\ Distance(r, w) + n <= mask => Distance(r, Plus(w, n)) = Distance(r, w) + n
         /\ n <= Distance(r, w) => Distance(Plus(r, n), w) = Distance(r, w) - n
<1>1. Distance(r, r) = 0 /\ Distance(r, w) \in 0..mask
  BY DistanceFacts, PlusFacts, SlotsFacts
<1>2. CASE n \in 0..mask
  <2>1. PICK a \in 0..mask, b \in 0..mask : a = Masked(r) /\ b = Masked(w)
    BY <1>2, PlusFacts
  <2>2. Plus(w, n) \in Indices /\ Masked(Plus(w, n)) = IF b + n < Slots THEN b + n ELSE b + n - Slots
    BY <1>2, <2>1, PlusFacts, Zenon
  <2>3. Plus(r, n) \in Indices /\ Masked(Plus(r, n)) = IF a + n < Slots THEN a + n ELSE a + n - Slots
    BY <1>2, <2>1, PlusFacts, Zenon
  <2>4. Distance(r, w) = IF a <= b THEN b - a ELSE b - a + Slots
    BY <2>1, DistanceFacts
  <2>5. ASSUME Distance(r, w) + n <= mask
        PROVE  Distance(r, Plus(w, n)) = Distance(r, w) + n
    <3>1. PICK c \in 0..mask : c = Masked(Plus(w, n))
      BY <1>2, PlusFacts
    <3>2. Distance(r, Plus(w, n)) = IF a <= c THEN c - a ELSE c - a + Slots
      BY <2>1, <2>2, <3>1, DistanceFacts
    <3> QED BY <1>2, <2>2, <2>4, <2>5, <3>1, <3>2, SlotsFacts
  <2>6. ASSUME n <= Distance(r, w)
        PROVE  Distance(Plus(r, n), w) = Distance(r, w) - n
    <3>1. PICK c \in 0..mask : c = Masked(Plus(r, n))
      BY <1>2, PlusFacts
    <3>2. Distance(Plus(r, n), w) = IF c <= b THEN b - c ELSE b - c + Slots
      BY <2>1, <2>3, <3>1, DistanceFacts
    <3> QED BY <1>2, <2>3, <2>4, <2>6, <3>1, <3>2, SlotsFacts
  <2> QED BY <1>1, <2>5, <2>6
<1>3. CASE n \notin 0..mask
  BY <1>1, <1>3, SlotsFacts
<1> QED BY <1>2, <1>3

\* Slots less than a ring apart are different; the same slot counted from two places.
LEMMA SlotsDiffer ==
  ASSUME NEW i \in Indices, NEW a \in 0..mask, NEW b \in 0..mask, a # b
  PROVE  Masked(Plus(i, a)) # Masked(Plus(i, b))
<1>1. PICK s \in 0..mask : s = Masked(i)
  BY PlusFacts
<1>2. Masked(Plus(i, a)) = IF s + a < Slots THEN s + a ELSE s + a - Slots
  BY <1>1, PlusFacts, Zenon
<1>3. Masked(Plus(i, b)) = IF s + b < Slots THEN s + b ELSE s + b - Slots
  BY <1>1, PlusFacts, Zenon
<1> QED BY <1>2, <1>3, SlotsFacts

LEMMA SlotFrom ==
  ASSUME NEW r \in Indices, NEW w \in Indices, NEW j \in Nat, Distance(r, w) + j <= mask
  PROVE  Masked(Plus(w, j)) = Masked(Plus(r, Distance(r, w) + j))
<1>1. PICK d \in 0..mask : d = Distance(r, w)
  BY DistanceFacts
<1>2. PICK n \in 0..mask : n = d + j
  BY <1>1, SlotsFacts
<1>3. j \in 0..mask
  BY <1>1, SlotsFacts
<1>4. PICK a \in 0..mask, b \in 0..mask : a = Masked(r) /\ b = Masked(w)
  BY <1>3, PlusFacts
<1>5. Masked(Plus(w, j)) = IF b + j < Slots THEN b + j ELSE b + j - Slots
  BY <1>3, <1>4, PlusFacts, Zenon
<1>6. Masked(Plus(r, n)) = IF a + n < Slots THEN a + n ELSE a + n - Slots
  BY <1>4, PlusFacts, Zenon
<1>7. d = IF a <= b THEN b - a ELSE b - a + Slots
  BY <1>1, <1>4, DistanceFacts
<1>8. Masked(Plus(w, j)) = Masked(Plus(r, n))
  BY <1>2, <1>3, <1>5, <1>6, <1>7, SlotsFacts
<1> QED BY <1>1, <1>2, <1>8

LEMMA SlotOnward ==
  ASSUME NEW r \in Indices, NEW n \in Nat, NEW j \in Nat, n + j <= mask
  PROVE  Masked(Plus(Plus(r, n), j)) = Masked(Plus(r, n + j))
<1>1. j \in 0..mask /\ n \in 0..mask /\ n + j \in 0..mask
  BY SlotsFacts
<1>2. PICK i \in Indices : i = Plus(r, n)
  BY <1>1, PlusFacts
<1>3. PICK a \in 0..mask, b \in 0..mask : a = Masked(r) /\ b = Masked(i)
  BY <1>1, PlusFacts
<1>4. b = IF a + n < Slots THEN a + n ELSE a + n - Slots
  BY <1>1, <1>2, <1>3, PlusFacts, Zenon
<1>5. Masked(Plus(i, j)) = IF b + j < Slots THEN b + j ELSE b + j - Slots
  BY <1>1, <1>3, PlusFacts, Zenon
<1>6. PICK m \in 0..mask : m = n + j
  BY <1>1
<1>7. Masked(Plus(r, m)) = IF a + m < Slots THEN a + m ELSE a + m - Slots
  BY <1>3, PlusFacts, Zenon
<1>8. Masked(Plus(i, j)) = Masked(Plus(r, m))
  BY <1>1, <1>4, <1>5, <1>6, <1>7, SlotsFacts
<1> QED BY <1>2, <1>6, <1>8

-----------------------------------------------------------------------------
(* What a ring holds between two indices.                                  *)

Held(b, r, w) == [i \in 1..Distance(r, w) |-> b[Masked(Plus(r, i - 1))]]

LEMMA HeldFacts ==
  ASSUME NEW b \in [0..mask -> Values], NEW r \in Indices, NEW w \in Indices
  PROVE  /\ Held(b, r, w) \in Seq(Values) /\ Len(Held(b, r, w)) = Distance(r, w)
         /\ Distance(r, w) \in 0..mask
         /\ \A i \in 1..Distance(r, w) : Held(b, r, w)[i] = b[Masked(Plus(r, i - 1))]
<1>1. PICK d \in 0..mask : d = Distance(r, w)
  BY DistanceFacts
<1>2. d \in Nat
  BY SlotsFacts
<1>3. \A i \in 1..d : b[Masked(Plus(r, i - 1))] \in Values
  <2> TAKE i \in 1..d
  <2>1. i - 1 \in 0..mask
    BY <1>1, SlotsFacts
  <2>2. Masked(Plus(r, i - 1)) \in 0..mask
    BY <2>1, PlusFacts
  <2> QED BY <2>2
<1>4. Held(b, r, w) = [i \in 1..d |-> b[Masked(Plus(r, i - 1))]]
  BY <1>1 DEF Held
<1>5. Held(b, r, w) \in [1..d -> Values]
  BY <1>3, <1>4
<1>6. Held(b, r, w) \in Seq(Values) /\ Len(Held(b, r, w)) = d
  BY <1>2, <1>5
<1> QED BY <1>1, <1>4, <1>6

\* What is written outside the readable slots leaves what the ring holds alone.
LEMMA HeldKept ==
  ASSUME NEW b, NEW c, NEW r \in Indices, NEW w \in Indices,
         \A i \in 0..(Distance(r, w) - 1) : c[Masked(Plus(r, i))] = b[Masked(Plus(r, i))]
  PROVE  Held(c, r, w) = Held(b, r, w)
<1>1. Distance(r, w) \in Nat
  BY DistanceFacts, SlotsFacts
<1>2. \A i \in 1..Distance(r, w) : i - 1 \in 0..(Distance(r, w) - 1)
  BY <1>1
<1> QED BY <1>2 DEF Held

\* The values copied behind the readable ones become readable in their order.
LEMMA HeldPushed ==
  ASSUME NEW b \in [0..mask -> Values], NEW r \in Indices, NEW w \in Indices,
         NEW n \in Nat, Distance(r, w) + n <= mask,
         NEW v \in [1..n -> Values],
         \A i \in 0..(n - 1) : b[Masked(Plus(w, i))] = v[i + 1]
  PROVE  Held(b, r, Plus(w, n)) = Held(b, r, w) \o v
<1>1. PICK d \in 0..mask : d = Distance(r, w)
  BY DistanceFacts
<1>2. n \in 0..mask /\ d \in Nat
  BY <1>1, SlotsFacts
<1>3. Plus(w, n) \in Indices
  BY <1>2, PlusFacts
<1>4. Distance(r, Plus(w, n)) = d + n
  BY <1>1, DistanceMoves
<1> DEFINE before == Held(b, r, w)
           after == Held(b, r, Plus(w, n))
<1>5. before \in Seq(Values) /\ Len(before) = d /\ \A i \in 1..d : before[i] = b[Masked(Plus(r, i - 1))]
  BY <1>1, HeldFacts, Zenon
<1>6. /\ after \in Seq(Values) /\ Len(after) = d + n
      /\ \A i \in 1..(d + n) : after[i] = b[Masked(Plus(r, i - 1))]
  <2>1. /\ after \in Seq(Values) /\ Len(after) = Distance(r, Plus(w, n))
        /\ \A i \in 1..Distance(r, Plus(w, n)) : after[i] = b[Masked(Plus(r, i - 1))]
    BY <1>3, HeldFacts, Zenon
  <2> QED BY <1>4, <2>1
<1>7. v \in Seq(Values) /\ Len(v) = n
  OBVIOUS
<1> HIDE DEF before, after
<1>8. ASSUME NEW i \in 1..(d + n) PROVE after[i] = (before \o v)[i]
  <2>1. CASE i <= d
    <3>1. i \in 1..d
      BY <1>2, <2>1
    <3> QED BY <1>5, <1>6, <1>7, <3>1
  <2>2. CASE ~(i <= d)
    <3>1. PICK j \in 0..(n - 1) : i = d + j + 1
      <4>1. i - d - 1 \in 0..(n - 1) /\ i = d + (i - d - 1) + 1
        BY <1>2, <2>2
      <4> QED BY <4>1
    <3>2. j \in Nat /\ d + j <= mask /\ i - 1 = d + j
      BY <1>1, <1>2, <3>1, SlotsFacts
    <3>3. Masked(Plus(w, j)) = Masked(Plus(r, d + j))
      BY <1>1, <3>2, SlotFrom, Zenon
    <3>4. after[i] = v[j + 1]
      BY <1>6, <3>2, <3>3, Zenon
    <3>5. (before \o v)[i] = v[i - d]
      BY <1>2, <1>5, <1>7, <2>2
    <3> QED BY <1>2, <3>1, <3>4, <3>5
  <2> QED BY <2>1, <2>2, Zenon
<1>9. before \o v \in Seq(Values) /\ Len(before \o v) = d + n
  BY <1>5, <1>7, ConcatProperties, Zenon
<1>10. after = before \o v
  BY <1>2, <1>6, <1>8, <1>9, SeqEqual, Zenon
<1> QED BY <1>10 DEF before, after

\* Moving the read index to one on its way to the write index drops what lies before it.
LEMMA HeldDropped ==
  ASSUME NEW b \in [0..mask -> Values], NEW r \in Indices, NEW x \in Indices, NEW w \in Indices,
         Distance(r, x) + Distance(x, w) = Distance(r, w)
  PROVE  Held(b, x, w) = SubSeq(Held(b, r, w), Distance(r, x) + 1, Distance(r, w))
<1>1. PICK d \in 0..mask : d = Distance(r, w)
  BY DistanceFacts
<1>2. PICK n \in 0..mask : n = Distance(r, x)
  BY DistanceFacts, Zenon
<1>3. d \in Nat /\ n \in Nat /\ Distance(x, w) = d - n /\ n <= d
  <2>1. Distance(x, w) \in 0..mask
    BY DistanceFacts
  <2> QED BY <1>1, <1>2, <2>1, SlotsFacts
<1> DEFINE before == Held(b, r, w)
           after == Held(b, x, w)
<1>4. before \in Seq(Values) /\ Len(before) = d /\ \A i \in 1..d : before[i] = b[Masked(Plus(r, i - 1))]
  BY <1>1, HeldFacts, Zenon
<1>5. /\ after \in Seq(Values) /\ Len(after) = d - n
      /\ \A i \in 1..(d - n) : after[i] = b[Masked(Plus(x, i - 1))]
  <2>1. /\ after \in Seq(Values) /\ Len(after) = Distance(x, w)
        /\ \A i \in 1..Distance(x, w) : after[i] = b[Masked(Plus(x, i - 1))]
    BY HeldFacts, Zenon
  <2> QED BY <1>3, <2>1, Zenon
<1> HIDE DEF before, after
<1>6. SubSeq(before, n + 1, d) = [i \in 1..(d - n) |-> before[i + n]]
  BY <1>3, <1>4 DEF SubSeq
<1>7. ASSUME NEW i \in 1..(d - n) PROVE after[i] = before[i + n]
  <2>1. i - 1 \in Nat /\ n + (i - 1) <= mask /\ i + n \in 1..d /\ (i + n) - 1 = n + (i - 1)
    BY <1>1, <1>3, SlotsFacts
  <2>2. Masked(Plus(x, i - 1)) = Masked(Plus(r, n + (i - 1)))
    BY <1>2, <2>1, SlotFrom, Zenon
  <2> QED BY <1>4, <1>5, <2>1, <2>2
<1>8. after = [i \in 1..(d - n) |-> before[i + n]]
  <2>1. after \in [1..(d - n) -> Values]
    BY <1>3, <1>5
  <2> QED BY <1>7, <2>1, Zenon
<1> QED BY <1>1, <1>2, <1>6, <1>8, Zenon DEF before, after

-----------------------------------------------------------------------------
(* The invariant: each call under way still holds the index it loaded,     *)
(* what it copied is in place, and the other side has only made room.      *)

PushAt ==
  \/ producer = NoPush
  \/ /\ producer \in [at : {"copying"}, index : Indices, n : Nat, done : Nat, values : Seq(Values)]
     /\ producer.index = write
     /\ producer.done <= producer.n /\ producer.n <= Len(producer.values)
     /\ Distance(read, write) + producer.n <= mask
     /\ \A i \in 0..(producer.done - 1) : buffer[Masked(Plus(write, i))] = producer.values[i + 1]

PopAt ==
  \/ consumer = NoPop /\ meanwhile = 0
  \/ /\ consumer \in [at : {"copying"}, index : Indices, n : Nat, values : Seq(Values)]
     /\ consumer.index = read /\ meanwhile = 0
     /\ Len(consumer.values) <= consumer.n /\ consumer.n <= Distance(read, write)
     /\ \A i \in 1..Len(consumer.values) : consumer.values[i] = buffer[Masked(Plus(read, i - 1))]
  \/ /\ consumer \in [at : {"discarding"}, index : Indices, n : Nat, values : Seq(Values)]
     /\ meanwhile = Distance(consumer.index, write)
     /\ Distance(read, consumer.index) + meanwhile = Distance(read, write)

RingInv ==
  /\ buffer \in [0..mask -> Values] /\ write \in Indices /\ read \in Indices
  /\ PushAt /\ PopAt

LEMMA SamplesFacts ==
  ASSUME NEW values \in Samples
  PROVE  values \in Seq(Values)
<1>1. PICK n \in Counts : values \in [1..n -> Values]
  BY Zenon DEF Samples
<1>2. n \in Nat
  BY <1>1, SpscRingAssumption DEF Counts
<1> QED BY <1>1, <1>2

LEMMA ContentsHeld ==
  /\ Contents = Held(buffer, read, write) /\ Contents' = Held(buffer', read', write')
  /\ RingInv => Contents \in Seq(Values) /\ Len(Contents) = Distance(read, write)
<1>1. Contents = Held(buffer, read, write) /\ Contents' = Held(buffer', read', write')
  BY Zenon DEF Contents, Held
<1> QED BY <1>1, HeldFacts, Zenon DEF RingInv

LEMMA PushLoads ==
  ASSUME RingInv, NEW values \in Samples, PushLoad(values)
  PROVE  RingInv' /\ UNCHANGED <<Contents, popped, consumer>>
<1> DEFINE n == Lower(Len(values), Space(write, read))
<1>1. UNCHANGED <<buffer, write, read, consumer, popped, meanwhile>>
  BY Zenon DEF PushLoad
<1>2. values \in Seq(Values) /\ Distance(read, write) \in 0..mask
  BY SamplesFacts, DistanceFacts, Zenon DEF RingInv
<1>3. n \in Nat /\ n <= Len(values) /\ Distance(read, write) + n <= mask
  BY <1>2, SlotsFacts DEF Lower, Space
<1> HIDE DEF n
<1>4. producer' = [at |-> "copying", index |-> write, done |-> 0, values |-> values, n |-> n]
  BY Zenon DEF PushLoad, n
<1>5. PushAt'
  BY <1>1, <1>2, <1>3, <1>4 DEF PushAt, RingInv
<1>6. PopAt'
  BY <1>1, Zenon DEF PopAt, RingInv
<1> QED BY <1>1, <1>5, <1>6, Zenon DEF RingInv, Contents

\* The slot push() writes next is none that is readable.
LEMMA FreeSlot ==
  ASSUME RingInv, producer.at = "copying", producer.done < producer.n
  PROVE  /\ producer.done \in Nat /\ Distance(read, write) + producer.done \in 0..mask
         /\ Masked(Plus(write, producer.done)) \in 0..mask
         /\ \A i \in 0..(Distance(read, write) + producer.done - 1) :
              Masked(Plus(read, i)) # Masked(Plus(write, producer.done))
<1>1. producer # NoPush
  BY DEF NoPush
<1>2. PICK m \in Nat : m = producer.done
  BY <1>1, Zenon DEF RingInv, PushAt
<1>3. PICK d \in 0..mask : d = Distance(read, write)
  BY DistanceFacts, Zenon DEF RingInv
<1>4. d + m < mask /\ m \in 0..mask /\ d \in Nat
  BY <1>1, <1>2, <1>3, SlotsFacts DEF RingInv, PushAt
<1>5. Masked(Plus(write, m)) = Masked(Plus(read, d + m)) /\ Masked(Plus(write, m)) \in 0..mask
  BY <1>3, <1>4, SlotFrom, PlusFacts, SlotsFacts DEF RingInv
<1>6. ASSUME NEW i \in 0..(d + m - 1) PROVE Masked(Plus(read, i)) # Masked(Plus(read, d + m))
  <2>1. i \in 0..mask /\ d + m \in 0..mask /\ i # d + m
    BY <1>4, SlotsFacts
  <2> QED BY <2>1, SlotsDiffer, Zenon DEF RingInv
<1> QED BY <1>2, <1>3, <1>4, <1>5, <1>6, SlotsFacts

LEMMA PushCopies ==
  ASSUME RingInv, PushCopy
  PROVE  RingInv' /\ UNCHANGED <<Contents, popped, consumer>>
<1>1. producer.at = "copying" /\ producer.done < producer.n /\ producer # NoPush
  BY DEF PushCopy, NoPush
<1>2. UNCHANGED <<write, read, consumer, popped, meanwhile>>
  BY DEF PushCopy
<1>3. PICK m \in Nat : m = producer.done
  BY <1>1, FreeSlot, Zenon
<1>4. PICK d \in Nat : d = Distance(read, write)
  BY DistanceFacts, SlotsFacts DEF RingInv
<1>5. PICK slot \in 0..mask : slot = Masked(Plus(write, m))
  BY <1>1, <1>3, FreeSlot, Zenon
<1>6. \A i \in 0..(d + m - 1) : Masked(Plus(read, i)) # slot
  BY <1>1, <1>3, <1>4, <1>5, FreeSlot, Zenon
<1>7. PICK v \in Values : v = producer.values[m + 1]
  <2>1. m + 1 \in 1..Len(producer.values) /\ producer.values \in Seq(Values)
    BY <1>1, <1>3 DEF RingInv, PushAt
  <2> QED BY <2>1
<1>8. buffer' = [buffer EXCEPT ![slot] = v]
  <2>1. producer.index = write
    BY <1>1, Zenon DEF RingInv, PushAt
  <2> QED BY <1>3, <1>5, <1>7, <2>1 DEF PushCopy
<1>9. buffer' \in [0..mask -> Values] /\ buffer'[slot] = v /\ \A x \in 0..mask : x # slot => buffer'[x] = buffer[x]
  BY <1>5, <1>7, <1>8, Zenon DEF RingInv
<1>10. d + m \in 0..mask
  BY <1>1, <1>3, <1>4, FreeSlot, Zenon
<1>11. \A i \in 0..(d + m - 1) : Masked(Plus(read, i)) \in 0..mask /\ buffer'[Masked(Plus(read, i))] = buffer[Masked(Plus(read, i))]
  <2> TAKE i \in 0..(d + m - 1)
  <2>1. i \in 0..mask
    BY <1>10, SlotsFacts
  <2>2. Masked(Plus(read, i)) \in 0..mask
    BY <2>1, PlusFacts, Zenon DEF RingInv
  <2> QED BY <1>6, <1>9, <2>2, Zenon
<1>12. Contents' = Contents
  <2>1. \A i \in 0..(d - 1) : buffer'[Masked(Plus(read, i))] = buffer[Masked(Plus(read, i))]
    BY <1>11
  <2>2. read \in Indices /\ write \in Indices
    BY DEF RingInv
  <2>3. \A i \in 0..(Distance(read, write) - 1) : buffer'[Masked(Plus(read, i))] = buffer[Masked(Plus(read, i))]
    BY <1>4, <2>1, Zenon
  <2>4. Held(buffer', read, write) = Held(buffer, read, write)
    BY <2>2, <2>3, HeldKept, Zenon
  <2> QED BY <1>2, <2>4, ContentsHeld, Zenon
<1>13. PushAt'
  <2>1. producer' = [producer EXCEPT !.done = m + 1]
    BY <1>3 DEF PushCopy
  <2>2. producer \in [at : {"copying"}, index : Indices, n : Nat, done : Nat, values : Seq(Values)]
    BY <1>1, Zenon DEF RingInv, PushAt
  <2>3. /\ producer' \in [at : {"copying"}, index : Indices, n : Nat, done : Nat, values : Seq(Values)]
        /\ producer'.index = producer.index /\ producer'.n = producer.n
        /\ producer'.values = producer.values /\ producer'.done = m + 1
    BY <2>1, <2>2
  <2>4. ASSUME NEW i \in 0..m PROVE buffer'[Masked(Plus(write, i))] = producer.values[i + 1]
    <3>1. CASE i = m
      BY <1>5, <1>7, <1>9, <3>1, Zenon
    <3>2. CASE i # m
      <4>1. i \in 0..(m - 1) /\ d + i \in 0..(d + m - 1) /\ d + i <= mask
        BY <1>10, <3>2, SlotsFacts
      <4>2. Masked(Plus(write, i)) = Masked(Plus(read, d + i))
        BY <1>4, <4>1, SlotFrom DEF RingInv
      <4>3. buffer'[Masked(Plus(write, i))] = buffer[Masked(Plus(write, i))]
        BY <1>11, <4>1, <4>2, Zenon
      <4>4. buffer[Masked(Plus(write, i))] = producer.values[i + 1]
        BY <1>1, <1>3, <4>1, Zenon DEF RingInv, PushAt
      <4> QED BY <4>3, <4>4, Zenon
    <3> QED BY <3>1, <3>2, Zenon
  <2>5. producer.index = write /\ producer.n <= Len(producer.values) /\ Distance(read, write) + producer.n <= mask
    BY <1>1, Zenon DEF RingInv, PushAt
  <2>6. m + 1 <= producer.n
    BY <1>1, <1>3, <2>2
  <2>7. \A i \in 0..((m + 1) - 1) : buffer'[Masked(Plus(write, i))] = producer.values[i + 1]
    BY <2>4
  <2> QED BY <1>2, <2>3, <2>5, <2>6, <2>7, Zenon DEF PushAt
<1>14. PopAt'
  <2>1. CASE consumer.at = "copying"
    <3>1. \A i \in 1..Len(consumer.values) : consumer.values[i] = buffer'[Masked(Plus(read, i - 1))]
      <4> TAKE i \in 1..Len(consumer.values)
      <4>1. i - 1 \in 0..(d + m - 1)
        BY <1>4, <2>1 DEF RingInv, PopAt, NoPop
      <4>2. consumer.values[i] = buffer[Masked(Plus(read, i - 1))]
        BY <2>1 DEF RingInv, PopAt, NoPop
      <4> QED BY <1>11, <4>1, <4>2, Zenon
    <3> QED BY <1>2, <2>1, <3>1, Zenon DEF RingInv, PopAt, NoPop
  <2>2. CASE consumer.at # "copying"
    BY <1>2, <2>2, Zenon DEF RingInv, PopAt
  <2> QED BY <2>1, <2>2, Zenon
<1> QED BY <1>2, <1>9, <1>12, <1>13, <1>14, Zenon DEF RingInv

LEMMA PushStores ==
  ASSUME RingInv, PushStore
  PROVE  RingInv' /\ FifoQueue!Push /\ consumer' = consumer
<1>1. /\ producer.at = "copying" /\ producer.done = producer.n /\ producer # NoPush
      /\ producer' = NoPush /\ UNCHANGED <<buffer, read, consumer, popped>>
  BY DEF PushStore, NoPush
<1>2. PICK n \in Nat : n = producer.n
  BY <1>1, Zenon DEF RingInv, PushAt
<1>3. PICK values \in Seq(Values) : values = producer.values
  BY <1>1, Zenon DEF RingInv, PushAt
<1>4. /\ n <= Len(values) /\ Distance(read, write) + n <= mask /\ write' = Plus(write, n)
      /\ \A i \in 0..(n - 1) : buffer[Masked(Plus(write, i))] = values[i + 1]
  BY <1>1, <1>2, <1>3, Zenon DEF RingInv, PushAt, PushStore
<1>5. PICK d \in 0..mask : d = Distance(read, write)
  BY DistanceFacts, Zenon DEF RingInv
<1>6. n \in 0..mask /\ d \in Nat
  BY <1>4, <1>5, SlotsFacts
<1>7. write' \in Indices
  BY <1>4, <1>6, PlusFacts, Zenon DEF RingInv
<1>8. Distance(read, write') = d + n
  BY <1>4, <1>5, DistanceMoves, Zenon DEF RingInv
<1>9. PopAt'
  <2>1. CASE consumer = NoPop
    <3>1. consumer.at # "discarding"
      BY <2>1, Zenon DEF NoPop
    <3>2. meanwhile' = 0
      BY <3>1, Zenon DEF PushStore
    <3> QED BY <1>1, <2>1, <3>2, Zenon DEF PopAt
  <2>2. CASE consumer.at = "copying"
    <3>1. meanwhile' = 0
      BY <2>2, Zenon DEF PushStore
    <3>2. /\ consumer \in [at : {"copying"}, index : Indices, n : Nat, values : Seq(Values)]
          /\ consumer.index = read /\ Len(consumer.values) <= consumer.n /\ consumer.n <= d
          /\ \A i \in 1..Len(consumer.values) : consumer.values[i] = buffer[Masked(Plus(read, i - 1))]
      BY <1>5, <2>2 DEF RingInv, PopAt, NoPop
    <3>3. consumer.n <= d + n
      BY <1>6, <3>2
    <3> QED BY <1>1, <1>8, <3>1, <3>2, <3>3, Zenon DEF PopAt
  <2>3. CASE consumer.at = "discarding"
    <3>1. PICK x \in Indices : x = consumer.index
      BY <2>3 DEF RingInv, PopAt, NoPop
    <3>2. /\ consumer \in [at : {"discarding"}, index : Indices, n : Nat, values : Seq(Values)]
          /\ meanwhile = Distance(x, write) /\ Distance(read, x) + Distance(x, write) = d
      BY <1>5, <2>3, <3>1 DEF RingInv, PopAt, NoPop
    <3>3. PICK m \in 0..mask : m = Distance(x, write)
      BY DistanceFacts, Zenon DEF RingInv
    <3>4. PICK k \in 0..mask : k = Distance(read, x)
      BY DistanceFacts, Zenon DEF RingInv
    <3>5. k + m = d
      BY <3>2, <3>3, <3>4, Zenon
    <3>6. m + n <= mask
      BY <1>4, <1>5, <1>6, <3>5, SlotsFacts
    <3>7. Distance(x, write') = m + n
      BY <1>4, <3>3, <3>6, DistanceMoves, Zenon DEF RingInv
    <3>8. meanwhile' = m + n
      BY <1>2, <2>3, <3>2, <3>3, Zenon DEF PushStore
    <3>9. k + (m + n) = d + n
      BY <1>6, <3>5, SlotsFacts
    <3> QED BY <1>1, <1>8, <3>1, <3>2, <3>4, <3>7, <3>8, <3>9, Zenon DEF PopAt
  <2> QED BY <2>1, <2>2, <2>3, Zenon DEF RingInv, PopAt
<1>10. RingInv'
  BY <1>1, <1>7, <1>9, Zenon DEF RingInv, PushAt
<1>11. PICK v : v = [i \in 1..n |-> values[i]]
  BY Zenon
<1>12. v \in [1..n -> Values] /\ \A i \in 0..(n - 1) : buffer[Masked(Plus(write, i))] = v[i + 1]
  BY <1>4, <1>11
<1>13. Contents' = Contents \o v
  BY <1>1, <1>4, <1>12, HeldPushed, ContentsHeld, Zenon DEF RingInv
<1>14. Len(Contents') <= mask
  <2>1. Len(Contents') = Distance(read, write')
    BY <1>1, <1>7, ContentsHeld, HeldFacts, Zenon DEF RingInv
  <2> QED BY <1>4, <1>5, <1>8, <2>1, Zenon
<1>15. FifoQueue!Push
  BY <1>1, <1>6, <1>12, <1>13, <1>14, Zenon DEF FifoQueue!Push
<1> QED BY <1>1, <1>10, <1>15, Zenon

LEMMA PopLoads ==
  ASSUME RingInv, NEW count \in Counts, PopLoad(count)
  PROVE  RingInv' /\ UNCHANGED <<Contents, popped>> /\ consumer.at # "discarding"
<1> DEFINE n == Lower(count, Distance(read, write))
<1>1. UNCHANGED <<buffer, write, read, producer, popped, meanwhile>> /\ consumer.at = "idle"
  BY Zenon DEF PopLoad
<1>2. count \in Nat /\ Distance(read, write) \in Nat
  BY DistanceFacts, SlotsFacts, SpscRingAssumption DEF RingInv, Counts
<1>3. n \in Nat /\ n <= Distance(read, write)
  BY <1>2 DEF Lower
<1> HIDE DEF n
<1>4. consumer' = [at |-> "copying", index |-> read, n |-> n, values |-> <<>>]
  BY Zenon DEF PopLoad, n
<1>5. meanwhile = 0
  BY <1>1, Zenon DEF RingInv, PopAt
<1>6. PopAt'
  <2>1. /\ consumer' \in [at : {"copying"}, index : Indices, n : Nat, values : Seq(Values)]
        /\ consumer'.index = read /\ consumer'.n = n /\ consumer'.values = <<>>
    BY <1>3, <1>4, EmptySeq, Zenon DEF RingInv
  <2>2. Len(consumer'.values) = 0
    BY <2>1
  <2> QED BY <1>1, <1>3, <1>5, <2>1, <2>2 DEF PopAt
<1>7. PushAt'
  BY <1>1, Zenon DEF PushAt, RingInv
<1> QED BY <1>1, <1>6, <1>7, Zenon DEF RingInv, Contents

LEMMA PopCopies ==
  ASSUME RingInv, PopCopy
  PROVE  RingInv' /\ UNCHANGED <<Contents, popped>> /\ consumer.at # "discarding"
<1>1. UNCHANGED <<buffer, write, read, producer, popped, meanwhile>> /\ consumer.at = "copying"
  BY DEF PopCopy
<1>2. /\ consumer \in [at : {"copying"}, index : Indices, n : Nat, values : Seq(Values)]
      /\ consumer.index = read /\ meanwhile = 0
      /\ Len(consumer.values) <= consumer.n /\ consumer.n <= Distance(read, write)
      /\ \A i \in 1..Len(consumer.values) : consumer.values[i] = buffer[Masked(Plus(read, i - 1))]
  <2>1. consumer # NoPop
    BY <1>1 DEF NoPop
  <2> QED BY <1>1, <2>1 DEF RingInv, PopAt
<1>3. PICK values \in Seq(Values) : values = consumer.values
  BY <1>2
<1>4. PICK k \in Nat : k = Len(values) /\ k < consumer.n
  BY <1>3 DEF PopCopy
<1>5. k \in 0..mask
  BY <1>2, <1>4, DistanceFacts, SlotsFacts DEF RingInv
<1>6. PICK v \in Values : v = buffer[Masked(Plus(read, k))]
  BY <1>5, PlusFacts, Zenon DEF RingInv
<1>7. PICK more \in Seq(Values) : more = Append(values, v)
  BY AppendProperties, Zenon
<1>8. Len(more) = k + 1 /\ more[k + 1] = v /\ \A i \in 1..k : more[i] = values[i]
  BY <1>4, <1>7
<1>9. consumer' = [consumer EXCEPT !.values = more]
  BY <1>2, <1>3, <1>4, <1>6, <1>7 DEF PopCopy
<1>10. /\ consumer' \in [at : {"copying"}, index : Indices, n : Nat, values : Seq(Values)]
       /\ consumer'.index = read /\ consumer'.n = consumer.n /\ consumer'.values = more
  BY <1>2, <1>9
<1>11. ASSUME NEW i \in 1..(k + 1) PROVE more[i] = buffer[Masked(Plus(read, i - 1))]
  <2>1. CASE i = k + 1
    BY <1>4, <1>6, <1>8, <2>1
  <2>2. CASE i \in 1..k
    BY <1>2, <1>3, <1>4, <1>8, <2>2
  <2> QED BY <1>4, <2>1, <2>2
<1>12. k + 1 <= consumer.n
  BY <1>2, <1>4
<1>13. PopAt'
  BY <1>1, <1>2, <1>8, <1>10, <1>11, <1>12 DEF PopAt
<1>14. PushAt'
  BY <1>1 DEF PushAt, RingInv
<1> QED BY <1>1, <1>13, <1>14, Zenon DEF RingInv, Contents

\* Moving the read index forward leaves a push under way the room it found.
LEMMA PushUndisturbed ==
  ASSUME RingInv, read' \in Indices, Distance(read', write) <= Distance(read, write),
         UNCHANGED <<buffer, write, producer>>
  PROVE  PushAt'
<1>1. CASE producer = NoPush
  BY <1>1 DEF PushAt
<1>2. CASE producer # NoPush
  <2>1. Distance(read', write) \in Int /\ Distance(read, write) \in Int
    BY DistanceFacts, SlotsFacts DEF RingInv
  <2>2. producer.n \in Nat /\ Distance(read, write) + producer.n <= mask
    BY <1>2 DEF RingInv, PushAt
  <2>3. Distance(read', write) + producer.n <= mask
    BY <2>1, <2>2, SlotsFacts
  <2> QED BY <1>2, <2>3 DEF RingInv, PushAt
<1> QED BY <1>1, <1>2

LEMMA PopStores ==
  ASSUME RingInv, PopStore
  PROVE  RingInv' /\ FifoQueue!Pop /\ consumer.at # "discarding"
<1>1. /\ UNCHANGED <<buffer, write, producer, meanwhile>> /\ consumer.at = "copying"
      /\ Len(consumer.values) = consumer.n /\ consumer' = NoPop /\ popped' = consumer.values
  BY DEF PopStore
<1>2. /\ consumer \in [at : {"copying"}, index : Indices, n : Nat, values : Seq(Values)]
      /\ consumer.index = read /\ meanwhile = 0
      /\ consumer.n <= Distance(read, write)
      /\ \A i \in 1..Len(consumer.values) : consumer.values[i] = buffer[Masked(Plus(read, i - 1))]
  BY <1>1 DEF RingInv, PopAt, NoPop
<1>3. PICK n \in Nat : n = consumer.n
  BY <1>2
<1>4. PICK d \in 0..mask : d = Distance(read, write)
  BY DistanceFacts DEF RingInv
<1>5. n \in 0..mask /\ n <= d /\ d \in Nat /\ read' = Plus(read, n)
  BY <1>2, <1>3, <1>4, SlotsFacts DEF PopStore
<1>6. read' \in Indices
  BY <1>5, PlusFacts DEF RingInv
<1>7. Distance(read', write) = d - n
  BY <1>4, <1>5, DistanceMoves DEF RingInv
<1>8. Distance(read, read') = n
  <2>1. Distance(read, read) = 0
    BY <1>5, DistanceMoves DEF RingInv
  <2>2. Distance(read, read) + n <= mask
    BY <1>5, <2>1, SlotsFacts
  <2>3. Distance(read, Plus(read, n)) = Distance(read, read) + n
    BY <1>5, <2>2, DistanceMoves DEF RingInv
  <2> QED BY <1>5, <2>1, <2>3
<1>9. Contents \in Seq(Values) /\ Len(Contents) = d /\ \A i \in 1..d : Contents[i] = buffer[Masked(Plus(read, i - 1))]
  BY <1>4, ContentsHeld, HeldFacts, Zenon DEF RingInv
<1>10. Contents' = SubSeq(Contents, n + 1, d)
  <2>1. Distance(read, read') + Distance(read', write) = Distance(read, write)
    BY <1>4, <1>5, <1>7, <1>8
  <2>2. Held(buffer, read', write) = SubSeq(Held(buffer, read, write), Distance(read, read') + 1, Distance(read, write))
    BY <1>6, <2>1, HeldDropped DEF RingInv
  <2> QED BY <1>1, <1>4, <1>8, <2>2, ContentsHeld
<1>11. popped' = SubSeq(Contents, 1, n)
  <2>1. SubSeq(Contents, 1, n) = [i \in 1..n |-> Contents[i]]
    BY <1>5, <1>9 DEF SubSeq
  <2>2. \A i \in 1..n : Contents[i] = consumer.values[i]
    <3>1. Len(consumer.values) = n
      BY <1>1, <1>3
    <3>2. \A i \in 1..n : i \in 1..d
      BY <1>5
    <3> QED BY <1>2, <1>9, <3>1, <3>2, Zenon
  <2>3. consumer.values \in [1..n -> Values]
    BY <1>1, <1>2, <1>3
  <2> QED BY <1>1, <2>1, <2>2, <2>3
<1>12. FifoQueue!Pop
  <2>1. n \in 0..Len(Contents)
    BY <1>5, <1>9
  <2> QED BY <1>9, <1>10, <1>11, <2>1, Zenon DEF FifoQueue!Pop
<1>13. PushAt'
  BY <1>1, <1>4, <1>5, <1>6, <1>7, PushUndisturbed
<1>14. PopAt'
  BY <1>1, <1>2 DEF PopAt
<1> QED BY <1>1, <1>6, <1>12, <1>13, <1>14 DEF RingInv

LEMMA DiscardLoads ==
  ASSUME RingInv, DiscardLoad
  PROVE  RingInv' /\ UNCHANGED <<Contents, popped>> /\ consumer.at # "discarding"
<1>1. UNCHANGED <<buffer, write, read, producer, popped, meanwhile>> /\ consumer.at = "idle"
  BY DEF DiscardLoad
<1>2. consumer = NoPop /\ meanwhile = 0
  BY <1>1 DEF RingInv, PopAt
<1>3. consumer' = [at |-> "discarding", index |-> write, n |-> 0, values |-> <<>>]
  BY <1>2, Zenon DEF DiscardLoad, NoPop
<1>4. Distance(write, write) = 0 /\ Distance(read, write) \in Nat
  <2>1. 0 \in Nat
    OBVIOUS
  <2> QED BY <2>1, DistanceFacts, DistanceMoves, SlotsFacts DEF RingInv
<1>5. PopAt'
  <2>1. consumer' \in [at : {"discarding"}, index : Indices, n : Nat, values : Seq(Values)] /\ consumer'.index = write
    BY <1>3, EmptySeq DEF RingInv
  <2>2. meanwhile' = Distance(write, write) /\ Distance(read, write) + meanwhile' = Distance(read, write)
    BY <1>1, <1>2, <1>4
  <2> QED BY <1>1, <2>1, <2>2 DEF PopAt
<1>6. PushAt'
  BY <1>1 DEF PushAt, RingInv
<1> QED BY <1>1, <1>5, <1>6 DEF RingInv, Contents

LEMMA DiscardStores ==
  ASSUME RingInv, DiscardStore
  PROVE  /\ RingInv' /\ FifoQueue!Discard
         /\ Contents' = SubSeq(Contents, Len(Contents) - meanwhile + 1, Len(Contents))
<1>1. /\ UNCHANGED <<buffer, write, producer, popped>> /\ consumer.at = "discarding"
      /\ read' = consumer.index /\ consumer' = NoPop /\ meanwhile' = 0
  BY DEF DiscardStore
<1>2. /\ read' \in Indices /\ meanwhile = Distance(read', write)
      /\ Distance(read, read') + Distance(read', write) = Distance(read, write)
  BY <1>1 DEF RingInv, PopAt, NoPop
<1>3. PICK d \in 0..mask : d = Distance(read, write)
  BY DistanceFacts DEF RingInv
<1>4. PICK n \in 0..mask : n = Distance(read, read')
  BY <1>2, DistanceFacts DEF RingInv
<1>5. meanwhile = d - n /\ n <= d /\ d \in Nat /\ n \in Nat
  <2>1. Distance(read', write) \in 0..mask
    BY <1>2, DistanceFacts DEF RingInv
  <2> QED BY <1>2, <1>3, <1>4, <2>1, SlotsFacts
<1>6. Contents' = SubSeq(Contents, n + 1, d)
  <2>1. Held(buffer, read', write) = SubSeq(Held(buffer, read, write), n + 1, d)
    BY <1>2, <1>3, <1>4, HeldDropped DEF RingInv
  <2> QED BY <1>1, <2>1, ContentsHeld
<1>7. Len(Contents) = d
  BY <1>3, ContentsHeld
<1>8. FifoQueue!Discard
  <2>1. n \in 0..Len(Contents)
    BY <1>5, <1>7
  <2> QED BY <1>1, <1>6, <1>7, <2>1 DEF FifoQueue!Discard
<1>9. PushAt'
  <2>1. Distance(read', write) <= Distance(read, write)
    BY <1>2, <1>3, <1>4, <1>5
  <2> QED BY <1>1, <1>2, <2>1, PushUndisturbed
<1>10. PopAt'
  BY <1>1 DEF PopAt
<1>11. Len(Contents) - meanwhile + 1 = n + 1
  BY <1>5, <1>7
<1> QED BY <1>1, <1>2, <1>6, <1>7, <1>8, <1>9, <1>10, <1>11, Zenon DEF RingInv

LEMMA RingStep ==
  ASSUME RingInv, [RingNext]_ringVars
  PROVE  /\ RingInv' /\ [FifoQueue!Next]_<<Contents, popped>>
         /\ consumer.at = "discarding" /\ consumer'.at = "idle" =>
              \/ UNCHANGED ringVars
              \/ Contents' = SubSeq(Contents, Len(Contents) - meanwhile + 1, Len(Contents))
<1>1. CASE \E values \in Samples : PushLoad(values)
  BY <1>1, PushLoads
<1>2. CASE PushCopy
  BY <1>2, PushCopies
<1>3. CASE PushStore
  BY <1>3, PushStores DEF FifoQueue!Next
<1>4. CASE \E count \in Counts : PopLoad(count)
  BY <1>4, PopLoads
<1>5. CASE PopCopy
  BY <1>5, PopCopies
<1>6. CASE PopStore
  BY <1>6, PopStores DEF FifoQueue!Next
<1>7. CASE DiscardLoad
  BY <1>7, DiscardLoads
<1>8. CASE DiscardStore
  BY <1>8, DiscardStores DEF FifoQueue!Next
<1>9. CASE UNCHANGED ringVars
  BY <1>9 DEF ringVars, RingInv, PushAt, PopAt, Contents
<1> QED BY <1>1, <1>2, <1>3, <1>4, <1>5, <1>6, <1>7, <1>8, <1>9 DEF RingNext

LEMMA RingStarts ==
  ASSUME RingInit
  PROVE  RingInv /\ FifoQueue!Init
<1>1. buffer \in [0..mask -> Values] /\ write = 0 /\ read = 0 /\ 0 \in Indices
  BY SlotsFacts DEF RingInit, Indices
<1>2. Distance(0, 0) = 0
  <2>1. 0 \in Nat
    OBVIOUS
  <2> QED BY <1>1, <2>1, DistanceMoves
<1>3. Contents = <<>>
  BY <1>1, <1>2 DEF Contents
<1> QED BY <1>1, <1>3 DEF RingInit, RingInv, PushAt, PopAt, FifoQueue!Init

-----------------------------------------------------------------------------
\* For any capacity, any index width it divides and any counts: push() and pop() under way at the
\* same time never have a slot of buffer_ in common.
THEOREM RingRaceFree == RingSpec => []NoSlotRace
<1>1. RingInit => RingInv
  BY RingStarts
<1>2. RingInv /\ [RingNext]_ringVars => RingInv'
  BY RingStep
<1>3. RingInv => NoSlotRace
  <2> SUFFICES ASSUME RingInv, producer.at = "copying", consumer.at = "copying",
                      NEW i \in producer.done..(producer.n - 1),
                      NEW j \in Len(consumer.values)..(consumer.n - 1)
               PROVE  Masked(Plus(producer.index, i)) # Masked(Plus(consumer.index, j))
    BY DEF NoSlotRace, Filling, Emptying
  <2>1. PICK d \in 0..mask : d = Distance(read, write)
    BY DistanceFacts DEF RingInv
  <2>2. i \in Nat /\ d + i <= mask /\ producer.index = write
    <3>1. producer # NoPush
      BY DEF NoPush
    <3>2. /\ producer.done \in Nat /\ producer.n \in Nat /\ producer.index = write
          /\ d + producer.n <= mask
      BY <2>1, <3>1 DEF RingInv, PushAt
    <3> QED BY <3>2, SlotsFacts
  <2>3. j \in 0..(d - 1) /\ consumer.index = read
    <3>1. consumer # NoPop
      BY DEF NoPop
    <3>2. /\ consumer.values \in Seq(Values) /\ consumer.n \in Nat /\ consumer.index = read
          /\ consumer.n <= d
      BY <2>1, <3>1 DEF RingInv, PopAt
    <3> QED BY <3>2, SlotsFacts
  <2>4. Masked(Plus(write, i)) = Masked(Plus(read, d + i))
    BY <2>1, <2>2, SlotFrom DEF RingInv
  <2>5. j \in 0..mask /\ d + i \in 0..mask /\ j # d + i
    BY <2>2, <2>3, SlotsFacts
  <2>6. Masked(Plus(read, j)) # Masked(Plus(read, d + i))
    BY <2>5, SlotsDiffer DEF RingInv
  <2> QED BY <2>2, <2>3, <2>4, <2>6
<1> QED BY <1>1, <1>2, <1>3, PTL DEF RingSpec

\* The ring implements the bounded queue: push(), pop() and discard() each take effect when they
\* store their index, whatever the other thread is in the middle of, for any capacity.
THEOREM RingIsQueue == RingSpec => IsFifoQueue
<1>1. RingInit => RingInv /\ FifoQueue!Init
  BY RingStarts
<1>2. RingInv /\ [RingNext]_ringVars => RingInv' /\ [FifoQueue!Next]_<<Contents, popped>>
  BY RingStep
<1> QED BY <1>1, <1>2, PTL DEF RingSpec, IsFifoQueue, FifoQueue!Spec

\* discard() leaves exactly what was pushed since it loaded the write index.
THEOREM DiscardsExactly == RingSpec => DiscardIsExact
<1>1. RingInit => RingInv
  BY RingStarts
<1>2. RingInv /\ [RingNext]_ringVars => RingInv'
  BY RingStep
<1>3. RingInv /\ [RingNext]_ringVars =>
        [consumer.at = "discarding" /\ consumer'.at = "idle" =>
           Contents' = SubSeq(Contents, Len(Contents) - meanwhile + 1, Len(Contents))]_ringVars
  BY RingStep
<1> QED BY <1>1, <1>2, <1>3, PTL DEF RingSpec, DiscardIsExact
=============================================================================
