------------------------- MODULE JitterBuffer_proofs -------------------------
(***************************************************************************)
(* The jitter buffer plays in order and shrinks sparingly, for any limits, *)
(* any order of packets and any clock.                                     *)
(***************************************************************************)
EXTENDS JitterBuffer, FiniteSetTheorems, WellFoundedInduction, SequenceTheorems, TLAPS

-----------------------------------------------------------------------------
(* Least elements.                                                         *)

LEMMA LeastNat ==
  ASSUME NEW S, S \subseteq Nat, S # {}
  PROVE  \E x \in S : \A y \in S : x <= y
<1> DEFINE R == OpToRel(<, Nat)
<1>1. IsWellFoundedOn(R, Nat)
  BY NatLessThanWellFounded, Zenon
<1>2. \A x, y \in Nat : <<y, x>> \in R <=> y < x
  BY DEF OpToRel
<1> HIDE DEF R
<1>3. PICK x \in S : \A y \in S : ~ (<<y, x>> \in R)
  BY <1>1, WFMin, Zenon
<1>4. \A y \in S : ~ (y < x)
  BY <1>2, <1>3, Zenon
<1> QED BY <1>4

LEMMA MinNat ==
  ASSUME NEW S, S \subseteq Nat, S # {}
  PROVE  Min(S) \in S /\ \A y \in S : Min(S) <= y
  BY LeastNat, Zenon DEF Min

\* Among some of the transits there is a fastest: the one that fewest are as fast as.
LEMMA FastestOf ==
  ASSUME NEW k \in Nat, NEW w \in [1..k -> Int], NEW L, L \subseteq 1..k, L # {}
  PROVE  \E i \in L : \A j \in L : w[i] <= w[j]
<1> DEFINE Upto(i) == {m \in 1..k : w[m] <= w[i]}
           Counts == {Cardinality(Upto(i)) : i \in L}
<1>1. \A i \in L : IsFiniteSet(Upto(i)) /\ Cardinality(Upto(i)) \in Nat
  <2> TAKE i \in L
  <2>1. IsFiniteSet(1..k) /\ Upto(i) \in SUBSET (1..k)
    BY FS_Interval
  <2>2. IsFiniteSet(Upto(i))
    BY <2>1, FS_Subset
  <2> QED BY <2>2, FS_CardinalityType
<1>2. PICK i \in L : \A j \in L : Cardinality(Upto(i)) <= Cardinality(Upto(j))
  <2>1. Counts \subseteq Nat /\ Counts # {}
    BY <1>1, Zenon
  <2>2. \E x \in Counts : \A y \in Counts : x <= y
    BY <2>1, LeastNat, Zenon
  <2> QED BY <2>2, Zenon
<1>3. ASSUME NEW j \in L, ~(w[i] <= w[j])
      PROVE  FALSE
  <2>1. w[j] < w[i] /\ i \in 1..k /\ j \in 1..k
    BY <1>3
  <2>2. Upto(j) \in SUBSET Upto(i) /\ i \in Upto(i) /\ i \notin Upto(j)
    BY <2>1
  <2>3. Cardinality(Upto(j)) <= Cardinality(Upto(i)) /\ Cardinality(Upto(j)) # Cardinality(Upto(i))
    <3> HIDE DEF Upto
    <3> QED BY <1>1, <2>2, FS_Subset
  <2>4. Cardinality(Upto(i)) <= Cardinality(Upto(j))
    BY <1>2
  <2> HIDE DEF Upto
  <2> QED BY <1>1, <2>3, <2>4
<1> QED BY <1>3

LEMMA SlowestOf ==
  ASSUME NEW k \in Nat, NEW w \in [1..k -> Int], NEW L, L \subseteq 1..k, L # {}
  PROVE  \E i \in L : \A j \in L : w[j] <= w[i]
<1> DEFINE v == [m \in 1..k |-> 0 - w[m]]
<1>1. v \in [1..k -> Int]
  OBVIOUS
<1> HIDE DEF v
<1>2. PICK i \in L : \A j \in L : v[i] <= v[j]
  BY <1>1, FastestOf, Zenon
<1>3. \A m \in L : w[m] \in Int /\ v[m] = 0 - w[m]
  BY DEF v
<1>4. \A j \in L : w[j] <= w[i]
  BY <1>2, <1>3
<1> QED BY <1>4

\* The order statistic desired_offset_us() asks for exists.
LEMMA PercentileInt ==
  ASSUME window \in Seq(Int), window # <<>>
  PROVE  Percentile \in Int /\ Fastest \in Int
<1> DEFINE k == Len(window)
           rank == ((Len(window) - 1) * 99 + 99) \div 100
           Upto(i) == {m \in DOMAIN window : window[m] <= window[i]}
           Under(i) == {m \in DOMAIN window : window[m] < window[i]}
<1>1. /\ k \in Nat \ {0} /\ window \in [1..k -> Int] /\ DOMAIN window = 1..k
  BY LenProperties, EmptySeq
<1>2. rank \in Nat /\ rank < k
  BY <1>1
<1>3. \A i \in 1..k : window[i] \in Int
  BY <1>1
<1> HIDE DEF k, rank
<1>4. IsFiniteSet(1..k) /\ Cardinality(1..k) = k
  BY <1>1, FS_Interval
<1>5. \A i : /\ Upto(i) \in SUBSET (1..k) /\ Under(i) \in SUBSET (1..k)
  BY <1>1
<1>6. \A i : /\ IsFiniteSet(Upto(i)) /\ Cardinality(Upto(i)) \in Nat
             /\ IsFiniteSet(Under(i)) /\ Cardinality(Under(i)) \in Nat
  <2> HIDE DEF Upto, Under
  <2> TAKE i
  <2>1. IsFiniteSet(Upto(i)) /\ IsFiniteSet(Under(i))
    BY <1>4, <1>5, FS_Subset, Zenon
  <2> QED BY <2>1, FS_CardinalityType
<1>7. PICK slowest \in 1..k : \A j \in 1..k : window[j] <= window[slowest]
  <2>0. 1 \in 1..k
    BY <1>1
  <2>1. k \in Nat /\ 1..k \subseteq 1..k /\ 1..k # {}
    BY <1>1, <2>0, Zenon
  <2> QED BY <1>1, <2>1, SlowestOf, Zenon
<1>8. Cardinality(Upto(slowest)) = k
  <2>1. Upto(slowest) = 1..k
    BY <1>1, <1>7
  <2> QED BY <1>4, <2>1, Zenon
<1> DEFINE Enough == {i \in 1..k : rank < Cardinality(Upto(i))}
           Sizes == {Cardinality(Upto(i)) : i \in Enough}
<1>9. PICK i \in Enough : \A j \in Enough : Cardinality(Upto(i)) <= Cardinality(Upto(j))
  <2>1. Sizes \subseteq Nat /\ Sizes # {}
    BY <1>2, <1>6, <1>8, Zenon
  <2>2. \E x \in Sizes : \A y \in Sizes : x <= y
    BY <2>1, LeastNat, Zenon
  <2> QED BY <2>2, Zenon
<1>10. Cardinality(Under(i)) <= rank
  <2> DEFINE u == Cardinality(Under(i))
  <2>0. u \in Nat
    <3> HIDE DEF Under, Enough
    <3> QED BY <1>6, Zenon
  <2> HIDE DEF u
  <2> SUFFICES ASSUME rank < u PROVE FALSE
    BY <1>2, <2>0 DEF u
  <2>1. Under(i) # {}
    <3> HIDE DEF Under
    <3> SUFFICES ASSUME Under(i) = {} PROVE FALSE
      OBVIOUS
    <3>1. u = 0
      BY FS_EmptySet, Zenon DEF u
    <3> QED BY <1>2, <3>1
  <2>2. PICK j \in Under(i) : \A m \in Under(i) : window[m] <= window[j]
    <3> HIDE DEF Under
    <3> QED BY <1>1, <1>5, <2>1, SlowestOf, Zenon
  <2>3. j \in 1..k /\ window[j] < window[i] /\ i \in 1..k
    BY <1>1
  <2>4. Upto(j) = Under(i)
    BY <1>1, <1>3, <2>2, <2>3
  <2>5. j \in Enough
    <3>1. rank < Cardinality(Upto(j))
      BY <2>4, Zenon DEF u
    <3> HIDE DEF Upto
    <3> QED BY <2>3, <3>1
  <2>6. Upto(j) \in SUBSET Upto(i) /\ i \in Upto(i) /\ i \notin Upto(j)
    BY <1>1, <1>3, <2>3
  <2>7. Cardinality(Upto(j)) <= Cardinality(Upto(i)) /\ Cardinality(Upto(j)) # Cardinality(Upto(i))
    <3> HIDE DEF Upto
    <3> QED BY <1>6, <2>6, FS_Subset, Zenon
  <2>8. Cardinality(Upto(i)) <= Cardinality(Upto(j))
    BY <1>9, <2>5
  <2> DEFINE a == Cardinality(Upto(i))
             b == Cardinality(Upto(j))
  <2>9. a \in Nat /\ b \in Nat
    <3> HIDE DEF Upto, Enough
    <3> QED BY <1>6, Zenon
  <2>10. b <= a /\ b # a /\ a <= b
    BY <2>7, <2>8, Zenon
  <2> HIDE DEF a, b
  <2> QED BY <2>9, <2>10
<1>11. Percentile \in Int
  <2>1. Below(window[i]) = Cardinality(Under(i)) /\ AtMost(window[i]) = Cardinality(Upto(i))
    BY DEF Below, AtMost
  <2>2. i \in 1..k /\ rank < Cardinality(Upto(i))
    OBVIOUS
  <2>3. window[i] \in Transits
    BY <1>1, <2>2 DEF Transits
  <2> HIDE DEF Under, Upto
  <2>4. \E t \in Transits : Below(t) <= rank /\ rank < AtMost(t)
    BY <1>10, <2>1, <2>2, <2>3
  <2>5. Percentile \in Transits
    BY <2>4 DEF Percentile, rank
  <2> QED BY <1>1, <1>3, <2>5 DEF Transits
<1>12. Fastest \in Int
  <2>1. PICK f \in 1..k : \A j \in 1..k : window[f] <= window[j]
    BY <1>1, FastestOf, Zenon
  <2>2. \E t \in Transits : \A u \in Transits : t <= u
    BY <1>1, <2>1, Zenon DEF Transits
  <2>3. Fastest \in Transits
    BY <2>2 DEF Fastest, Min
  <2> QED BY <1>1, <1>3, <2>3 DEF Transits
<1> QED BY <1>11, <1>12

LEMMA DesiredInt ==
  ASSUME window \in Seq(Int), window # <<>>
  PROVE  Desired \in Int
<1>1. ASSUME NEW a \in Int, NEW b \in Int
      PROVE  Max({a, b}) \in Int /\ Min({a, b}) \in Int
  <2>1. \E x \in {a, b} : \A y \in {a, b} : x >= y
    OBVIOUS
  <2>2. \E x \in {a, b} : \A y \in {a, b} : x <= y
    OBVIOUS
  <2> QED BY <2>1, <2>2 DEF Max, Min
<1> DEFINE spread == Percentile - Fastest + Margin
           delay == IF Len(window) < Warmup THEN Max({spread, InitialDelay}) ELSE spread
<1>2. spread \in Int /\ InitialDelay \in Int /\ MaxDelay \in Int /\ Margin \in Int /\ Fastest \in Int
  BY PercentileInt, JitterBufferAssumption DEF Margin
<1> HIDE DEF spread
<1>3. delay \in Int
  BY <1>1, <1>2
<1> HIDE DEF delay
<1>4. Max({Margin, Min({MaxDelay, delay})}) \in Int
  BY <1>1, <1>2, <1>3, Zenon
<1> QED BY <1>2, <1>4 DEF Desired, spread, delay

LEMMA DesiredKept ==
  ASSUME window' = window
  PROVE  Desired' = Desired
<1>1. Transits' = Transits /\ Len(window)' = Len(window)
  BY Zenon DEF Transits
<1>2. Fastest' = Fastest
  BY <1>1, Zenon DEF Fastest
<1>3. Percentile' = Percentile
  BY <1>1, Zenon DEF Percentile, Below, AtMost
<1> QED BY <1>1, <1>2, <1>3, Zenon DEF Desired

LEMMA RecordFacts ==
  ASSUME NEW kept \in Seq(Int), NEW t \in Int
  PROVE  Record(kept, t) \in Seq(Int) /\ Record(kept, t) # <<>>
<1> DEFINE all == Append(kept, t)
<1>1. all \in Seq(Int) /\ Len(all) = Len(kept) + 1 /\ Len(kept) \in Nat /\ all # <<>>
  <2>1. all \in Seq(Int) /\ Len(all) = Len(kept) + 1 /\ Len(kept) \in Nat
    BY AppendProperties, LenProperties
  <2> QED BY <2>1, EmptySeq
<1> HIDE DEF all
<1>2. CASE Len(all) > Window
  <2>1. Len(all) >= 2
    BY <1>1, <1>2, JitterBufferAssumption
  <2>2. Tail(all) \in Seq(Int) /\ Len(Tail(all)) = Len(all) - 1
    BY <1>1
  <2>3. Len(Tail(all)) >= 1
    BY <1>1, <2>1, <2>2
  <2> QED BY <1>2, <2>2, <2>3 DEF Record, all
<1>3. CASE ~(Len(all) > Window)
  BY <1>1, <1>3 DEF Record, all
<1> QED BY <1>2, <1>3

-----------------------------------------------------------------------------
(* The inductive invariant.                                                *)

Typed ==
  /\ frames \subseteq Nat
  /\ next \in Nat \cup {None} /\ lastPlayed \in Nat \cup {None}
  /\ window \in Seq(Int)
  /\ now \in Nat /\ due \in Nat
  /\ sinceDrop \in Nat /\ apart \in Nat

\* The window holds a transit for whatever is queued or played.
Measured == frames # {} \/ next # None => window # <<>>

\* The playout point is past the frame last played.
PastPlayed == lastPlayed # None => next # None /\ next > lastPlayed

\* The buffer's own count of pops since a drop never runs ahead of the pops there were.
DropsCounted == sinceDrop <= apart /\ sinceDrop <= PopsBetweenDrops

\* The delay just after it grew is within a frame of the target.
JustGrown == grew => next # None /\ due - next * Frame < Desired + Frame

PlayInv == Typed /\ Measured /\ QueuedAhead /\ PastPlayed /\ DropsCounted /\ JustGrown

LEMMA StartFacts ==
  ASSUME PlayInv, Start # None
  PROVE  /\ Start \in Nat /\ Desired \in Int /\ window # <<>>
         /\ \A f \in frames : f >= Start
         /\ lastPlayed # None => Start > lastPlayed
         /\ next # None => Start = next
<1>1. CASE next # None
  <2>1. Start = next
    BY <1>1 DEF Start
  <2> QED BY <1>1, <2>1, DesiredInt DEF PlayInv, Typed, Measured, QueuedAhead, PastPlayed
<1>2. CASE next = None
  <2>1. frames # {} /\ Start = Min(frames)
    BY <1>2 DEF Start
  <2>2. Min(frames) \in frames /\ \A f \in frames : Min(frames) <= f
    BY <2>1, MinNat, Zenon DEF PlayInv, Typed
  <2> QED BY <1>2, <2>1, <2>2, DesiredInt, Zenon DEF PlayInv, Typed, Measured, PastPlayed
<1> QED BY <1>1, <1>2

\* The shrinking loop moves playout ahead only, past no queued frame unless it may drop one, and
\* not at all within a frame of the target.
LEMMA ShrunkFacts ==
  ASSUME NEW n \in Nat, frames \subseteq Nat, due \in Nat, Desired \in Int,
         \A f \in frames : f >= n
  PROVE  /\ Shrunk(n) \in Nat /\ Shrunk(n) >= n
         /\ ~MayDrop => \A f \in frames : f >= Shrunk(n)
         /\ due - n * Frame < Desired + Frame => Shrunk(n) = n
<1> DEFINE excess == due - n * Frame - (Desired + ShrinkAbove)
           slots == IF excess <= 0 THEN 0 ELSE (excess + Frame - 1) \div Frame
           ahead == {f \in frames : f >= n}
           first == Min(ahead)
           kept == IF MayDrop /\ ahead # {} THEN ahead \ {first} ELSE ahead
           dry == IF MayDrop /\ ahead # {} /\ frames = {first} THEN {first + 1} ELSE {}
           S == {n + slots} \cup kept \cup dry
<1>1. CASE frames = {}
  BY <1>1 DEF Shrunk
<1>2. CASE frames # {}
  <2>1. excess \in Int /\ slots \in Nat
    <3> DEFINE d == Desired
    <3> HIDE DEF d
    <3>0. d \in Int
      BY DEF d
    <3> QED BY <3>0 DEF Frame, ShrinkAbove, d
  <2>2. due - n * Frame < Desired + Frame => slots = 0
    BY <2>1 DEF Frame, ShrinkAbove
  <2>3. ahead = frames
    BY Zenon
  <2> HIDE DEF slots, ahead
  <2>4. first \in frames /\ \A f \in frames : first <= f
    BY <1>2, <2>3, MinNat, Zenon
  <2>5. kept \subseteq frames /\ (~MayDrop => kept = frames)
    BY <2>3
  <2> HIDE DEF first
  <2>6. dry \subseteq {first + 1} /\ first \in Nat /\ first >= n
    BY <2>4
  <2> HIDE DEF kept, dry
  <2>7. S \subseteq Nat /\ n + slots \in S /\ \A x \in S : x >= n
    BY <2>1, <2>5, <2>6
  <2>8. ~MayDrop => frames \subseteq S
    BY <2>5
  <2> HIDE DEF S
  <2>9. Min(S) \in S /\ \A x \in S : Min(S) <= x
    BY <2>7, MinNat, Zenon
  <2>10. Shrunk(n) = Min(S)
    BY <1>2, Zenon DEF Shrunk, S, dry, kept, first, ahead, slots
  <2>11. Min(S) \in Nat /\ Min(S) >= n /\ Min(S) <= n + slots
    BY <2>7, <2>9, Zenon
  <2>12. ~MayDrop => \A f \in frames : f >= Min(S)
    BY <2>8, <2>9, <2>11
  <2>13. due - n * Frame < Desired + Frame => Min(S) = n
    BY <2>2, <2>11
  <2> QED BY <2>10, <2>11, <2>12, <2>13
<1> QED BY <1>1, <1>2

LEMMA PutKeeps ==
  ASSUME PlayInv, NEW s \in Sequences, Put(s)
  PROVE  PlayInv'
<1> USE DEF None
<1>1. /\ s \in Nat /\ now - s * Frame \in Int /\ frames \subseteq Nat /\ window \in Seq(Int)
      /\ next \in Nat \cup {None} /\ lastPlayed \in Nat \cup {None}
      /\ now \in Nat /\ due \in Nat /\ sinceDrop \in Nat /\ apart \in Nat
  BY JitterBufferAssumption DEF PlayInv, Typed, Sequences, Frame
<1>2. /\ UNCHANGED <<now, due, apart>> /\ grew' = FALSE
  BY DEF Put
<1> DEFINE t == now - s * Frame
<1>3. \/ /\ frames' = {s} /\ next' = None /\ lastPlayed' = None /\ sinceDrop' = 0
         /\ window' = Record(<<>>, t)
      \/ /\ UNCHANGED <<frames, next, lastPlayed, sinceDrop>> /\ next # None
         /\ window' = Record(window, t)
      \/ /\ ~Late(s) /\ frames' = frames \cup {s} /\ next' = s
         /\ UNCHANGED <<lastPlayed, sinceDrop>> /\ window' = Record(window, t)
      \/ /\ next = None \/ s \in next..(next + MaxAhead)
         /\ frames' = frames \cup {s} /\ UNCHANGED <<next, lastPlayed, sinceDrop>>
         /\ window' = Record(window, t)
  BY Zenon DEF Put, StepBack
<1>4. window' \in Seq(Int) /\ window' # <<>>
  <2>1. t \in Int /\ <<>> \in Seq(Int)
    BY <1>1, EmptySeq
  <2> HIDE DEF t
  <2>2. \A kept \in Seq(Int) : Record(kept, t) \in Seq(Int) /\ Record(kept, t) # <<>>
    BY <2>1, RecordFacts, Zenon
  <2>3. window' = Record(<<>>, t) \/ window' = Record(window, t)
    BY <1>3, Zenon
  <2> QED BY <1>1, <2>1, <2>2, <2>3, Zenon
<1> HIDE DEF t
<1>5. QueuedAhead /\ PastPlayed /\ DropsCounted
  BY DEF PlayInv
<1> DEFINE Kept == /\ frames' \subseteq Nat /\ next' \in Nat \cup {None}
                   /\ lastPlayed' \in Nat \cup {None} /\ sinceDrop' \in Nat
                   /\ (QueuedAhead /\ PastPlayed /\ DropsCounted)'
<1> USE DEF QueuedAhead, PastPlayed, DropsCounted
<1> SUFFICES Kept
  BY <1>1, <1>2, <1>4 DEF PlayInv, Typed, Measured, JustGrown
<1>6. CASE frames' = {s} /\ next' = None /\ lastPlayed' = None /\ sinceDrop' = 0
  BY <1>1, <1>2, <1>6, JitterBufferAssumption
<1>7. CASE UNCHANGED <<frames, next, lastPlayed, sinceDrop>>
  BY <1>1, <1>2, <1>5, <1>7
<1>8. CASE ~Late(s) /\ frames' = frames \cup {s} /\ next' = s /\ UNCHANGED <<lastPlayed, sinceDrop>>
  <2>1. frames = {} /\ (lastPlayed # None => s > lastPlayed)
    BY <1>1, <1>8 DEF Late
  <2>2. frames' = {s}
    BY <1>8, <2>1
  <2> QED BY <1>1, <1>2, <1>5, <1>8, <2>1, <2>2
<1>9. CASE /\ next = None \/ s \in next..(next + MaxAhead)
           /\ frames' = frames \cup {s} /\ UNCHANGED <<next, lastPlayed, sinceDrop>>
  <2>1. next # None => s >= next
    BY <1>1, <1>9, JitterBufferAssumption
  <2>2. QueuedAhead'
    BY <1>1, <1>5, <1>9, <2>1
  <2> QED BY <1>1, <1>2, <1>5, <1>9, <2>2
<1> HIDE DEF Kept
<1> QED BY <1>3, <1>6, <1>7, <1>8, <1>9

LEMMA UpToFacts ==
  ASSUME NEW a \in Nat, NEW b \in Nat, a <= b
  PROVE  /\ UpTo(PopsBetweenDrops, a) \in Nat /\ UpTo(PopsBetweenDrops, b) \in Nat
         /\ UpTo(PopsBetweenDrops, a) <= UpTo(PopsBetweenDrops, b)
         /\ UpTo(PopsBetweenDrops, a) <= PopsBetweenDrops
         /\ UpTo(PopsBetweenDrops, 1) = 1
  BY JitterBufferAssumption DEF UpTo

\* What a pop that reaches playout does to the buffer.
Plays(n, dropped) ==
  /\ n \in Nat /\ n >= Start
  /\ dropped = frames \cap Start..(n - 1)
  /\ shrunk' = IF dropped # {} THEN "dropped" ELSE IF n > Start THEN "skipped" ELSE "no"
  /\ apart' = IF dropped # {} THEN 1 ELSE UpTo(PopsBetweenDrops, apart + 1)
  /\ Play(n, frames \ dropped, UpTo(PopsBetweenDrops, IF dropped = {} THEN sinceDrop + 1 ELSE 1))
  /\ ~MayDrop => dropped = {}
  /\ grew => n = Start

LEMMA PopPlays ==
  ASSUME PlayInv, Pop, Start # None, due - Start * Frame >= Desired
  PROVE  Plays(Shrunk(Start), frames \cap Start..(Shrunk(Start) - 1))
<1> DEFINE n == Shrunk(Start)
           dropped == frames \cap Start..(n - 1)
<1>1. /\ Start \in Nat /\ Desired \in Int /\ \A f \in frames : f >= Start
      /\ next # None => Start = next
  BY StartFacts
<1>2. frames \subseteq Nat /\ due \in Nat
  BY DEF PlayInv, Typed
<1>3. /\ n \in Nat /\ n >= Start
      /\ ~MayDrop => \A f \in frames : f >= n
      /\ due - Start * Frame < Desired + Frame => n = Start
  BY <1>1, <1>2, ShrunkFacts
<1>4. grew => n = Start
  BY <1>1, <1>3 DEF PlayInv, JustGrown
<1>5. ~(due - Start * Frame < Desired)
  BY <1>1, <1>2 DEF Frame
<1>6. /\ shrunk' = IF dropped # {} THEN "dropped" ELSE IF n > Start THEN "skipped" ELSE "no"
      /\ apart' = IF dropped # {} THEN 1 ELSE UpTo(PopsBetweenDrops, apart + 1)
      /\ Play(n, frames \ dropped, UpTo(PopsBetweenDrops, IF dropped = {} THEN sinceDrop + 1 ELSE 1))
  BY <1>5, Zenon DEF Pop
<1> HIDE DEF n
<1>7. ~MayDrop => dropped = {}
  BY <1>1, <1>2, <1>3
<1> QED BY <1>3, <1>4, <1>6, <1>7 DEF Plays, n

\* After a pop that reaches playout nothing is queued behind the playout point.
LEMMA PlaysKeeps ==
  ASSUME PlayInv, Pop, Start # None, NEW n, NEW dropped, Plays(n, dropped),
         grew' = FALSE, due' \in Nat, UNCHANGED now
  PROVE  PlayInv' /\ (result' = "Played" /\ lastPlayed # None => lastPlayed' > lastPlayed)
<1> USE DEF None
<1>1. /\ Start \in Nat /\ window # <<>> /\ \A f \in frames : f >= Start
      /\ lastPlayed # None => Start > lastPlayed
  BY StartFacts
<1>2. /\ frames \subseteq Nat /\ window \in Seq(Int) /\ lastPlayed \in Nat \cup {None}
      /\ now \in Nat /\ sinceDrop \in Nat /\ apart \in Nat /\ sinceDrop <= apart
  BY DEF PlayInv, Typed, DropsCounted
<1> DEFINE queued == frames \ dropped
           since == UpTo(PopsBetweenDrops, IF dropped = {} THEN sinceDrop + 1 ELSE 1)
<1>3. /\ n \in Nat /\ n >= Start /\ dropped = frames \cap Start..(n - 1)
      /\ apart' = IF dropped # {} THEN 1 ELSE UpTo(PopsBetweenDrops, apart + 1)
      /\ Play(n, queued, since)
  BY DEF Plays
<1>4. queued \subseteq Nat /\ \A f \in queued : f >= n
  BY <1>1, <1>2, <1>3
<1>5. lastPlayed # None => n > lastPlayed
  BY <1>1, <1>2, <1>3
<1>6. /\ since \in Nat /\ apart' \in Nat /\ since <= apart' /\ 0 <= apart'
      /\ since <= PopsBetweenDrops /\ 0 <= PopsBetweenDrops
  <2>1. /\ UpTo(PopsBetweenDrops, sinceDrop + 1) \in Nat /\ UpTo(PopsBetweenDrops, apart + 1) \in Nat
        /\ UpTo(PopsBetweenDrops, sinceDrop + 1) <= UpTo(PopsBetweenDrops, apart + 1)
        /\ UpTo(PopsBetweenDrops, sinceDrop + 1) <= PopsBetweenDrops
        /\ UpTo(PopsBetweenDrops, 1) = 1
    <3>1. sinceDrop + 1 \in Nat /\ apart + 1 \in Nat /\ sinceDrop + 1 <= apart + 1
      BY <1>2
    <3> QED BY <3>1, UpToFacts
  <2>2. CASE dropped = {}
    BY <1>3, <2>1, <2>2, JitterBufferAssumption
  <2>3. CASE dropped # {}
    BY <1>3, <2>1, <2>3, JitterBufferAssumption
  <2> QED BY <2>2, <2>3
<1> HIDE DEF queued, since
<1>7. \/ /\ n \in queued /\ result' = "Played" /\ frames' = queued \ {n} /\ lastPlayed' = n
         /\ next' = n + 1 /\ sinceDrop' = since /\ UNCHANGED window
      \/ /\ result' = "Missing" /\ frames' = {} /\ next' = None /\ lastPlayed' = None
         /\ sinceDrop' = 0 /\ window' = <<>>
      \/ /\ n \notin queued /\ result' = "Missing" /\ frames' = queued /\ next' = n + 1
         /\ sinceDrop' = since /\ UNCHANGED <<lastPlayed, window>>
  BY <1>3, Zenon DEF Play
<1> USE DEF PlayInv, Typed, Measured, QueuedAhead, PastPlayed, DropsCounted, JustGrown
<1>8. CASE /\ n \in queued /\ result' = "Played" /\ frames' = queued \ {n} /\ lastPlayed' = n
           /\ next' = n + 1 /\ sinceDrop' = since /\ UNCHANGED window
  <2>1. QueuedAhead'
    BY <1>3, <1>4, <1>8
  <2>2. Typed' /\ PastPlayed'
    BY <1>2, <1>3, <1>4, <1>6, <1>8
  <2> QED BY <1>1, <1>5, <1>6, <1>8, <2>1, <2>2
<1>9. CASE /\ result' = "Missing" /\ frames' = {} /\ next' = None /\ lastPlayed' = None
           /\ sinceDrop' = 0 /\ window' = <<>>
  <2>1. Typed'
    BY <1>2, <1>6, <1>9, EmptySeq
  <2> QED BY <1>6, <1>9, <2>1
<1>10. CASE /\ n \notin queued /\ result' = "Missing" /\ frames' = queued /\ next' = n + 1
            /\ sinceDrop' = since /\ UNCHANGED <<lastPlayed, window>>
  <2>1. QueuedAhead'
    BY <1>3, <1>4, <1>10
  <2>2. Typed' /\ PastPlayed'
    BY <1>2, <1>3, <1>4, <1>5, <1>6, <1>10
  <2> QED BY <1>1, <1>6, <1>10, <2>1, <2>2
<1> QED BY <1>7, <1>8, <1>9, <1>10

PopsWell ==
  /\ result' = "Played" /\ lastPlayed # None => lastPlayed' > lastPlayed
  /\ shrunk' = "dropped" => apart >= PopsBetweenDrops
  /\ grew => shrunk' = "no"

LEMMA PopKeeps ==
  ASSUME PlayInv, Pop
  PROVE  PlayInv' /\ PopsWell
<1> USE DEF None
<1>1. /\ due \in Nat /\ due' = due + Frame /\ due' \in Nat /\ UNCHANGED now
      /\ sinceDrop \in Nat /\ apart \in Nat /\ sinceDrop <= apart /\ sinceDrop <= PopsBetweenDrops
      /\ frames \subseteq Nat /\ next \in Nat \cup {None} /\ lastPlayed \in Nat \cup {None}
      /\ now \in Nat /\ window \in Seq(Int)
  BY DEF PlayInv, Typed, DropsCounted, Pop, Frame
<1>2. grew' = (result' = "Expanded")
  BY DEF Pop
<1> DEFINE since == UpTo(PopsBetweenDrops, sinceDrop + 1)
           later == UpTo(PopsBetweenDrops, apart + 1)
<1>3. /\ since \in Nat /\ later \in Nat /\ since <= later /\ since <= PopsBetweenDrops
      /\ sinceDrop <= later
  <2>1. sinceDrop + 1 \in Nat /\ apart + 1 \in Nat /\ sinceDrop + 1 <= apart + 1
    BY <1>1
  <2>2. /\ since \in Nat /\ later \in Nat /\ since <= later /\ since <= PopsBetweenDrops
    BY <2>1, UpToFacts
  <2>3. sinceDrop <= later
    BY <1>1, JitterBufferAssumption DEF UpTo
  <2> QED BY <2>2, <2>3
<1> HIDE DEF since, later
<1>4. CASE Start = None
  <2>1. /\ result' = "Buffering" /\ shrunk' = "no" /\ apart' = later
        /\ UNCHANGED <<frames, next, lastPlayed, sinceDrop, window>>
    BY <1>4 DEF Pop, buffer, later
  <2>2. grew' = FALSE
    BY <1>2, <2>1, Zenon
  <2>3. PlayInv'
    BY <1>1, <1>3, <2>1, <2>2 DEF PlayInv, Typed, Measured, QueuedAhead, PastPlayed, DropsCounted, JustGrown
  <2> QED BY <2>1, <2>3 DEF PopsWell
<1>5. CASE Start # None /\ due - Start * Frame < Desired
  <2>1. /\ Start \in Nat /\ Desired \in Int /\ window # <<>> /\ \A f \in frames : f >= Start
        /\ lastPlayed # None => Start > lastPlayed
    BY <1>5, StartFacts
  <2>2. ~(due - Start * Frame >= Desired)
    BY <1>1, <1>5, <2>1 DEF Frame
  <2>3. /\ result' = "Expanded" /\ shrunk' = "no" /\ apart' = later
        /\ next' = Start /\ sinceDrop' = since /\ UNCHANGED <<frames, lastPlayed, window>>
    BY <1>5, <2>2, Zenon DEF Pop, since, later
  <2>4. Desired' = Desired
    BY <2>3, DesiredKept
  <2>5. JustGrown'
    BY <1>1, <1>5, <2>1, <2>3, <2>4 DEF JustGrown, Frame
  <2>6. Typed' /\ Measured' /\ QueuedAhead' /\ PastPlayed' /\ DropsCounted'
    BY <1>1, <1>3, <2>1, <2>3 DEF Typed, Measured, QueuedAhead, PastPlayed, DropsCounted
  <2> QED BY <2>3, <2>5, <2>6 DEF PlayInv, PopsWell
<1>6. CASE Start # None /\ ~(due - Start * Frame < Desired)
  <2>1. Start \in Nat /\ Desired \in Int
    BY <1>6, StartFacts
  <2>2. due - Start * Frame >= Desired
    BY <1>1, <1>6, <2>1 DEF Frame
  <2>3. PICK n, dropped : Plays(n, dropped)
    BY <1>6, <2>2, PopPlays
  <2>4. result' # "Expanded"
    <3>1. Play(n, frames \ dropped, UpTo(PopsBetweenDrops, IF dropped = {} THEN sinceDrop + 1 ELSE 1))
      BY <2>3 DEF Plays
    <3>2. result' = "Played" \/ result' = "Missing"
      BY <3>1, Zenon DEF Play
    <3> QED BY <3>2
  <2>5. grew' = FALSE
    BY <1>2, <2>4, Zenon
  <2>6. PlayInv' /\ (result' = "Played" /\ lastPlayed # None => lastPlayed' > lastPlayed)
    BY <1>1, <1>6, <2>3, <2>5, PlaysKeeps, Zenon
  <2>7. shrunk' = "dropped" => apart >= PopsBetweenDrops
    <3>1. shrunk' = "dropped" => MayDrop
      BY <2>3 DEF Plays
    <3> QED BY <1>1, <3>1, JitterBufferAssumption DEF MayDrop
  <2>8. grew => shrunk' = "no"
    BY <2>1, <2>3 DEF Plays
  <2> QED BY <2>6, <2>7, <2>8 DEF PopsWell
<1> QED BY <1>4, <1>5, <1>6

LEMMA Induction ==
  ASSUME PlayInv, [Next]_vars
  PROVE  PlayInv' /\ (due' # due => PopsWell)
<1>1. CASE \E s \in Sequences : Put(s)
  <2>1. PlayInv'
    BY <1>1, PutKeeps
  <2>2. due' = due
    BY <1>1 DEF Put
  <2> QED BY <2>1, <2>2
<1>2. CASE Pop
  BY <1>2, PopKeeps
<1>3. CASE Tick \/ UNCHANGED vars
  <2>1. /\ UNCHANGED <<frames, next, lastPlayed, sinceDrop, window, due, apart, grew>>
        /\ now' = now \/ now' = now + 1
    BY <1>3 DEF Tick, vars, buffer, history
  <2>2. Desired' = Desired
    BY <2>1, DesiredKept
  <2>3. PlayInv'
    BY <2>1, <2>2 DEF PlayInv, Typed, Measured, QueuedAhead, PastPlayed, DropsCounted, JustGrown
  <2> QED BY <2>1, <2>3
<1> QED BY <1>1, <1>2, <1>3 DEF Next

LEMMA Starts ==
  ASSUME Init
  PROVE  PlayInv
<1>1. window \in Seq(Int)
  BY EmptySeq DEF Init
<1> QED BY <1>1, JitterBufferAssumption
        DEF Init, None, PlayInv, Typed, Measured, QueuedAhead, PastPlayed, DropsCounted, JustGrown

-----------------------------------------------------------------------------
\* put() and pop() never leave a frame queued behind the playout point, whatever the limits, the
\* order of packets and the lateness of pops.
THEOREM QueueSafe == Spec => []QueuedAhead
<1>1. Init => PlayInv
  BY Starts
<1>2. PlayInv /\ [Next]_vars => PlayInv'
  BY Induction
<1>3. PlayInv => QueuedAhead
  BY DEF PlayInv
<1> QED BY <1>1, <1>2, <1>3, PTL DEF Spec

\* pop() plays frames in order and once between two restarts of the stream.
THEOREM PlaysInOrder == Spec => PlayedInOrder
<1>1. Init => PlayInv
  BY Starts
<1>2. PlayInv /\ [Next]_vars => PlayInv'
  BY Induction
<1>3. PlayInv /\ [Next]_vars =>
        [due' # due /\ result' = "Played" /\ lastPlayed # None => lastPlayed' > lastPlayed]_vars
  BY Induction DEF PopsWell
<1> QED BY <1>1, <1>2, <1>3, PTL DEF Spec, PlayedInOrder

\* pop() discards a frame at most once in kPopsBetweenDrops pops, and never shrinks the delay right
\* after it grew.
THEOREM DropsSparingly == Spec => ShrinksSparingly
<1>1. Init => PlayInv
  BY Starts
<1>2. PlayInv /\ [Next]_vars => PlayInv'
  BY Induction
<1>3. PlayInv /\ [Next]_vars =>
        [due' # due => (shrunk' = "dropped" => apart >= PopsBetweenDrops) /\ (grew => shrunk' = "no")]_vars
  BY Induction DEF PopsWell
<1> QED BY <1>1, <1>2, <1>3, PTL DEF Spec, ShrinksSparingly

-----------------------------------------------------------------------------
\* The limits that PlayInv leaves out: which frames there are, and how far the counters, the window
\* and the clock go.
Limits ==
  /\ frames \subseteq Sequences /\ lastPlayed \in Sequences \cup {None}
  /\ missing \in 0..MissingBeforeRebuffer /\ apart \in 0..PopsBetweenDrops
  /\ window \in Seq(Int) /\ Len(window) <= Window
  /\ now \in 0..MaxTime
  /\ result \in {"Buffering", "Expanded", "Played", "Missing"}
  /\ shrunk \in {"no", "skipped", "dropped"} /\ grew \in BOOLEAN

\* record_transit() forgets the oldest transit once there are kWindow of them.
LEMMA RecordBounded ==
  ASSUME NEW kept \in Seq(Int), Len(kept) <= Window, NEW transit \in Int
  PROVE  Record(kept, transit) \in Seq(Int) /\ Len(Record(kept, transit)) <= Window
<1>1. Append(kept, transit) \in Seq(Int) /\ Len(Append(kept, transit)) = Len(kept) + 1
  OBVIOUS
<1>2. Window \in Nat
  BY JitterBufferAssumption
<1>3. PICK all \in Seq(Int) : all = Append(kept, transit)
  BY <1>1, Zenon
<1>4. Len(all) \in Nat /\ Len(all) <= Window + 1
  BY <1>1, <1>2, <1>3
<1>5. CASE Len(all) > Window
  <2>1. all # <<>>
    BY <1>2, <1>5
  <2>2. Tail(all) \in Seq(Int) /\ Len(Tail(all)) = Len(all) - 1
    BY <2>1
  <2> QED BY <1>2, <1>3, <1>4, <1>5, <2>2 DEF Record
<1>6. CASE ~(Len(all) > Window)
  BY <1>2, <1>3, <1>4, <1>6 DEF Record
<1> QED BY <1>5, <1>6

\* put() keeps the limits.
LEMMA PutBounded ==
  ASSUME Limits, NEW s \in Sequences, Put(s)
  PROVE  Limits'
<1> DEFINE transit == now - s * Frame
<1>1. transit \in Int
  BY JitterBufferAssumption DEF Limits, Sequences, Frame
<1>2. Record(window, transit) \in Seq(Int) /\ Len(Record(window, transit)) <= Window
  BY <1>1, RecordBounded DEF Limits
<1>3. Record(<<>>, transit) \in Seq(Int) /\ Len(Record(<<>>, transit)) <= Window
  <2>1. <<>> \in Seq(Int) /\ Len(<<>>) <= Window
    BY EmptySeq, JitterBufferAssumption
  <2> QED BY <1>1, <2>1, RecordBounded, Zenon
<1> HIDE DEF transit
<1>4. window' \in Seq(Int) /\ Len(window') <= Window
  BY <1>2, <1>3, Zenon DEF Put, transit
<1>5. frames' \subseteq Sequences
  BY Zenon DEF Put, Limits
<1>6. lastPlayed' \in Sequences \cup {None}
  BY Zenon DEF Put, Limits
<1>7. missing' \in 0..MissingBeforeRebuffer
  <2>1. 0 \in 0..MissingBeforeRebuffer
    BY JitterBufferAssumption
  <2> QED BY <2>1, Zenon DEF Put, StepBack, Limits
<1> QED BY <1>4, <1>5, <1>6, <1>7, Zenon DEF Put, Limits

LEMMA UpToBounded ==
  ASSUME NEW limit \in Nat, NEW n \in Nat
  PROVE  UpTo(limit, n) \in 0..limit
BY DEF UpTo

\* So does pop().
LEMMA PopBounded ==
  ASSUME Limits, Pop
  PROVE  Limits'
<1>1. /\ UpTo(PopsBetweenDrops, apart + 1) \in 0..PopsBetweenDrops
      /\ UpTo(MissingBeforeRebuffer, missing + 1) \in 0..MissingBeforeRebuffer
  <2>1. PopsBetweenDrops \in Nat /\ MissingBeforeRebuffer \in Nat /\ apart + 1 \in Nat /\ missing + 1 \in Nat
    BY JitterBufferAssumption DEF Limits
  <2> QED BY <2>1, UpToBounded, Zenon
<1>2. 0 \in 0..MissingBeforeRebuffer /\ 1 \in 0..PopsBetweenDrops
  BY JitterBufferAssumption
<1>3. <<>> \in Seq(Int) /\ Len(<<>>) <= Window
  BY EmptySeq, JitterBufferAssumption
<1> DEFINE Kept == /\ frames' \subseteq Sequences /\ lastPlayed' \in Sequences \cup {None}
                   /\ missing' \in 0..MissingBeforeRebuffer
                   /\ window' \in Seq(Int) /\ Len(window') <= Window
                   /\ result' \in {"Buffering", "Expanded", "Played", "Missing"}
<1>4. ASSUME NEW n, NEW queued \in SUBSET frames, NEW since, Play(n, queued, since)
      PROVE  Kept
  <2>1. queued \subseteq Sequences
    BY <1>4, Zenon DEF Limits
  <2>2. frames' \subseteq Sequences /\ lastPlayed' \in Sequences \cup {None}
    BY <1>4, <2>1, Zenon DEF Play, Limits
  <2>3. missing' \in 0..MissingBeforeRebuffer
    BY <1>1, <1>2, <1>4, Zenon DEF Play, Limits
  <2>4. window' \in Seq(Int) /\ Len(window') <= Window
    BY <1>3, <1>4, Zenon DEF Play, Limits
  <2>5. result' \in {"Buffering", "Expanded", "Played", "Missing"}
    BY <1>4, Zenon DEF Play
  <2> QED BY <2>2, <2>3, <2>4, <2>5, Zenon
<1>5. ASSUME UNCHANGED <<frames, lastPlayed, missing, window>>, result' = "Buffering" \/ result' = "Expanded"
      PROVE  Kept
  BY <1>5, Zenon DEF Limits
<1>6. Kept
  <2>1. CASE UNCHANGED buffer /\ result' = "Buffering"
    BY <1>5, <2>1, Zenon DEF buffer
  <2>2. CASE UNCHANGED <<frames, lastPlayed, missing, window>> /\ result' = "Expanded"
    BY <1>5, <2>2, Zenon
  <2>3. CASE \E n, since, dropped : Play(n, frames \ dropped, since)
    <3>1. PICK n, since, dropped : Play(n, frames \ dropped, since)
      BY <2>3, Zenon
    <3>2. frames \ dropped \in SUBSET frames
      BY Zenon
    <3> HIDE DEF Kept
    <3> QED BY <1>4, <3>1, <3>2, Zenon
  <2>4. \/ UNCHANGED buffer /\ result' = "Buffering"
        \/ UNCHANGED <<frames, lastPlayed, missing, window>> /\ result' = "Expanded"
        \/ \E n, since, dropped : Play(n, frames \ dropped, since)
    BY Zenon DEF Pop
  <2> HIDE DEF Kept
  <2> QED BY <2>1, <2>2, <2>3, <2>4, Zenon
<1>7. apart' \in 0..PopsBetweenDrops
  BY <1>1, <1>2, Zenon DEF Pop
<1>8. shrunk' \in {"no", "skipped", "dropped"}
  BY Zenon DEF Pop
<1>9. grew' \in BOOLEAN /\ now' = now
  BY Zenon DEF Pop
<1> QED BY <1>6, <1>7, <1>8, <1>9, Zenon DEF Limits

\* For any limits, any order of packets and any clock: every variable keeps its type.  The window
\* holds at most kWindow transits, the size of window_, and only frames that came are queued or
\* played.
THEOREM TypeCorrect == Spec => []TypeOK
<1>1. Init => PlayInv
  BY Starts
<1>2. Init => Limits
  <2> SUFFICES ASSUME Init PROVE Limits
    OBVIOUS
  <2>1. /\ 0 \in 0..MissingBeforeRebuffer /\ PopsBetweenDrops \in 0..PopsBetweenDrops /\ 0 \in 0..MaxTime
        /\ <<>> \in Seq(Int) /\ Len(<<>>) <= Window
    BY EmptySeq, JitterBufferAssumption
  <2> QED BY <2>1, Zenon DEF Init, Limits
<1>3. PlayInv /\ Limits /\ [Next]_vars => PlayInv' /\ Limits'
  <2> SUFFICES ASSUME PlayInv, Limits, [Next]_vars PROVE Limits'
    BY Induction
  <2>1. CASE Tick
    <3>1. now' \in 0..MaxTime
      BY <2>1, JitterBufferAssumption DEF Tick, Limits
    <3> QED BY <2>1, <3>1, Zenon DEF Tick, Limits, buffer, history
  <2>2. CASE UNCHANGED vars
    BY <2>2, Zenon DEF Limits, vars, buffer, history
  <2> QED BY <2>1, <2>2, PutBounded, PopBounded, Zenon DEF Next
<1>4. PlayInv /\ Limits => TypeOK
  <2> SUFFICES ASSUME PlayInv, Limits PROVE TypeOK
    OBVIOUS
  <2>1. /\ next \in Int /\ next >= None
        /\ due \in Nat /\ sinceDrop \in 0..PopsBetweenDrops
    BY JitterBufferAssumption DEF PlayInv, Typed, DropsCounted, None
  <2> QED BY <2>1, Zenon DEF Limits, TypeOK
<1> QED BY <1>1, <1>2, <1>3, <1>4, PTL DEF Spec
==============================================================================
