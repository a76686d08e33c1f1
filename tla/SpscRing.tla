------------------------------ MODULE SpscRing ------------------------------
(***************************************************************************)
(* The ring between the realtime audio thread and the network thread       *)
(* (media/spsc_ring.hpp).  One thread pushes, another pops or discards;    *)
(* each loads the two indices, copies values one by one and stores its own *)
(* index.  The release store and acquire load of an index order the copies *)
(* around them, so the steps interleave as if memory were sequential; that *)
(* a loaded index is old when it is used is part of the model.             *)
(***************************************************************************)
EXTENDS Integers, Sequences

CONSTANTS MinimumCapacity,   \* the constructor's argument
          Values,            \* sample values
          IndexModulus,      \* size_t has this many values, a multiple of the capacity
          MaxCount           \* bound on the count a call asks for

\* What doubling 1 leads to: the numbers without an odd divisor but 1.
PowerOfTwo(n) == \A d \in 2..n : n % d = 0 => d % 2 = 0

\* The constructor: the smallest power of two above the minimum.
Capacity(minimum) == CHOOSE c \in (minimum + 1)..(2 * minimum + 1) : PowerOfTwo(c)

Slots == Capacity(MinimumCapacity)
mask == Slots - 1
Masked(index) == index % Slots                \* index & mask_

ASSUME SpscRingAssumption ==
  /\ MinimumCapacity \in Nat \ {0} /\ MaxCount \in Nat \ {0}
  /\ IndexModulus \in Nat \ {0} /\ IndexModulus % Slots = 0

VARIABLES
  buffer, write, read,   \* buffer_, write_ and read_
  producer,              \* push() under way: its state, the loaded write, how many values fit,
                         \* how many are copied, the values
  consumer,              \* pop() or discard() under way, likewise, with what is copied so far
  popped,                \* what the latest pop() returned
  meanwhile              \* how many values were pushed since the discard() under way began

ringVars == <<buffer, write, read, producer, consumer, popped, meanwhile>>

Indices == 0..(IndexModulus - 1)
Counts == 0..MaxCount
Samples == UNION {[1..n -> Values] : n \in Counts}

NoPush == [at |-> "idle", index |-> 0, n |-> 0, done |-> 0, values |-> <<>>]
NoPop == [at |-> "idle", index |-> 0, n |-> 0, values |-> <<>>]

RingInit ==
  /\ \E zero \in Values : buffer = [slot \in 0..mask |-> zero]
  /\ write = 0 /\ read = 0
  /\ producer = NoPush /\ consumer = NoPop
  /\ popped = <<>> /\ meanwhile = 0

Plus(index, n) == (index + n) % IndexModulus
Lower(a, b) == IF a < b THEN a ELSE b

\* (to - from) & mask_, the subtraction wrapping around.
Distance(from, to) == Masked((to - from + IndexModulus) % IndexModulus)

-----------------------------------------------------------------------------
(* push                                                                    *)

\* Mutant: a full ring and an empty one look the same.
Space_All(w, r) == Slots - Distance(r, w)

Space(w, r) == mask - Distance(r, w)

\* Both indices are loaded and the count is settled.
PushLoad(values) ==
  /\ producer.at = "idle"
  /\ producer' = [at |-> "copying", index |-> write, done |-> 0, values |-> values,
                  n |-> Lower(Len(values), Space(write, read))]
  /\ UNCHANGED <<buffer, write, read, consumer, popped, meanwhile>>

PushCopy ==
  /\ producer.at = "copying" /\ producer.done < producer.n
  /\ buffer' = [buffer EXCEPT ![Masked(Plus(producer.index, producer.done))] = producer.values[producer.done + 1]]
  /\ producer' = [producer EXCEPT !.done = @ + 1]
  /\ UNCHANGED <<write, read, consumer, popped, meanwhile>>

\* Mutant: what did not fit is counted as written.
PushStore_Count ==
  /\ producer.at = "copying" /\ producer.done = producer.n
  /\ write' = Plus(producer.index, Len(producer.values))
  /\ meanwhile' = IF consumer.at = "discarding" THEN meanwhile + producer.n ELSE 0
  /\ producer' = NoPush
  /\ UNCHANGED <<buffer, read, consumer, popped>>

PushStore ==
  /\ producer.at = "copying" /\ producer.done = producer.n
  /\ write' = Plus(producer.index, producer.n)
  /\ meanwhile' = IF consumer.at = "discarding" THEN meanwhile + producer.n ELSE 0
  /\ producer' = NoPush
  /\ UNCHANGED <<buffer, read, consumer, popped>>

-----------------------------------------------------------------------------
(* pop and discard                                                         *)

PopLoad(count) ==
  /\ consumer.at = "idle"
  /\ consumer' = [at |-> "copying", index |-> read, n |-> Lower(count, Distance(read, write)), values |-> <<>>]
  /\ UNCHANGED <<buffer, write, read, producer, popped, meanwhile>>

PopCopy ==
  /\ consumer.at = "copying" /\ Len(consumer.values) < consumer.n
  /\ consumer' = [consumer EXCEPT !.values = Append(@, buffer[Masked(Plus(consumer.index, Len(@)))])]
  /\ UNCHANGED <<buffer, write, read, producer, popped, meanwhile>>

PopStore ==
  /\ consumer.at = "copying" /\ Len(consumer.values) = consumer.n
  /\ read' = Plus(consumer.index, consumer.n)
  /\ consumer' = NoPop /\ popped' = consumer.values
  /\ UNCHANGED <<buffer, write, producer, meanwhile>>

DiscardLoad ==
  /\ consumer.at = "idle"
  /\ consumer' = [consumer EXCEPT !.at = "discarding", !.index = write]
  /\ UNCHANGED <<buffer, write, read, producer, popped, meanwhile>>

\* Mutant: the write index is loaded again for the store, past samples of the call that just began.
DiscardStore_Reload ==
  /\ consumer.at = "discarding"
  /\ read' = write
  /\ consumer' = NoPop /\ meanwhile' = 0
  /\ UNCHANGED <<buffer, write, producer, popped>>

DiscardStore ==
  /\ consumer.at = "discarding"
  /\ read' = consumer.index
  /\ consumer' = NoPop /\ meanwhile' = 0
  /\ UNCHANGED <<buffer, write, producer, popped>>

RingNext ==
  \/ \E values \in Samples : PushLoad(values)
  \/ PushCopy
  \/ PushStore
  \/ \E count \in Counts : PopLoad(count)
  \/ PopCopy
  \/ PopStore
  \/ DiscardLoad
  \/ DiscardStore

RingSpec == RingInit /\ [][RingNext]_ringVars

-----------------------------------------------------------------------------
\* The slots a call under way still has to copy.
Filling == {Masked(Plus(producer.index, i)) : i \in producer.done..(producer.n - 1)}
Emptying == {Masked(Plus(consumer.index, i)) : i \in Len(consumer.values)..(consumer.n - 1)}

\* "Exactly one thread may push and exactly one other thread may pop": then the two never touch
\* a slot of buffer_ at the same time, which is not atomic.
NoSlotRace ==
  producer.at = "copying" /\ consumer.at = "copying" => Filling \cap Emptying = {}

\* What the indices say is in the ring.
Contents == [i \in 1..Distance(read, write) |-> buffer[Masked(Plus(read, i - 1))]]

\* "any lost, duplicated or reordered value": the ring is a bounded queue, each of whose operations
\* takes effect when its index is stored, whatever the other thread is in the middle of.
FifoQueue == INSTANCE SampleQueue WITH queue <- Contents, got <- popped, Limit <- mask
IsFifoQueue == FifoQueue!Spec

\* "Drops everything currently readable": when discard() returns, exactly what was pushed since it
\* began is left.  A call that starts (MediaSession::start) sends nothing from before it but a push
\* the microphone is in the middle of, and loses nothing that comes after.
DiscardIsExact ==
  [][consumer.at = "discarding" /\ consumer'.at = "idle" =>
       Contents' = SubSeq(Contents, Len(Contents) - meanwhile + 1, Len(Contents))]_ringVars
=============================================================================
