---------------------------- MODULE JitterBuffer ----------------------------
(***************************************************************************)
(* The adaptive jitter buffer (media/jitter_buffer.cpp) between the        *)
(* network and the playout clock: put() for every packet, in whatever      *)
(* order the network delivers sequence numbers, and pop() every frame.     *)
(* Time is in units of ten milliseconds; a frame is its sequence number.   *)
(* Counters that only serve a comparison stop at the value compared with.  *)
(***************************************************************************)
EXTENDS Integers, Sequences, FiniteSets, FiniteSetsExt

CONSTANTS InitialDelay,            \* initial_delay_us_
          Window, Warmup,          \* kWindow and kWarmup
          MaxDelay,                \* kMaxDelayUs
          PopsBetweenDrops, MaxRewind, MissingBeforeRebuffer, MaxAhead,
          MaxSequence, MaxTime     \* bounds on the packets and on the clock

Frame == 2                         \* kFrameUs
Margin == 1                        \* kMarginUs

\* Mutant: no tolerance above the target.
ShrinkAbove_None == 0

ShrinkAbove == Frame + 1           \* kShrinkAboveUs

ASSUME JitterBufferAssumption ==
  /\ InitialDelay \in Margin..MaxDelay /\ Window \in Nat \ {0} /\ Warmup \in Nat
  /\ PopsBetweenDrops \in Nat \ {0} /\ MissingBeforeRebuffer \in Nat \ {0}
  /\ MaxDelay \in Nat /\ MaxRewind \in Nat /\ MaxAhead \in Nat /\ MaxSequence \in Nat /\ MaxTime \in Nat

VARIABLES
  frames, next, lastPlayed,        \* frames_, next_ and last_played_
  missing, sinceDrop,              \* missing_in_a_row_ and pops_since_drop_
  window,                          \* the transits kept, oldest first
  now, due,                        \* the clock, and when the next pop is scheduled
  result, shrunk,                  \* what the latest pop returned, and how it shrank the delay
  apart,                           \* pops since a frame was last dropped
  grew                             \* the latest pop grew the delay and no packet came since

buffer == <<frames, next, lastPlayed, missing, sinceDrop, window>>
history == <<result, shrunk, apart, grew>>
vars == <<buffer, now, due, history>>

None == -1
Sequences == 0..MaxSequence

TypeOK ==
  /\ frames \subseteq Sequences
  /\ next \in Int /\ next >= None
  /\ lastPlayed \in Sequences \cup {None}
  /\ missing \in 0..MissingBeforeRebuffer /\ sinceDrop \in 0..PopsBetweenDrops
  /\ window \in Seq(Int) /\ Len(window) <= Window
  /\ now \in 0..MaxTime /\ due \in Nat
  /\ result \in {"Buffering", "Expanded", "Played", "Missing"}
  /\ shrunk \in {"no", "skipped", "dropped"}
  /\ apart \in 0..PopsBetweenDrops /\ grew \in BOOLEAN

Init ==
  /\ frames = {} /\ next = None /\ lastPlayed = None
  /\ missing = 0 /\ sinceDrop = 0 /\ window = <<>>
  /\ now = 0 /\ due = 0
  /\ result = "Buffering" /\ shrunk = "no" /\ apart = PopsBetweenDrops /\ grew = FALSE

UpTo(limit, n) == IF n < limit THEN n ELSE limit

-----------------------------------------------------------------------------
Transits == {window[i] : i \in DOMAIN window}
Fastest == Min(Transits)

Below(t) == Cardinality({i \in DOMAIN window : window[i] < t})
AtMost(t) == Cardinality({i \in DOMAIN window : window[i] <= t})

\* The element nth_element puts at rank ((count - 1) * 99 + 99) / 100.
Percentile ==
  LET rank == ((Len(window) - 1) * 99 + 99) \div 100
  IN CHOOSE t \in Transits : Below(t) <= rank /\ rank < AtMost(t)

\* desired_offset_us()
Desired ==
  LET spread == Percentile - Fastest + Margin
      delay == IF Len(window) < Warmup THEN Max({spread, InitialDelay}) ELSE spread
  IN Fastest + Max({Margin, Min({MaxDelay, delay})})

\* record_transit(), after reset() has emptied the window or not.
Record(kept, transit) ==
  LET all == Append(kept, transit) IN IF Len(all) > Window THEN Tail(all) ELSE all

-----------------------------------------------------------------------------
\* Mutant: playout steps back although a later frame was played.
Late_Played(s) == frames # {} \/ next - s > MaxRewind

Late(s) ==
  \/ frames # {}
  \/ lastPlayed # None /\ s <= lastPlayed
  \/ next - s > MaxRewind

\* Mutant: the late frame is taken but playout stays where it is.
StepBack_Stays(s) == UNCHANGED next /\ missing' = 0

StepBack(s) == next' = s /\ missing' = 0

\* put() of frame s, arriving now.
Put(s) ==
  /\ \/ /\ next # None /\ s - next > MaxAhead                     \* the stream jumped: reset()
        /\ frames' = {s} /\ next' = None /\ lastPlayed' = None
        /\ missing' = 0 /\ sinceDrop' = 0
        /\ window' = Record(<<>>, now - s * Frame)
     \/ /\ next # None /\ s < next
        /\ IF Late(s) THEN UNCHANGED <<frames, next, missing>>
                      ELSE frames' = frames \cup {s} /\ StepBack(s)
        /\ window' = Record(window, now - s * Frame)
        /\ UNCHANGED <<lastPlayed, sinceDrop>>
     \/ /\ next = None \/ s \in next..(next + MaxAhead)
        /\ frames' = frames \cup {s}
        /\ window' = Record(window, now - s * Frame)
        /\ UNCHANGED <<next, lastPlayed, missing, sinceDrop>>
  /\ grew' = FALSE
  /\ UNCHANGED <<now, due, result, shrunk, apart>>

-----------------------------------------------------------------------------
\* Where playout stands when pop() begins; None while it buffers.
Start ==
  IF next # None THEN next
  ELSE IF frames = {} \/ due - Min(frames) * Frame < Desired THEN None
  ELSE Min(frames)

MayDrop == sinceDrop >= PopsBetweenDrops

\* Where the shrinking loop leaves playout that stands at n: as far ahead as the excess delay
\* asks for, but not past a queued frame, except that the first may be dropped, and no further
\* once nothing is queued.
Shrunk(n) ==
  LET excess == due - n * Frame - (Desired + ShrinkAbove)
      slots == IF excess <= 0 THEN 0 ELSE (excess + Frame - 1) \div Frame
      ahead == {f \in frames : f >= n}
      first == Min(ahead)
      kept == IF MayDrop /\ ahead # {} THEN ahead \ {first} ELSE ahead
      dry == IF MayDrop /\ ahead # {} /\ frames = {first} THEN {first + 1} ELSE {}
  IN IF frames = {} THEN n ELSE Min({n + slots} \cup kept \cup dry)

\* reset(), when nothing came for long, or the frame at n is played or missing.
Play(n, queued, since) ==
  \/ /\ n \in queued /\ result' = "Played"
     /\ frames' = queued \ {n} /\ lastPlayed' = n /\ next' = n + 1 /\ missing' = 0
     /\ sinceDrop' = since
     /\ UNCHANGED window
  \/ /\ n \notin queued /\ result' = "Missing"
     /\ IF queued = {} /\ missing + 1 >= MissingBeforeRebuffer
        THEN /\ frames' = {} /\ next' = None /\ lastPlayed' = None
             /\ missing' = 0 /\ sinceDrop' = 0 /\ window' = <<>>
        ELSE /\ frames' = queued /\ next' = n + 1
             /\ missing' = UpTo(MissingBeforeRebuffer, missing + 1)
             /\ sinceDrop' = since
             /\ UNCHANGED <<lastPlayed, window>>

\* pop() at its scheduled time.
Pop ==
  /\ due <= now /\ due' = due + Frame
  /\ \/ /\ Start = None
        /\ result' = "Buffering" /\ shrunk' = "no" /\ apart' = UpTo(PopsBetweenDrops, apart + 1)
        /\ UNCHANGED buffer
     \/ /\ Start # None /\ due - Start * Frame < Desired
        /\ result' = "Expanded" /\ shrunk' = "no" /\ apart' = UpTo(PopsBetweenDrops, apart + 1)
        /\ next' = Start /\ sinceDrop' = UpTo(PopsBetweenDrops, sinceDrop + 1)
        /\ UNCHANGED <<frames, lastPlayed, missing, window>>
     \/ /\ Start # None /\ due - Start * Frame >= Desired
        /\ LET n == Shrunk(Start)
               dropped == frames \cap Start..(n - 1)
               since == IF dropped = {} THEN sinceDrop + 1 ELSE 1
           IN /\ shrunk' = IF dropped # {} THEN "dropped" ELSE IF n > Start THEN "skipped" ELSE "no"
              /\ apart' = IF dropped # {} THEN 1 ELSE UpTo(PopsBetweenDrops, apart + 1)
              /\ Play(n, frames \ dropped, UpTo(PopsBetweenDrops, since))
  /\ grew' = (result' = "Expanded")
  /\ UNCHANGED now

\* Time passes; the network thread falls behind its schedule by at most a frame.
Tick ==
  /\ now < MaxTime /\ now <= due + Frame /\ now' = now + 1
  /\ UNCHANGED <<buffer, due, history>>

Next ==
  \/ \E s \in Sequences : Put(s)
  \/ Pop
  \/ Tick

Spec == Init /\ [][Next]_vars

-----------------------------------------------------------------------------
\* No frame is queued behind the playout point, where it would never be played nor removed and
\* would keep an empty buffer from starting over.
QueuedAhead == next # None => \A f \in frames : f >= next

\* "Stepping back past a frame that already played would replay the stream out of order": between
\* two restarts of the stream frames are played in order and once.
PlayedInOrder ==
  [][due' # due /\ result' = "Played" /\ lastPlayed # None => lastPlayed' > lastPlayed]_vars

\* "at most every 200 ms, by discarding a frame", and "growing by one frame never immediately
\* triggers a shrink".
ShrinksSparingly ==
  [][due' # due => (shrunk' = "dropped" => apart >= PopsBetweenDrops) /\ (grew => shrunk' = "no")]_vars
=============================================================================
