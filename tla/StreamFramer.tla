---------------------------- MODULE StreamFramer ----------------------------
(***************************************************************************)
(* StreamFramer (sip/stream_framer.cpp), which cuts SIP messages out of a  *)
(* byte stream.  A symbol stands for the bytes the framer does not tell    *)
(* apart: a carriage return, a line feed, a line of text, or a whole       *)
(* Content-Length line, whose value Lengths gives.                         *)
(***************************************************************************)
EXTENDS Integers, Sequences, FiniteSetsExt

CONSTANTS Lengths,      \* values of the Content-Length lines; -1 for one that is no number
          MaxMessage    \* kMaxMessage, in symbols

CR == "CR"
LF == "LF"
Line == "line"

VARIABLES buffer, failed

framerVars == <<buffer, failed>>

FramerInit == buffer = <<>> /\ failed = FALSE

Push(bytes) == buffer' = (IF failed THEN buffer ELSE buffer \o bytes) /\ UNCHANGED failed

Reset == buffer' = <<>> /\ failed' = FALSE

\* find_first_not_of("\r\n"), and the place before the first empty line; 0 when there is none.
MessageStart(bytes) == Min({i \in 1..Len(bytes) : bytes[i] \notin {CR, LF}} \cup {Len(bytes) + 1})
HeadEnds(bytes) == {i \in 0..(Len(bytes) - 4) : SubSeq(bytes, i + 1, i + 4) = <<CR, LF, CR, LF>>}

\* content_length: the first such line after the start line, -1 when it is absent or invalid.
ContentLength(head) ==
  LET lines == {i \in 2..Len(head) : head[i] \in DOMAIN Lengths}
  IN IF lines = {} THEN -1 ELSE Lengths[head[Min(lines)]]

\* Mutant: the body is left in the buffer.
NextTotal_HeadOnly(headEnd, length) == headEnd + 4

NextTotal(headEnd, length) == headEnd + 4 + length

\* What is left of the buffer once the line ends before a message are erased.
Rest == SubSeq(buffer, MessageStart(buffer), Len(buffer))

\* The length the head of `rest` gives, and whether no message can be cut from it.  `ends` is the
\* HeadEnds of `rest`: a head ends before its first empty line, if it has one.
Length(rest, ends) == ContentLength(SubSeq(rest, 1, Min(ends)))
Broken(rest, ends) ==
  IF ends = {} THEN Len(rest) > MaxMessage
  ELSE LET length == Length(rest, ends)
       IN length = -1 \/ length > MaxMessage \/ NextTotal(Min(ends), length) > MaxMessage

\* next(): the state it leaves, and the message it returns, <<>> when there is none; `rest` is Rest.
Next(rest, ends) ==
  LET total == NextTotal(Min(ends), Length(rest, ends))
      broken == Broken(rest, ends)
  IN IF failed THEN [buffer |-> buffer, failed |-> TRUE, message |-> <<>>]
     ELSE IF broken \/ ends = {} \/ Len(rest) < total
     THEN [buffer |-> rest, failed |-> broken, message |-> <<>>]
     ELSE [buffer |-> SubSeq(rest, total + 1, Len(rest)), failed |-> FALSE, message |-> SubSeq(rest, 1, total)]

-----------------------------------------------------------------------------
(* What a server may say.                                                  *)

Symbols == {CR, LF, Line} \cup DOMAIN Lengths

\* It begins with a start line.
Starts(text) == text \in Seq(Symbols) /\ text # <<>> /\ text[1] \notin {CR, LF}

\* A message has the body its head announces, and is not too long.
WellFormed(text) ==
  LET ends == HeadEnds(text)
      length == Length(text, ends)
  IN Starts(text) /\ ends # {} /\ length # -1 /\ Len(text) = Min(ends) + 4 + length /\ Len(text) <= MaxMessage

\* What cannot be the beginning of one: it is too long, or its head does not say how long it is.
IllFormed(text) ==
  LET ends == HeadEnds(text)
      length == Length(text, ends)
  IN /\ Starts(text)
     /\ IF ends = {} THEN Len(text) > MaxMessage ELSE length = -1 \/ Min(ends) + 4 + length > MaxMessage
=============================================================================
