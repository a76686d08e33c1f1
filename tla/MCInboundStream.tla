-------------------------- MODULE MCInboundStream --------------------------
(***************************************************************************)
(* A server that says a message without a body, one whose body is an empty *)
(* line, a keep-alive, a message without a length, one that is too long,   *)
(* or lines without end.                                                   *)
(***************************************************************************)
EXTENDS InboundStream

EmptyLine == <<"CR", "LF", "CR", "LF">>
Bare == <<"line", "none">> \o EmptyLine
WithBody == <<"line", "two">> \o EmptyLine \o <<"CR", "LF">>
KeepAlive == <<"CR", "LF">>
NoLength == <<"line">> \o EmptyLine
TooLong == <<"line", "huge">> \o EmptyLine
Endless == [i \in 1..9 |-> "line"]

MCLengths == [none |-> 0, two |-> 2, huge |-> 9]
MCMessages == {Bare, WithBody}
MCMalformed == {NoLength, TooLong, Endless}
MCStreams == {<<KeepAlive, WithBody>>, <<WithBody, Bare>>, <<WithBody, NoLength>>, <<TooLong>>, <<Endless>>}
=============================================================================
