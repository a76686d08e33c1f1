---------------------------- MODULE MCMediaReceive ----------------------------
EXTENDS MediaReceive

Description(pcma, savp, tags, families) == [pcma |-> pcma, savp |-> savp, tags |-> tags, families |-> families]

\* One line; two lines, the second with the tag of this side's offers, out of reach for IPv4; no line.
MCShapes == {Description(TRUE, TRUE, <<1>>, {4}), Description(TRUE, TRUE, <<2, 1>>, {6}),
             Description(TRUE, FALSE, <<>>, {4})}
MCConfigs == [srtp: {TRUE}, family: {4, 6}] \cup [srtp: {FALSE}, family: {4}]
MCStarts == {Modulus - 1}
===============================================================================
