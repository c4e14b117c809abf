---------------------------- MODULE MCDnsServer ----------------------------
(* Datagrams for DnsServer: names are given by the lengths of their labels.*)
EXTENDS DnsServer

A(name) == [name |-> name, type |-> 1]
Aaaa(name) == [name |-> name, type |-> 28]
Uri(name) == [name |-> name, type |-> 256]
Root == <<>>
Ask(b2, b3, questions) == [flags |-> <<b2, b3>>, questions |-> questions]

(* Recursion desired: the flags of a usual query.                          *)
RD == 1
Usuals == {Ask(RD, 0, <<A(name)>>) : name \in {<<1>>, <<3, 2>>, <<63, 40>>, <<1, 1, 1, 1>>}}
Others == {Ask(RD, 0, <<question>>) :
             question \in {Aaaa(<<3, 2>>), Aaaa(<<1>>), Aaaa(<<63, 63>>), Aaaa(Root), Uri(Root)}}
          \cup {Ask(RD, 0, <<Aaaa(<<1>>), Uri(<<2>>)>>)}
Mixed == Usuals \cup Others

TwoQuestions == {Ask(RD, 0, <<A(<<3, 2>>), A(<<4>>)>>)}
Flagged == {Ask(RD, 32, <<A(<<1>>)>>), Ask(16, 0, <<A(<<1>>)>>)}  \* AD; opcode 2

(* Empty; shorter than a header; no question; a label longer than the rest;*)
(* a compression pointer for a name; more questions than the buffer holds  *)
(* answers for; longer than the receive buffer.                            *)
Header(qd) == <<0, 2, 1, 0, 0, qd, 0, 0, 0, 0, 0, 0>>
Datagrams == {<<>>, <<7, 7, 1>>, Header(0), Header(1) \o <<9, 97, 97>>,
              Header(1) \o <<192, 12, 0, 1, 0, 1>>,
              Header(16) \o <<1, 97, 0, 0, 1, 0, 1>>,
              Header(3) \o <<1, 97, 0, 0, 1, 0, 1>>,
              Header(1) \o <<63>> \o [c \in 1..63 |-> 97] \o <<63>> \o [c \in 1..63 |-> 97]
                \o <<0, 0, 1, 0, 1>>}
NoDatagrams == {}

PortalIp == <<192, 168, 4, 1>>
StackBytes == <<1, 2, 3, 4>>
=============================================================================
