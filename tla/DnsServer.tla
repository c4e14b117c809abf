----------------------------- MODULE DnsServer -----------------------------
(***************************************************************************)
(* The DNS server of the captive portal: one task that opens a UDP socket, *)
(* receives datagrams and answers them from parse_dns_request, and that    *)
(* starts over with a new socket when a call fails.                        *)
(*                                                                         *)
(* A datagram is its sequence of bytes, at offsets from 0 on; words are in *)
(* network order, while the chip is little-endian and char is unsigned.    *)
(***************************************************************************)
EXTENDS Integers, Sequences, SequencesExt, FiniteSets

CONSTANTS
  DNS_MAX_LEN,  \* bytes of the reply buffer (256)
  NAME_SIZE,    \* bytes of the buffer a name is parsed into (128)
  RX_SIZE,      \* bytes taken of a datagram (sizeof(rx_buffer) - 1, 127)
  Queries,      \* well-formed queries that may arrive, see Encode
  Junk,         \* other datagrams that may arrive
  SoftApIp,     \* the four bytes of the SoftAP's address
  WildIp,       \* what an ip_info that nobody filled in may hold
  NoQuery       \* the last datagram was not one of Queries

HEADER == 12   \* sizeof(dns_header_t)
ANSWER == 16   \* sizeof(dns_answer_t)
QD_TYPE_A == 1
ANS_TTL_SEC == <<0, 0, 1, 44>>  \* 300

NoReply == <<>>

(* A query as its sender means it: the flags that say that it is one, and  *)
(* names as the lengths of their labels.                                   *)
Octet == 0..255
Short == 0..65535
Flags == (0..127) \X Octet
Asked == [name : Seq(1..63), type : Short]
Query == [flags : Flags, questions : Seq(Asked)]

(* A header and the shortest question are received, a name that is         *)
(* received fits its buffer, and one that fits leaves the reply room for   *)
(* what follows it.                                                        *)
ASSUME BufferAssumption == /\ DNS_MAX_LEN \in Nat /\ NAME_SIZE \in Nat
                           /\ RX_SIZE \in Nat /\ HEADER + 5 <= RX_SIZE
                           /\ RX_SIZE <= NAME_SIZE
                           /\ HEADER + NAME_SIZE + 5 <= DNS_MAX_LEN

ASSUME TrafficAssumption ==
  /\ Queries \subseteq Query /\ NoQuery \notin Queries
  /\ \A q \in Queries : Len(q.questions) < 65536
  /\ Junk \subseteq Seq(Octet)
  /\ \A ip \in {SoftApIp, WildIp} : ip \in Seq(Octet) /\ Len(ip) = 4

-----------------------------------------------------------------------------
(* parse_dns_request.                                                      *)

Prepare(req) == req \o [z \in 1..(DNS_MAX_LEN - Len(req)) |-> 0]
At(buf, o) == buf[o + 1]
Word(buf, o) == 256 * At(buf, o) + At(buf, o + 1)
Put(buf, o, bytes) == SubSeq(buf, 1, o) \o bytes
                      \o SubSeq(buf, o + Len(bytes) + 1, Len(buf))
TwoBytes(w) == <<w \div 256, w % 256>>

(* parse_dns_name: the offset behind the name at offset o, or -1.  A name  *)
(* is copied label by label as long as it fits; the test for the end comes *)
(* after the first label.                                                  *)
parse_dns_name(buf, o) ==
  LET Walk[n \in 0..NAME_SIZE] ==  \* n bytes of the name are behind us
        LET len == n + At(buf, o + n) + 1
        IN IF len > NAME_SIZE THEN -1
           ELSE IF At(buf, o + len) = 0 THEN o + len + 1
           ELSE Walk[len]
  IN Walk[0]

(* OPCODE_MASK is meant for the flags in network order, and applied to the *)
(* little-endian word: it selects these bits of the second byte.           *)
NotStandard(buf) == (At(buf, 3) \div 8) % 16 # 0
(* Slip: QR_FLAG as its place in network order, 1 << 15.                   *)
SetOtherByte(buf) == Put(buf, 3, <<(At(buf, 3) % 128) + 128>>)
SetResponse(buf) == Put(buf, 2, <<(At(buf, 2) % 128) + 128>>)

QdCount(req) == Word(Prepare(req), 4)
ReplyLen(req) == QdCount(req) * ANSWER + Len(req)
SetAnCount(buf, n) == Put(buf, 6, TwoBytes(n))

AnswerBytes(qd_type, qd_class, ip) ==
  <<192, HEADER>> \o TwoBytes(qd_type) \o TwoBytes(qd_class)
  \o ANS_TTL_SEC \o TwoBytes(4) \o ip

-----------------------------------------------------------------------------
(* dns_server_task.                                                        *)

VARIABLES
  task,      \* where the task stands
  owner,     \* whose socket the descriptor the task holds stands for
  bound,     \* bind succeeded
  softap,    \* the SoftAP's interface exists
  query,     \* the query received last, NoQuery for junk
  datagram,  \* its bytes, req
  dns_reply, \* the buffer its reply is prepared in
  turns,     \* turns the loop over the questions has still to take
  reply,     \* what was sent for it
  recvFail   \* history: recvfrom has failed on this socket

sockVars == <<owner, bound>>
rxVars == <<query, datagram>>
replyVars == <<dns_reply, turns>>
vars == <<task, sockVars, softap, rxVars, replyVars, reply, recvFail>>

Init == /\ task = "open" /\ owner = "nobody" /\ bound = FALSE
        /\ softap \in BOOLEAN
        /\ query = NoQuery /\ datagram = <<>>
        /\ dns_reply = <<>> /\ turns = 0 /\ reply = NoReply
        /\ recvFail = FALSE

(* Without a socket the task ends, and with it the server, until a reset.  *)
OpenSocket == /\ task = "open"
              /\ \/ task' = "bind" /\ owner' = "dns"
                 \/ task' = "ended" /\ owner' = "nobody"
              /\ UNCHANGED <<bound, softap, rxVars, replyVars, reply, recvFail>>

(* A bind that fails is passed over; slip: it ends the task, like socket.  *)
AfterBindChecked == IF bound' THEN "recv" ELSE "ended"
AfterBind == "recv"

Bind == /\ task = "bind"
        /\ bound' \in BOOLEAN
        /\ task' = AfterBind
        /\ UNCHANGED <<owner, softap, rxVars, replyVars, reply, recvFail>>

Label(length) == <<length>> \o [c \in 1..length |-> 97]
Name(name) == FlattenSeq([l \in 1..Len(name) |-> Label(name[l])]) \o <<0>>
Question(question) == Name(question.name) \o TwoBytes(question.type) \o <<0, 1>>
Encode(q) == <<0, 1>> \o q.flags \o TwoBytes(Len(q.questions)) \o <<0, 0, 0, 0, 0, 0>>
             \o FlattenSeq([n \in 1..Len(q.questions) |-> Question(q.questions[n])])

(* A datagram longer than the buffer loses its end.                        *)
Receive(q, bytes) ==
  /\ task = "recv" /\ bound /\ owner = "dns"
  /\ query' = q
  /\ datagram' = SubSeq(bytes, 1, IF Len(bytes) < RX_SIZE THEN Len(bytes) ELSE RX_SIZE)
  /\ reply' = NoReply
  /\ task' = "handle"
  /\ UNCHANGED <<sockVars, softap, replyVars, recvFail>>

(* The task closes the socket here, and again in Cleanup.                  *)
RecvError == /\ task = "recv"
             /\ owner' = "nobody"
             /\ recvFail' = TRUE
             /\ task' = "cleanup"
             /\ UNCHANGED <<bound, softap, rxVars, replyVars, reply>>

(* Nothing is sent for a query that is not standard, whose answers would   *)
(* not fit, or that has no bytes; slip: the length is not looked at.       *)
RefusedUnsized == NotStandard(Prepare(datagram))
Refused == \/ NotStandard(Prepare(datagram))
           \/ ReplyLen(datagram) \notin 1..DNS_MAX_LEN

(* parse_dns_request up to its loop.                                       *)
StartReply ==
  /\ task = "handle"
  /\ IF Refused
     THEN task' = "recv" /\ UNCHANGED replyVars
     ELSE /\ task' = "reply"
          /\ turns' = QdCount(datagram)
          /\ dns_reply' = SetAnCount(SetResponse(Prepare(datagram)), QdCount(datagram))
  /\ UNCHANGED <<sockVars, softap, rxVars, reply, recvFail>>

(* Slip: every type is answered with the address.                          *)
AnsweredAnyType(qd_type) == TRUE
Answered(qd_type) == qd_type = QD_TYPE_A

(* Without the SoftAP's interface esp_netif_get_ip_info fails, and ip_info *)
(* is what the stack holds.                                                *)
Ips == IF softap THEN {SoftApIp} ELSE {SoftApIp, WildIp}

(* One turn of the loop: it looks at the first question and writes the     *)
(* first answer every time.                                                *)
Respond ==
  /\ task = "reply" /\ turns > 0
  /\ LET end == parse_dns_name(dns_reply, HEADER)
         qd_type == Word(dns_reply, end)
         qd_class == Word(dns_reply, end + 2)
     IN IF end = -1
        THEN task' = "recv" /\ UNCHANGED replyVars
        ELSE /\ IF Answered(qd_type)
                THEN \E ip \in Ips : dns_reply' = Put(dns_reply, Len(datagram),
                                                     AnswerBytes(qd_type, qd_class, ip))
                ELSE UNCHANGED dns_reply
             /\ turns' = turns - 1 /\ UNCHANGED task
  /\ UNCHANGED <<sockVars, softap, rxVars, reply, recvFail>>

(* A send error leads to the common cleanup; slip: with the socket closed. *)
SendErrorClosing == owner' = "nobody"
SendError == UNCHANGED owner

Send == /\ task = "reply" /\ turns = 0
        /\ \/ /\ reply' = SubSeq(dns_reply, 1, ReplyLen(datagram))
              /\ task' = "recv" /\ UNCHANGED owner
           \/ SendError /\ task' = "cleanup" /\ UNCHANGED reply
        /\ UNCHANGED <<bound, softap, rxVars, replyVars, recvFail>>

(* Another task's new socket gets the lowest free descriptor.              *)
OtherOpens == /\ task = "cleanup" /\ owner = "nobody"
              /\ owner' = "other"
              /\ UNCHANGED <<task, bound, softap, rxVars, replyVars, reply, recvFail>>

Cleanup == /\ task = "cleanup"
           /\ owner' = "nobody"
           /\ bound' = FALSE
           /\ query' = NoQuery /\ datagram' = <<>> /\ reply' = NoReply
           /\ dns_reply' = <<>> /\ turns' = 0
           /\ recvFail' = FALSE
           /\ task' = "open"
           /\ UNCHANGED softap

DnsTask == OpenSocket \/ Bind \/ StartReply \/ Respond \/ Send \/ Cleanup

Next == \/ DnsTask
        \/ RecvError
        \/ OtherOpens
        \/ \E q \in Queries : Receive(q, Encode(q))
        \/ \E bytes \in Junk : Receive(NoQuery, bytes)

Spec == Init /\ [][Next]_vars
FairSpec == Spec /\ WF_vars(DnsTask)

-----------------------------------------------------------------------------
(* Properties.                                                             *)

TypeOK == /\ task \in {"open", "bind", "recv", "handle", "reply", "cleanup", "ended"}
          /\ owner \in {"dns", "nobody", "other"}
          /\ bound \in BOOLEAN /\ softap \in BOOLEAN /\ recvFail \in BOOLEAN
          /\ query \in Queries \cup {NoQuery}
          /\ Len(datagram) <= RX_SIZE
          /\ dns_reply # <<>> => Len(dns_reply) = DNS_MAX_LEN
          /\ task = "reply" => ReplyLen(datagram) \in 1..DNS_MAX_LEN
          /\ \A o \in 1..Len(dns_reply) : dns_reply[o] \in 0..255

(* The reply the comments describe: the query as a response, and for every *)
(* question of type A an answer that points to its name.                   *)
Offset(q, n) == Len(Encode([q EXCEPT !.questions = SubSeq(@, 1, n - 1)]))
AnswerTo(q, n, ip) == <<192, Offset(q, n)>> \o TwoBytes(QD_TYPE_A) \o TwoBytes(1)
                      \o ANS_TTL_SEC \o TwoBytes(4) \o ip
Asking(q) == {n \in 1..Len(q.questions) : q.questions[n].type = QD_TYPE_A}
Documented(q, ip) ==
  LET e == Encode(q)
  IN SubSeq(e, 1, 2) \o <<e[3] + 128, e[4]>> \o SubSeq(e, 5, 6)
     \o TwoBytes(Cardinality(Asking(q))) \o SubSeq(e, 9, Len(e))
     \o FlattenSeq([n \in 1..Len(q.questions) |->
                      IF n \in Asking(q) THEN AnswerTo(q, n, ip) ELSE <<>>])

Handled == task = "recv" /\ query # NoQuery
Opcode(q) == (q.flags[1] \div 8) % 16
Usual(q) == /\ Opcode(q) = 0 /\ q.flags[2] = 0
            /\ Len(q.questions) = 1 /\ q.questions[1].type = QD_TYPE_A
            /\ q.questions[1].name # <<>>
            /\ Len(Encode(q)) <= RX_SIZE

(* A standard query of one question for an address gets, byte for byte,    *)
(* the reply the comments describe, whatever junk came before it: with the *)
(* SoftAP's address at the portal, and at a station, where esp_netif has   *)
(* none to give, with nothing else out of place.                           *)
UsualQueryAnswered ==
  Handled /\ Usual(query) => \E ip \in Ips : reply = Documented(query, ip)

(* A query for anything else gets no address: where the answers go, its   *)
(* reply holds nothing.  So does that to a question about the root, whose  *)
(* type parse_dns_name looks for in the wrong place (if another question   *)
(* follows, somewhere in that).                                            *)
NoAddressUnasked ==
  Handled /\ Asking(query) = {}
    /\ (Len(query.questions) > 1 => query.questions[1].name # <<>>)
      => \A o \in (Len(datagram) + 1)..Len(reply) : reply[o] = 0

(* The task closes a socket of another task only right after recvfrom      *)
(* failed on its own, which it then closes twice; a failed send or bind,   *)
(* or a failure of an earlier socket, does not lead to that.               *)
ForeignCloseNeedsRecvError == [][owner = "other" /\ owner' = "nobody" => recvFail]_vars

(* Whatever calls fail, the task returns to recvfrom for ever, or ended    *)
(* because a socket was refused.                                           *)
KeepsListening == []<>(task = "recv") \/ <>(task = "ended" /\ owner = "nobody")

(* What the comments say beyond that.                                      *)
(* "Respond to all questions with the ESP32's IP address".                 *)
AllQuestionsAnswered ==
  Handled /\ Len(query.questions) > 1 => \E ip \in Ips : reply = Documented(query, ip)
(* "Not a standard query": such are not answered, standard ones are.       *)
OpcodeDecides == Handled => (reply = NoReply <=> Opcode(query) # 0)
=============================================================================
