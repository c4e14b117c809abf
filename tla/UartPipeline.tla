---------------------------- MODULE UartPipeline ----------------------------
(***************************************************************************)
(* From the serial line to the publish callback: the UART driver's         *)
(* interrupt stores chunks of bytes in a ring buffer and posts an event    *)
(* for each; uart_event_task takes the events one by one, reads as many    *)
(* bytes as an event says, and makes a payload of them.  Bytes and events  *)
(* travel apart, and each can be dropped without the other.                *)
(*                                                                         *)
(* The line carries Frames frames "key:value"; a byte is its position, and *)
(* every third is a colon.  The driver (ESP-IDF) is modelled from the calls*)
(* made to it.                                                             *)
(***************************************************************************)
EXTENDS UartParameters, Sequences

VARIABLES
  sent,       \* bytes the line has carried
  ring,       \* the receive buffer
  stash,      \* a chunk the buffer had no room for; while there, no reception
  queue,      \* data_uart_queue
  task,       \* where uart_event_task stands
  need,       \* bytes uart_read_bytes has still to fetch
  dtmp,       \* bytes it has fetched for this event
  published,  \* payloads handed to data_callback
  stored,     \* history: bytes ever put into the ring
  base,       \* history: the value of stored at the last event taken, or reset
  leaked,     \* history: bytes entered the ring for which no event is queued
  intact      \* history: one chunk per frame so far, and none lost

lineVars == <<sent, ring, stash, queue, stored>>
taskVars == <<task, need, dtmp, published, base>>
vars == <<lineVars, taskVars, leaked, intact>>

Positions == 1..(3 * Frames)
IsColon(p) == p % 3 = 2
IsDigit(p) == p % 3 = 0
Interval(a, b) == [k \in 1..(b - a) |-> a + k]

(* An event; upto is history, the value of stored when it was posted.      *)
EventTypes == {"UART_DATA", "UART_FIFO_OVF", "UART_BUFFER_FULL", "UART_FRAME_ERR"}
Event == [type : EventTypes, size : 0..MaxChunk, upto : Nat]

Init == /\ sent = 0
        /\ ring = <<>>
        /\ stash = <<>>
        /\ queue = <<>>
        /\ task = "receive"
        /\ need = 0
        /\ dtmp = <<>>
        /\ published = <<>>
        /\ stored = 0
        /\ base = 0
        /\ leaked = FALSE
        /\ intact = TRUE

-----------------------------------------------------------------------------
(* The driver's interrupt.                                                 *)

HasSpace == Len(queue) < QUEUE_SIZE

(* An event posted to a full queue is dropped.                             *)
Post(type, size, upto) ==
  queue' = IF HasSpace
           THEN Append(queue, [type |-> type, size |-> size, upto |-> upto])
           ELSE queue

Chunks == {n \in 1..MaxChunk : sent + n <= 3 * Frames}
OneFrame(n) == n = 3 /\ sent % 3 = 0

(* A chunk goes to the ring and its event to the queue.  What is posted    *)
(* between flush and reset will lose its event, too.                       *)
Store(n) == /\ stash = <<>>
            /\ Len(ring) + n <= RING_SIZE
            /\ sent' = sent + n
            /\ ring' = ring \o Interval(sent, sent + n)
            /\ stored' = stored + n
            /\ Post("UART_DATA", n, stored + n)
            /\ leaked' = (leaked \/ ~HasSpace \/ task = "reset")
            /\ intact' = (intact /\ OneFrame(n) /\ HasSpace /\ task # "reset")
            /\ UNCHANGED <<stash, taskVars>>

(* No room: the chunk is put aside and reception stops.                    *)
Stash(n) == /\ stash = <<>>
            /\ Len(ring) + n > RING_SIZE
            /\ sent' = sent + n
            /\ stash' = Interval(sent, sent + n)
            /\ Post("UART_BUFFER_FULL", 0, stored)
            /\ intact' = FALSE
            /\ UNCHANGED <<ring, stored, taskVars, leaked>>

(* Bytes get lost in the hardware: its FIFO overflows, for reception is    *)
(* stopped or late, or they come garbled.                                  *)
Overflow(n) == /\ sent' = sent + n
               /\ \/ Post("UART_FIFO_OVF", 0, stored)
                  \/ Post("UART_FRAME_ERR", 0, stored)
               /\ intact' = FALSE
               /\ UNCHANGED <<ring, stash, stored, taskVars, leaked>>

Interrupt == \E n \in Chunks : Store(n) \/ Stash(n) \/ Overflow(n)

-----------------------------------------------------------------------------
(* uart_event_task.                                                        *)

Lower(a, b) == IF a < b THEN a ELSE b

(* Slip: a byte is kept back for the terminating NUL.                      *)
WantedShort(event) == event.size - 1
Wanted(event) == event.size

TakeEvent == /\ task = "receive"
             /\ queue # <<>>
             /\ queue' = Tail(queue)
             /\ base' = Head(queue).upto
             /\ IF Head(queue).type = "UART_DATA"
                THEN task' = "read" /\ need' = Wanted(Head(queue))
                ELSE /\ task' = IF Head(queue).type = "UART_FRAME_ERR"
                                THEN "receive" ELSE "flush"
                     /\ UNCHANGED need
             /\ dtmp' = <<>>
             /\ UNCHANGED <<sent, ring, stash, stored, published, leaked, intact>>

(* Slip: the buffer's size is asked for in place of the event's.           *)
FetchAll == Len(ring)
Fetch == Lower(need, Len(ring))

(* uart_read_bytes with portMAX_DELAY: waits while the ring is empty.  The *)
(* room it makes lets the driver store what it put aside, without an event.*)
Read == /\ task = "read"
        /\ ring # <<>>
        /\ LET rest == SubSeq(ring, Fetch + 1, Len(ring))
               fits == stash # <<>> /\ Len(rest) + Len(stash) <= RING_SIZE
           IN /\ dtmp' = dtmp \o SubSeq(ring, 1, Fetch)
              /\ need' = need - Fetch
              /\ task' = IF need' = 0 THEN "parse" ELSE "read"
              /\ IF fits
                 THEN /\ ring' = rest \o stash /\ stash' = <<>>
                      /\ stored' = stored + Len(stash) /\ leaked' = TRUE
                 ELSE ring' = rest /\ UNCHANGED <<stash, stored, leaked>>
        /\ UNCHANGED <<sent, queue, published, base, intact>>

(* strtok_r twice on ":": the key is the first run of bytes without colon, *)
(* the value the second; atoi takes the digits at its start.  With less    *)
(* than two runs there is no payload.                                      *)
Unparsed == <<>>
Least(S) == CHOOSE x \in S : \A y \in S : x <= y
Runs(c) == {r \in (1..Len(c)) \X (1..Len(c)) :
             /\ r[1] <= r[2]
             /\ \A k \in r[1]..r[2] : ~IsColon(c[k])
             /\ r[1] = 1 \/ IsColon(c[r[1] - 1])
             /\ r[2] = Len(c) \/ IsColon(c[r[2] + 1])}
FirstRun(R) == CHOOSE r \in R : \A q \in R : r[1] <= q[1]
Digits(c, r) == Least({k \in r[1]..(r[2] + 1) : k = r[2] + 1 \/ ~IsDigit(c[k])}) - r[1]
parse_data_to_json(c) ==
  IF \E r, q \in Runs(c) : r # q
  THEN LET key == FirstRun(Runs(c))
           value == FirstRun(Runs(c) \ {key})
       IN <<SubSeq(c, key[1], key[2]),
            SubSeq(c, value[1], value[1] + Digits(c, value) - 1)>>
  ELSE Unparsed

EndParse == /\ task = "parse" /\ task' = "receive"
            /\ dtmp' = <<>>
            /\ UNCHANGED <<lineVars, need, base, leaked>>

HasPayload == parse_data_to_json(dtmp) # Unparsed

Publish == /\ HasPayload /\ EndParse
           /\ published' = Append(published, parse_data_to_json(dtmp))
           /\ UNCHANGED intact

NothingToPublish == ~HasPayload /\ EndParse /\ UNCHANGED <<published, intact>>

(* A cJSON call that returns NULL: the frame is dropped.                   *)
OutOfMemory == HasPayload /\ EndParse /\ intact' = FALSE /\ UNCHANGED published

FlushInput == /\ ring' = <<>> /\ stash' = <<>>
              /\ leaked' = FALSE
              /\ UNCHANGED <<queue, base>>
QueueReset == /\ queue' = <<>>
              /\ base' = stored
              /\ UNCHANGED <<ring, stash, leaked>>

(* Slip: the queue is reset first.                                         *)
DiscardQueueFirst == /\ \/ task = "flush" /\ QueueReset /\ task' = "reset"
                        \/ task = "reset" /\ FlushInput /\ task' = "receive"
                     /\ UNCHANGED <<sent, stored, need, dtmp, published, intact>>

Discard == /\ \/ task = "flush" /\ FlushInput /\ task' = "reset"
              \/ task = "reset" /\ QueueReset /\ task' = "receive"
           /\ UNCHANGED <<sent, stored, need, dtmp, published, intact>>

EventTask == \/ TakeEvent \/ Read \/ Discard
             \/ Publish \/ NothingToPublish \/ OutOfMemory

Next == Interrupt \/ EventTask

Spec == Init /\ [][Next]_vars

-----------------------------------------------------------------------------
(* Properties.                                                             *)

TypeOK == /\ sent \in 0..(3 * Frames)
          /\ ring \in Seq(Positions) /\ Len(ring) <= RING_SIZE
          /\ stash \in Seq(Positions) /\ Len(stash) <= MaxChunk
          /\ queue \in Seq(Event) /\ Len(queue) <= QUEUE_SIZE
          /\ task \in {"receive", "read", "parse", "flush", "reset"}
          /\ need \in 0..MaxChunk
          /\ dtmp \in Seq(Positions) /\ Len(dtmp) + need <= MaxChunk
          /\ published \in Seq(Seq(Seq(Positions)))
          /\ stored \in Nat /\ base \in Nat
          /\ leaked \in BOOLEAN /\ intact \in BOOLEAN

(* The task never waits inside uart_read_bytes, where it would hear of no  *)
(* other event: the bytes of a data event it took are in the ring, however *)
(* events were dropped and the buffer flushed before.                      *)
ReadNeverBlocks == task = "read" => need \in 1..Len(ring)

(* Bytes stay behind in the ring, to be taken for those of later events,   *)
(* only after an event was dropped, the driver stored what it had put      *)
(* aside, or a chunk arrived between a flush and its reset; a flush into   *)
(* which no chunk falls ends that.                                         *)
NoSilentDrift == ~leaked /\ task = "receive" /\ queue = <<>> => ring = <<>>

(* When the line falls silent, the task gets through all its events.       *)
Drains == <>[](task = "receive" /\ queue = <<>>)
=============================================================================
