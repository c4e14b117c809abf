------------------------ MODULE UartPipelineProofs ------------------------
(***************************************************************************)
(* Proofs about UartPipeline for every size of the buffer, the queue and   *)
(* the chunks: the task never blocks in a read, bytes are left behind only *)
(* for the causes NoSilentDrift names, every variable stays in its range,  *)
(* and frames that come whole are published whole and in order.            *)
(***************************************************************************)
EXTENDS UartPipeline, SequenceTheorems, WellFoundedInduction, TLAPS

-----------------------------------------------------------------------------
(* Bytes and events travel apart; the inductive invariant ties them by the *)
(* counts of bytes stored so far.  The events of a queue q cover disjoint  *)
(* stretches of the bytes b..s, in order; exactly, if they leave no gap.   *)

Prior(q, b, k) == IF k = 1 THEN b ELSE q[k - 1].upto
Chained(q, b, s) ==
  /\ b <= s
  /\ \A k \in 1..Len(q) : /\ q[k].upto <= s
                          /\ Prior(q, b, k) + q[k].size <= q[k].upto
Exact(q, b, s) == /\ \A k \in 1..Len(q) : Prior(q, b, k) + q[k].size = q[k].upto
                  /\ Prior(q, b, Len(q) + 1) = s

(* A data event counts at least one byte, any other none.                  *)
Sized(e) == IF e.type = "UART_DATA" THEN e.size > 0 ELSE e.size = 0

Typing == /\ sent \in Nat /\ stored \in Nat /\ base \in Nat /\ need \in Nat
          /\ ring \in Seq(Nat) /\ stash \in Seq(Nat)
          /\ queue \in Seq(Event)
          /\ task \in {"receive", "read", "parse", "flush", "reset"}
          /\ leaked \in BOOLEAN

(* How many bytes have left the ring, read or flushed.                     *)
Gone == stored - Len(ring)

(* Never have more left it than the events taken account for, except       *)
(* between a flush and the reset of the queue.                             *)
Accounted == /\ Len(ring) <= stored
             /\ task # "reset" => Gone + need <= base
             /\ (need > 0) <=> (task = "read")

(* Without a leak the accounts are exact.                                  *)
Balanced == ~leaked => IF task = "reset" THEN ring = <<>>
                       ELSE Exact(queue, base, stored) /\ Gone + need = base

IInv == /\ Typing
        /\ \A k \in 1..Len(queue) : Sized(queue[k])
        /\ Chained(queue, base, stored)
        /\ Accounted
        /\ Balanced

-----------------------------------------------------------------------------
(* What the operations on the queue do to its accounts.                    *)

(* An event for the next bytes stored joins a queue of good accounts.      *)
LEMMA Appended ==
  ASSUME NEW q \in Seq(Event), NEW b \in Nat, NEW s \in Nat, NEW e \in Event,
         Sized(e), e.upto = s + e.size, Chained(q, b, s),
         \A k \in 1..Len(q) : Sized(q[k])
  PROVE  /\ Append(q, e) \in Seq(Event)
         /\ \A k \in 1..Len(Append(q, e)) : Sized(Append(q, e)[k])
         /\ Chained(Append(q, e), b, s + e.size)
         /\ Exact(q, b, s) => Exact(Append(q, e), b, s + e.size)
<1> DEFINE r == Append(q, e)
<1>1. /\ r \in Seq(Event)
      /\ Len(q) \in Nat /\ Len(r) = Len(q) + 1
      /\ \A k \in 1..Len(q) : r[k] = q[k] /\ q[k] \in Event
      /\ r[Len(q) + 1] = e
  BY AppendProperties, LenProperties, ElementOfSeq
<1>2. /\ e.size \in Nat /\ e.upto \in Nat
      /\ \A k \in 1..Len(q) : q[k].size \in Nat /\ q[k].upto \in Nat
  BY <1>1, SizesAssumption DEF Event
<1>3. /\ \A k \in 1..Len(q) : Prior(r, b, k) = Prior(q, b, k)
      /\ Prior(r, b, Len(r)) = Prior(q, b, Len(q) + 1)
      /\ Prior(r, b, Len(r) + 1) = e.upto
  BY <1>1 DEF Prior
<1>4. Prior(q, b, Len(q) + 1) \in Nat /\ Prior(q, b, Len(q) + 1) <= s
  BY <1>1, <1>2 DEF Prior, Chained
<1>5. \A k \in 1..Len(r) : k \in 1..Len(q) \/ k = Len(q) + 1
  BY <1>1
<1> HIDE DEF r
<1>6. \A k \in 1..Len(r) : Sized(r[k])
  BY <1>1, <1>5
<1>7. Chained(r, b, s + e.size)
  <2>1. b <= s + e.size
    BY <1>2 DEF Chained
  <2>2. ASSUME NEW k \in 1..Len(q)
        PROVE  r[k].upto <= s + e.size /\ Prior(r, b, k) + r[k].size <= r[k].upto
    BY <1>1, <1>2, <1>3 DEF Chained
  <2>3. /\ r[Len(r)].upto <= s + e.size
        /\ Prior(r, b, Len(r)) + r[Len(r)].size <= r[Len(r)].upto
    BY <1>1, <1>2, <1>3, <1>4
  <2>4. QED
    BY <1>1, <1>5, <2>1, <2>2, <2>3 DEF Chained
<1>8. ASSUME Exact(q, b, s) PROVE Exact(r, b, s + e.size)
  <2>1. ASSUME NEW k \in 1..Len(q) PROVE Prior(r, b, k) + r[k].size = r[k].upto
    BY <1>1, <1>3, <1>8 DEF Exact
  <2>2. Prior(r, b, Len(r)) + r[Len(r)].size = r[Len(r)].upto
    BY <1>1, <1>2, <1>3, <1>8 DEF Exact
  <2>3. QED
    BY <1>1, <1>3, <1>5, <2>1, <2>2 DEF Exact
<1>9. QED
  BY <1>1, <1>6, <1>7, <1>8 DEF r

(* Bytes may be stored for which no event is queued.                       *)
LEMMA Grown ==
  ASSUME NEW q \in Seq(Event), NEW b \in Nat, NEW s \in Nat, NEW n \in Nat,
         Chained(q, b, s)
  PROVE  Chained(q, b, s + n)
<1>1. \A k \in 1..Len(q) : q[k] \in Event
  BY LenProperties, ElementOfSeq
<1>2. \A k \in 1..Len(q) : q[k].upto \in Nat
  BY <1>1 DEF Event
<1>3. QED
  BY <1>2 DEF Chained

(* The first event taken, the others go on from where it ended.            *)
LEMMA Taken ==
  ASSUME NEW q \in Seq(Event), q # <<>>, NEW b \in Nat, NEW s \in Nat,
         Chained(q, b, s), \A k \in 1..Len(q) : Sized(q[k])
  PROVE  /\ Tail(q) \in Seq(Event) /\ Head(q) \in Event
         /\ \A k \in 1..Len(Tail(q)) : Sized(Tail(q)[k])
         /\ Sized(Head(q))
         /\ b + Head(q).size <= Head(q).upto
         /\ Chained(Tail(q), Head(q).upto, s)
         /\ Exact(q, b, s) => /\ b + Head(q).size = Head(q).upto
                              /\ Exact(Tail(q), Head(q).upto, s)
<1> DEFINE t == Tail(q)
<1>1. /\ t \in Seq(Event) /\ Head(q) \in Event /\ Head(q) = q[1]
      /\ Len(q) \in Nat \ {0} /\ Len(t) = Len(q) - 1
      /\ \A k \in 1..Len(t) : t[k] = q[k + 1] /\ k + 1 \in 1..Len(q)
      /\ 1 \in 1..Len(q)
      /\ \A k \in 1..Len(q) : q[k] \in Event
  BY HeadTailProperties, LenProperties, ElementOfSeq
<1>2. \A k \in 1..Len(q) : q[k].size \in Nat /\ q[k].upto \in Nat
  BY <1>1, SizesAssumption DEF Event
<1>3. \A k \in 1..(Len(t) + 1) : Prior(t, q[1].upto, k) = Prior(q, b, k + 1)
  BY <1>1 DEF Prior
<1>4. Prior(q, b, 1) = b
  BY DEF Prior
<1> HIDE DEF t
<1>5. b + q[1].size <= q[1].upto /\ q[1].upto <= s
  BY <1>1, <1>4 DEF Chained
<1>6. Chained(t, q[1].upto, s)
  <2>1. ASSUME NEW k \in 1..Len(t)
        PROVE  t[k].upto <= s /\ Prior(t, q[1].upto, k) + t[k].size <= t[k].upto
    <3>1. t[k] = q[k + 1] /\ k + 1 \in 1..Len(q)
      BY <1>1
    <3>2. Prior(t, q[1].upto, k) = Prior(q, b, k + 1)
      BY <1>1, <1>3
    <3>3. QED
      BY <3>1, <3>2 DEF Chained
  <2>2. QED
    BY <1>5, <2>1 DEF Chained
<1>7. ASSUME Exact(q, b, s)
      PROVE  b + q[1].size = q[1].upto /\ Exact(t, q[1].upto, s)
  <2>1. ASSUME NEW k \in 1..Len(t)
        PROVE  Prior(t, q[1].upto, k) + t[k].size = t[k].upto
    <3>1. t[k] = q[k + 1] /\ k + 1 \in 1..Len(q)
      BY <1>1
    <3>2. Prior(t, q[1].upto, k) = Prior(q, b, k + 1)
      BY <1>1, <1>3
    <3>3. QED
      BY <1>7, <3>1, <3>2 DEF Exact
  <2>2. Prior(t, q[1].upto, Len(t) + 1) = s
    BY <1>1, <1>3, <1>7 DEF Exact
  <2>3. b + q[1].size = q[1].upto
    BY <1>1, <1>4, <1>7 DEF Exact
  <2>4. QED
    BY <2>1, <2>2, <2>3 DEF Exact
<1>8. QED
  BY <1>1, <1>5, <1>6, <1>7 DEF t

(* What Post does: it queues the event or drops it.                        *)
LEMMA Posted ==
  ASSUME IInv, NEW type \in EventTypes, NEW n \in 0..MaxChunk,
         IF type = "UART_DATA" THEN n > 0 ELSE n = 0,
         Post(type, n, stored + n)
  PROVE  /\ queue' \in Seq(Event)
         /\ \A k \in 1..Len(queue') : Sized(queue'[k])
         /\ Chained(queue', base, stored + n)
         /\ Exact(queue, base, stored) /\ (HasSpace \/ n = 0)
              => Exact(queue', base, stored + n)
<1> DEFINE e == [type |-> type, size |-> n, upto |-> stored + n]
<1>1. /\ queue \in Seq(Event) /\ base \in Nat /\ stored \in Nat /\ n \in Nat
      /\ Chained(queue, base, stored)
      /\ \A k \in 1..Len(queue) : Sized(queue[k])
  BY SizesAssumption DEF IInv, Typing
<1>2. e \in Event /\ Sized(e) /\ e.size = n /\ e.upto = stored + e.size
  BY <1>1 DEF Event, Sized
<1>3. CASE HasSpace
  <2>1. queue' = Append(queue, e)
    BY <1>3 DEF Post
  <2>2. QED
    BY <1>1, <1>2, <2>1, Appended
<1>4. CASE ~HasSpace
  <2>1. queue' = queue
    BY <1>4 DEF Post
  <2>2. Chained(queue, base, stored + n)
    BY <1>1, Grown
  <2>3. n = 0 => stored + n = stored
    BY <1>1
  <2>4. QED
    BY <1>1, <1>4, <2>1, <2>2, <2>3
<1>5. QED
  BY <1>3, <1>4

(* The bytes of a chunk.                                                   *)
LEMMA IntervalLength ==
  ASSUME NEW a \in Nat, NEW n \in Nat
  PROVE  Interval(a, a + n) \in Seq(Nat) /\ Len(Interval(a, a + n)) = n
<1>1. /\ Interval(a, a + n) = [k \in 1..n |-> a + k]
  BY DEF Interval
<1>2. [k \in 1..n |-> a + k] \in [1..n -> Nat]
  OBVIOUS
<1>3. [k \in 1..n |-> a + k] \in Seq(Nat)
  BY <1>2
<1>4. DOMAIN [k \in 1..n |-> a + k] = 1..n
  OBVIOUS
<1>5. Len([k \in 1..n |-> a + k]) = n
  BY <1>3, <1>4, LenProperties
<1>6. QED
  BY <1>1, <1>3, <1>5

-----------------------------------------------------------------------------
(* The invariant is inductive: the driver's interrupt.                     *)

LEMMA StoreKeeps ==
  ASSUME IInv, NEW n \in Chunks, Store(n)
  PROVE  IInv'
<1>1. n \in 1..MaxChunk /\ n \in Nat /\ n > 0 /\ n \in 0..MaxChunk
  BY SizesAssumption DEF Chunks
<1>2. /\ sent' \in Nat /\ stored' = stored + n /\ stored' \in Nat
      /\ UNCHANGED <<task, need, base, stash>>
  BY <1>1 DEF Store, IInv, Typing, taskVars
<1>3. /\ Interval(sent, sent + n) \in Seq(Nat)
      /\ Len(Interval(sent, sent + n)) = n
  BY <1>1, IntervalLength DEF IInv, Typing
<1>4. ring' \in Seq(Nat) /\ Len(ring') = Len(ring) + n
  BY <1>3, ConcatProperties DEF Store, IInv, Typing
<1>5. /\ queue' \in Seq(Event)
      /\ \A k \in 1..Len(queue') : Sized(queue'[k])
      /\ Chained(queue', base, stored + n)
      /\ Exact(queue, base, stored) /\ HasSpace => Exact(queue', base, stored + n)
  BY <1>1, Posted DEF Store, EventTypes
<1>6. leaked' = (leaked \/ ~HasSpace \/ task = "reset")
  BY DEF Store
<1>7. Len(ring) \in Nat
  BY LenProperties DEF IInv, Typing
<1>8. Typing'
  BY <1>2, <1>4, <1>5, <1>6 DEF IInv, Typing
<1>9. Accounted'
  BY <1>1, <1>2, <1>4, <1>7 DEF IInv, Typing, Accounted, Gone
<1>10. Balanced'
  <2>1. SUFFICES ASSUME ~leaked' PROVE task # "reset" /\ Exact(queue', base', stored') /\ Gone' + need' = base'
    BY <1>2 DEF Balanced
  <2>2. ~leaked /\ HasSpace /\ task # "reset"
    BY <2>1, <1>6
  <2>3. Exact(queue, base, stored) /\ Gone + need = base
    BY <2>2 DEF IInv, Balanced
  <2>4. Gone' + need' = base'
    <3>1. stored \in Nat /\ need \in Nat /\ base \in Nat
      BY DEF IInv, Typing
    <3>2. Gone' = Gone
      BY <1>1, <1>2, <1>4, <1>7, <3>1 DEF Gone
    <3>3. QED
      BY <1>2, <2>3, <3>2
  <2>5. QED
    BY <1>2, <1>5, <2>2, <2>3, <2>4
<1>11. QED
  BY <1>2, <1>5, <1>8, <1>9, <1>10 DEF IInv

(* An event without bytes, posted while the ring stays as it is.           *)
LEMMA SignalKeeps ==
  ASSUME IInv, NEW type \in EventTypes \ {"UART_DATA"}, Post(type, 0, stored),
         UNCHANGED <<ring, stored, taskVars, leaked>>,
         sent' \in Nat, stash' \in Seq(Nat)
  PROVE  IInv'
<1>1. UNCHANGED <<ring, stored, task, need, base, leaked>> /\ stored \in Nat
  BY DEF taskVars, IInv, Typing
<1>2. 0 \in 0..MaxChunk /\ stored + 0 = stored
  BY <1>1, SizesAssumption
<1>3. /\ queue' \in Seq(Event)
      /\ \A k \in 1..Len(queue') : Sized(queue'[k])
      /\ Chained(queue', base, stored)
      /\ Exact(queue, base, stored) => Exact(queue', base, stored)
  BY <1>2, Posted
<1>4. Typing'
  BY <1>1, <1>3 DEF IInv, Typing
<1>5. Accounted'
  BY <1>1 DEF IInv, Accounted, Gone
<1>6. Balanced'
  BY <1>1, <1>3 DEF IInv, Balanced, Gone
<1>7. QED
  BY <1>1, <1>3, <1>4, <1>5, <1>6 DEF IInv

LEMMA InterruptKeeps ==
  ASSUME IInv, Interrupt
  PROVE  IInv'
<1>1. PICK n \in Chunks : Store(n) \/ Stash(n) \/ Overflow(n)
  BY DEF Interrupt
<1>2. n \in Nat /\ sent \in Nat /\ sent + n \in Nat
  BY SizesAssumption DEF Chunks, IInv, Typing
<1>3. CASE Store(n)
  BY <1>3, StoreKeeps
<1>4. CASE Stash(n)
  <2>1. stash' \in Seq(Nat) /\ sent' \in Nat
    BY <1>2, <1>4, IntervalLength DEF Stash
  <2>2. QED
    BY <1>4, <2>1, SignalKeeps DEF Stash, EventTypes
<1>5. CASE Overflow(n)
  <2>1. stash' \in Seq(Nat) /\ sent' \in Nat
    BY <1>2, <1>5 DEF Overflow, IInv, Typing
  <2>2. QED
    BY <1>5, <2>1, SignalKeeps DEF Overflow, EventTypes
<1>6. QED
  BY <1>1, <1>3, <1>4, <1>5

-----------------------------------------------------------------------------
(* uart_event_task.                                                        *)

LEMMA TakeEventKeeps ==
  ASSUME IInv, TakeEvent
  PROVE  IInv'
<1> DEFINE e == Head(queue)
<1>1. /\ queue \in Seq(Event) /\ queue # <<>> /\ base \in Nat /\ stored \in Nat
      /\ Chained(queue, base, stored)
      /\ \A k \in 1..Len(queue) : Sized(queue[k])
      /\ task = "receive" /\ need = 0
      /\ Len(ring) \in Nat
  BY LenProperties DEF TakeEvent, IInv, Typing, Accounted
<1>2. /\ queue' = Tail(queue) /\ base' = e.upto
      /\ UNCHANGED <<sent, ring, stash, stored, leaked>>
  BY DEF TakeEvent
<1>3. /\ queue' \in Seq(Event) /\ e \in Event
      /\ \A k \in 1..Len(queue') : Sized(queue'[k])
      /\ Sized(e)
      /\ base + e.size <= base'
      /\ Chained(queue', base', stored')
      /\ Exact(queue, base, stored) => /\ base + e.size = base'
                                       /\ Exact(queue', base', stored')
  BY <1>1, <1>2, Taken
<1>4. e.size \in Nat /\ base' \in Nat
  BY <1>2, <1>3, SizesAssumption DEF Event
<1> HIDE DEF e
<1>5. /\ need' = e.size
      /\ (need' > 0) <=> (task' = "read")
      /\ task' \in {"read", "flush", "receive"}
  <2>1. CASE e.type = "UART_DATA"
    BY <1>3, <2>1 DEF TakeEvent, Wanted, Sized, e
  <2>2. CASE e.type # "UART_DATA"
    BY <1>1, <1>3, <2>2 DEF TakeEvent, Wanted, Sized, e
  <2>3. QED
    BY <2>1, <2>2
<1>6. Typing'
  BY <1>2, <1>3, <1>4, <1>5 DEF IInv, Typing
<1>7. Accounted'
  BY <1>1, <1>2, <1>3, <1>4, <1>5 DEF IInv, Accounted, Gone
<1>8. Balanced'
  BY <1>1, <1>2, <1>3, <1>4, <1>5 DEF IInv, Balanced, Gone
<1>9. QED
  BY <1>3, <1>6, <1>7, <1>8 DEF IInv

(* A read that takes what the event counted; what was put aside may enter  *)
(* the ring at its other end.                                              *)
LEMMA ReadKeeps ==
  ASSUME IInv, Read
  PROVE  IInv'
<1> DEFINE n == Fetch
           rest == SubSeq(ring, n + 1, Len(ring))
           fits == stash # <<>> /\ Len(rest) + Len(stash) <= RING_SIZE
<1>1. /\ task = "read" /\ need \in Nat /\ need > 0
      /\ Len(ring) \in Nat /\ Len(stash) \in Nat
      /\ ring \in Seq(Nat) /\ stash \in Seq(Nat)
      /\ stored \in Nat /\ base \in Nat
      /\ base <= stored
      /\ Len(ring) <= stored /\ stored - Len(ring) + need <= base
  BY LenProperties DEF Read, IInv, Typing, Accounted, Gone, Chained
<1>2. n = need /\ need <= Len(ring)
  BY <1>1 DEF Fetch, Lower
<1>3. rest \in Seq(Nat) /\ Len(rest) = Len(ring) - need
  <2>1. \A i \in (n + 1)..Len(ring) : ring[i] \in Nat
    BY <1>1, <1>2, ElementOfSeq
  <2>2. n + 1 \in Int /\ Len(ring) \in Int
    BY <1>1, <1>2
  <2>3. /\ rest \in Seq(Nat)
        /\ Len(rest) = IF n + 1 <= Len(ring) THEN Len(ring) - (n + 1) + 1 ELSE 0
    BY <2>1, <2>2, SubSeqProperties
  <2>4. QED
    BY <1>1, <1>2, <2>3
<1>4. /\ need' = 0 /\ task' = "parse"
      /\ UNCHANGED <<sent, queue, base>>
  BY <1>1, <1>2 DEF Read
<1>5. CASE fits
  <2>1. /\ ring' = rest \o stash /\ stash' = <<>>
        /\ stored' = stored + Len(stash) /\ leaked' = TRUE
    BY <1>5 DEF Read
  <2> HIDE DEF n, rest, fits
  <2>2. ring' \in Seq(Nat) /\ Len(ring') = Len(ring) - need + Len(stash)
    BY <1>1, <1>3, <2>1, ConcatProperties
  <2>3. Chained(queue, base, stored')
    BY <1>1, <2>1, Grown DEF IInv, Typing
  <2>4. stash' \in Seq(Nat)
    BY <2>1
  <2>5. Typing'
    BY <1>1, <1>4, <2>1, <2>2, <2>4 DEF IInv, Typing
  <2>6. Accounted'
    BY <1>1, <1>2, <1>4, <2>1, <2>2 DEF Accounted, Gone
  <2>7. Balanced'
    BY <2>1 DEF Balanced
  <2>8. QED
    BY <1>4, <2>3, <2>5, <2>6, <2>7 DEF IInv
<1>6. CASE ~fits
  <2>1. ring' = rest /\ UNCHANGED <<stash, stored, leaked>>
    BY <1>6 DEF Read
  <2> HIDE DEF n, rest, fits
  <2>2. Typing'
    BY <1>1, <1>3, <1>4, <2>1 DEF IInv, Typing
  <2>3. Accounted'
    BY <1>1, <1>2, <1>3, <1>4, <2>1 DEF Accounted, Gone
  <2>4. Balanced'
    <3>1. SUFFICES ASSUME ~leaked'
                   PROVE  Exact(queue', base', stored') /\ Gone' + need' = base'
      BY <1>4 DEF Balanced
    <3>2. Exact(queue, base, stored) /\ Gone + need = base
      BY <1>1, <2>1, <3>1 DEF IInv, Balanced
    <3>3. Gone' = Gone + need
      <4>1. Len(ring') = Len(ring) - need /\ stored' = stored
        BY <1>3, <2>1
      <4>2. QED
        BY <1>1, <4>1 DEF Gone
    <3>4. Gone' + need' = base'
      <4>1. Gone \in Int
        BY <1>1 DEF Gone
      <4>2. QED
        BY <1>1, <1>4, <3>2, <3>3, <4>1
    <3>5. QED
      BY <1>4, <2>1, <3>2, <3>4
  <2>5. QED
    BY <1>4, <2>1, <2>2, <2>3, <2>4 DEF IInv
<1>7. QED
  BY <1>5, <1>6

LEMMA ParseKeeps ==
  ASSUME IInv, EndParse
  PROVE  IInv'
<1>1. /\ task = "parse" /\ task' = "receive"
      /\ UNCHANGED <<sent, ring, stash, queue, stored, need, base, leaked>>
  BY DEF EndParse, lineVars
<1>2. Typing'
  BY <1>1 DEF IInv, Typing
<1>3. Accounted'
  BY <1>1 DEF IInv, Accounted, Gone
<1>4. Balanced'
  BY <1>1 DEF IInv, Balanced, Gone
<1>5. QED
  BY <1>1, <1>2, <1>3, <1>4 DEF IInv

(* The flush throws bytes away that events still count; the reset throws   *)
(* those events away and sets the accounts right.                          *)
LEMMA DiscardKeeps ==
  ASSUME IInv, Discard
  PROVE  IInv'
<1>1. UNCHANGED <<sent, stored, need>> /\ stored \in Nat /\ Len(ring) \in Nat
  BY LenProperties DEF Discard, IInv, Typing
<1>2. <<>> \in Seq(Nat) /\ <<>> \in Seq(Event) /\ Len(<<>>) = 0
  OBVIOUS
<1>3. CASE task = "flush" /\ FlushInput /\ task' = "reset"
  <2>1. /\ task = "flush" /\ task' = "reset"
        /\ ring' = <<>> /\ stash' = <<>> /\ leaked' = FALSE
        /\ UNCHANGED <<queue, base>>
    BY <1>3 DEF FlushInput
  <2>2. Typing'
    BY <1>1, <1>2, <2>1 DEF IInv, Typing
  <2>3. Accounted'
    BY <1>1, <1>2, <2>1 DEF IInv, Accounted, Typing
  <2>4. Balanced'
    BY <2>1 DEF Balanced
  <2>5. QED
    BY <1>1, <2>1, <2>2, <2>3, <2>4 DEF IInv
<1>4. CASE task = "reset" /\ QueueReset /\ task' = "receive"
  <2>1. /\ task = "reset" /\ task' = "receive"
        /\ queue' = <<>> /\ base' = stored
        /\ UNCHANGED <<ring, stash, leaked>>
    BY <1>4 DEF QueueReset
  <2>2. need = 0
    BY <2>1 DEF IInv, Accounted, Typing
  <2>3. Typing'
    BY <1>1, <1>2, <2>1 DEF IInv, Typing
  <2>4. Accounted'
    BY <1>1, <2>1, <2>2 DEF IInv, Accounted, Gone
  <2>5. Chained(queue', base', stored')
    BY <1>1, <1>2, <2>1 DEF Chained
  <2>6. Balanced'
    <3>1. SUFFICES ASSUME ~leaked' PROVE Exact(queue', base', stored') /\ Gone' + need' = base'
      BY <2>1 DEF Balanced
    <3>2. ring' = <<>>
      BY <2>1, <3>1 DEF IInv, Balanced
    <3>3. Exact(queue', base', stored')
      BY <1>1, <1>2, <2>1 DEF Exact, Prior
    <3>4. Gone' + need' = base'
      BY <1>1, <1>2, <2>1, <2>2, <3>2 DEF Gone
    <3>5. QED
      BY <3>3, <3>4
  <2>7. \A k \in 1..Len(queue') : Sized(queue'[k])
    BY <1>2, <2>1
  <2>8. QED
    BY <2>3, <2>4, <2>5, <2>6, <2>7 DEF IInv
<1>5. QED
  BY <1>3, <1>4 DEF Discard

-----------------------------------------------------------------------------
(* The theorems.                                                           *)

LEMMA Initially == Init => IInv
<1>1. SUFFICES ASSUME Init PROVE IInv
  OBVIOUS
<1>2. <<>> \in Seq(Nat) /\ <<>> \in Seq(Event) /\ Len(<<>>) = 0
  OBVIOUS
<1>3. Typing
  BY <1>1, <1>2 DEF Init, Typing
<1>4. Chained(queue, base, stored) /\ \A k \in 1..Len(queue) : Sized(queue[k])
  BY <1>1, <1>2 DEF Init, Chained
<1>5. Accounted
  BY <1>1, <1>2 DEF Init, Accounted, Gone
<1>6. Balanced
  <2>1. Exact(queue, base, stored)
    BY <1>1, <1>2 DEF Init, Exact, Prior
  <2>2. Gone + need = base /\ task # "reset"
    <3>1. Len(ring) = 0 /\ stored = 0 /\ base = 0 /\ need = 0 /\ task = "receive"
      BY <1>1, <1>2 DEF Init
    <3>2. QED
      BY <3>1 DEF Gone
  <2>3. QED
    BY <2>1, <2>2 DEF Balanced
<1>7. QED
  BY <1>3, <1>4, <1>5, <1>6 DEF IInv

(* Every reachable state has its bytes and events in good account.         *)
THEOREM Accounts == Spec => []IInv
<1>1. Init => IInv
  BY Initially
<1>2. IInv /\ [Next]_vars => IInv'
  <2>1. SUFFICES ASSUME IInv, [Next]_vars PROVE IInv'
    OBVIOUS
  <2>2. CASE Interrupt
    BY <2>1, <2>2, InterruptKeeps
  <2>3. CASE TakeEvent
    BY <2>1, <2>3, TakeEventKeeps
  <2>4. CASE Read
    BY <2>1, <2>4, ReadKeeps
  <2>5. CASE Publish \/ NothingToPublish \/ OutOfMemory
    BY <2>1, <2>5, ParseKeeps DEF Publish, NothingToPublish, OutOfMemory
  <2>6. CASE Discard
    BY <2>1, <2>6, DiscardKeeps
  <2>7. CASE UNCHANGED vars
    BY <2>1, <2>7 DEF vars, lineVars, taskVars, IInv, Typing, Accounted, Balanced, Gone
  <2>8. QED
    BY <2>1, <2>2, <2>3, <2>4, <2>5, <2>6, <2>7 DEF Next, EventTask
<1>3. QED
  BY <1>1, <1>2, PTL DEF Spec

(* The task is never stuck in uart_read_bytes: the bytes it waits for are  *)
(* in the ring, for every size of the buffers and every loss.              *)
THEOREM NeverBlocked == Spec => []ReadNeverBlocks
<1>1. IInv => ReadNeverBlocks
  <2>1. SUFFICES ASSUME IInv, task = "read" PROVE need \in 1..Len(ring)
    BY DEF ReadNeverBlocks
  <2>2. /\ need \in Nat /\ need > 0 /\ Len(ring) \in Nat
        /\ stored \in Nat /\ base \in Nat /\ base <= stored
        /\ stored - Len(ring) + need <= base
    BY <2>1, LenProperties DEF IInv, Typing, Accounted, Gone, Chained
  <2>3. QED
    BY <2>2
<1>2. QED
  BY <1>1, Accounts, PTL

(* Bytes left behind in the ring go back to one of three causes, whatever  *)
(* the order of the driver's and the task's steps.                         *)
THEOREM DriftHasCause == Spec => []NoSilentDrift
<1>1. IInv => NoSilentDrift
  <2>1. SUFFICES ASSUME IInv, ~leaked, task = "receive", queue = <<>> PROVE ring = <<>>
    BY DEF NoSilentDrift
  <2>2. Len(queue) = 0 /\ Len(ring) \in Nat /\ ring \in Seq(Nat)
    BY <2>1, LenProperties DEF IInv, Typing
  <2>3. base = stored /\ need = 0 /\ stored \in Nat
    BY <2>1, <2>2 DEF IInv, Balanced, Exact, Prior, Accounted, Typing
  <2>4. Len(ring) = 0
    BY <2>1, <2>2, <2>3 DEF IInv, Balanced, Gone
  <2>5. QED
    BY <2>2, <2>4
<1>2. QED
  BY <1>1, Accounts, PTL

-----------------------------------------------------------------------------
(* What parse_data_to_json makes of the bytes of an event.                 *)

(* A nonempty set of numbers has a least member.                           *)
LEMMA HasLeast ==
  ASSUME NEW S \in SUBSET Nat, S # {}
  PROVE  \E x \in S : \A y \in S : x <= y
<1>1. PICK x \in S : \A y \in S : <<y, x>> \notin OpToRel(<, Nat)
  BY WFMin, NatLessThanWellFounded
<1>2. \A y \in S : ~(y < x)
  BY <1>1 DEF OpToRel
<1>3. QED
  BY <1>2

LEMMA LeastOfNats ==
  ASSUME NEW S \in SUBSET Nat, S # {}
  PROVE  Least(S) \in S /\ \A y \in S : Least(S) <= y
BY HasLeast DEF Least

(* Runs are stretches of the bytes, and there is a first one.              *)
LEMMA RunBounds ==
  ASSUME NEW c \in Seq(Positions), NEW r \in Runs(c)
  PROVE  /\ r[1] \in 1..Len(c) /\ r[2] \in 1..Len(c) /\ r[1] <= r[2]
         /\ r = <<r[1], r[2]>>
BY DEF Runs

LEMMA FirstRunIn ==
  ASSUME NEW c \in Seq(Positions), NEW R \in SUBSET Runs(c), R # {}
  PROVE  FirstRun(R) \in R /\ \A q \in R : FirstRun(R)[1] <= q[1]
<1> DEFINE S == {r[1] : r \in R}
<1>1. S \in SUBSET Nat /\ S # {}
  BY RunBounds, LenProperties
<1>2. PICK x \in S : \A y \in S : x <= y
  BY <1>1, HasLeast
<1>3. \E r \in R : \A q \in R : r[1] <= q[1]
  BY <1>2
<1>4. QED
  BY <1>3 DEF FirstRun

(* The digits at the start of a run do not reach beyond it.                *)
LEMMA DigitsInRun ==
  ASSUME NEW c \in Seq(Positions), NEW r \in Runs(c)
  PROVE  Digits(c, r) \in 0..(r[2] + 1 - r[1])
<1> DEFINE S == {k \in r[1]..(r[2] + 1) : k = r[2] + 1 \/ ~IsDigit(c[k])}
<1>1. /\ r[1] \in Nat /\ r[2] \in Nat /\ r[1] <= r[2]
  BY RunBounds, LenProperties
<1>2. S \in SUBSET Nat /\ r[2] + 1 \in S
  BY <1>1
<1>3. Least(S) \in S
  BY <1>2, LeastOfNats
<1>4. Digits(c, r) = Least(S) - r[1]
  BY DEF Digits
<1>5. QED
  BY <1>1, <1>3, <1>4

(* A payload is a key and a value, both taken from the bytes.              *)
LEMMA ParsedType ==
  ASSUME NEW c \in Seq(Positions)
  PROVE  parse_data_to_json(c) \in Seq(Seq(Positions))
<1>1. CASE \E r, q \in Runs(c) : r # q
  <2> DEFINE key == FirstRun(Runs(c))
             value == FirstRun(Runs(c) \ {key})
             last == value[1] + Digits(c, value) - 1
  <2>1. key \in Runs(c)
    BY <1>1, FirstRunIn
  <2>2. Runs(c) \ {key} # {}
    BY <1>1
  <2>3. value \in Runs(c)
    <3> HIDE DEF key
    <3>1. FirstRun(Runs(c) \ {key}) \in Runs(c) \ {key}
      BY <2>2, FirstRunIn
    <3>2. QED
      BY <3>1
  <2> HIDE DEF key, value
  <2>4. /\ Len(c) \in Nat /\ \A i \in 1..Len(c) : c[i] \in Positions
        /\ key[1] \in 1..Len(c) /\ key[2] \in 1..Len(c)
        /\ value[1] \in 1..Len(c) /\ value[2] \in 1..Len(c)
    BY <2>1, <2>3, RunBounds, LenProperties, ElementOfSeq
  <2>5. Digits(c, value) \in Int /\ last <= value[2]
    BY <2>3, <2>4, DigitsInRun
  <2>6. last \in Int
    BY <2>4, <2>5
  <2> HIDE DEF last
  <2>7. SubSeq(c, key[1], key[2]) \in Seq(Positions)
    <3>1. /\ key[1] \in Int /\ key[2] \in Int
          /\ \A i \in key[1]..key[2] : c[i] \in Positions
      BY <2>4
    <3>2. QED
      BY <3>1, SubSeqProperties
  <2>8. SubSeq(c, value[1], last) \in Seq(Positions)
    <3>1. /\ value[1] \in Int
          /\ \A i \in value[1]..last : c[i] \in Positions
      BY <2>4, <2>5, <2>6
    <3>2. QED
      BY <2>6, <3>1, SubSeqProperties
  <2>9. parse_data_to_json(c) = <<SubSeq(c, key[1], key[2]), SubSeq(c, value[1], last)>>
    BY <1>1 DEF parse_data_to_json, key, value, last
  <2>10. QED
    BY <2>7, <2>8, <2>9
<1>2. CASE ~\E r, q \in Runs(c) : r # q
  BY <1>2 DEF parse_data_to_json, Unparsed
<1>3. QED
  BY <1>1, <1>2

(* Of the three bytes of a frame, key, colon and value, the first and the  *)
(* last make the payload.                                                  *)
FramePayload(n) == <<<<3 * n - 2>>, <<3 * n>>>>

LEMMA ParsedFrame ==
  ASSUME NEW c \in Seq(Positions), NEW n \in Nat, Len(c) = 3,
         \A k \in 1..3 : c[k] = 3 * n + k
  PROVE  parse_data_to_json(c) = FramePayload(n + 1)
<1>1. c[1] = 3 * n + 1 /\ c[2] = 3 * n + 2 /\ c[3] = 3 * n + 3
  OBVIOUS
<1>2. (3 * n + 1) % 3 = 1 /\ (3 * n + 2) % 3 = 2 /\ (3 * n + 3) % 3 = 0
  OBVIOUS
<1>3. /\ ~IsColon(c[1]) /\ IsColon(c[2]) /\ ~IsColon(c[3]) /\ IsDigit(c[3])
  BY <1>1, <1>2 DEF IsColon, IsDigit
<1>4. Runs(c) = {<<1, 1>>, <<3, 3>>}
  <2>1. <<1, 1>> \in Runs(c) /\ <<3, 3>> \in Runs(c)
    BY <1>3 DEF Runs
  <2>2. ASSUME NEW r \in Runs(c) PROVE r = <<1, 1>> \/ r = <<3, 3>>
    <3>1. /\ r[1] \in 1..3 /\ r[2] \in 1..3 /\ r[1] <= r[2] /\ r = <<r[1], r[2]>>
          /\ \A k \in r[1]..r[2] : ~IsColon(c[k])
          /\ r[2] = 3 \/ IsColon(c[r[2] + 1])
          /\ r[1] = 1 \/ IsColon(c[r[1] - 1])
      BY RunBounds DEF Runs
    <3>2. ~(r[1] <= 2 /\ 2 <= r[2])
      BY <1>3, <3>1
    <3>3. (r[1] = 1 /\ r[2] = 1) \/ (r[1] = 3 /\ r[2] = 3)
      BY <3>1, <3>2
    <3>4. QED
      BY <3>1, <3>3
  <2>3. QED
    BY <2>1, <2>2
<1>5. <<1, 1>> # <<3, 3>>
  OBVIOUS
<1>6. FirstRun(Runs(c)) = <<1, 1>>
  <2>1. FirstRun(Runs(c)) \in Runs(c) /\ FirstRun(Runs(c))[1] <= <<1, 1>>[1]
    BY <1>4, FirstRunIn
  <2>2. FirstRun(Runs(c)) # <<3, 3>>
    BY <2>1
  <2>3. QED
    BY <1>4, <2>1, <2>2
<1>7. FirstRun(Runs(c) \ {<<1, 1>>}) = <<3, 3>>
  <2>1. Runs(c) \ {<<1, 1>>} = {<<3, 3>>}
    BY <1>4, <1>5
  <2>2. FirstRun({<<3, 3>>}) \in {<<3, 3>>}
    BY <1>4, FirstRunIn
  <2>3. QED
    BY <2>1, <2>2
<1>8. Digits(c, <<3, 3>>) = 1
  <2> DEFINE S == {k \in 3..4 : k = 4 \/ ~IsDigit(c[k])}
  <2>1. S = {4}
    BY <1>3
  <2>2. Least({4}) = 4
    <3>1. {4} \in SUBSET Nat /\ {4} # {}
      OBVIOUS
    <3>2. Least({4}) \in {4}
      BY <3>1, LeastOfNats
    <3>3. QED
      BY <3>2
  <2>3. Digits(c, <<3, 3>>) = Least(S) - 3
    BY DEF Digits
  <2> HIDE DEF S
  <2>4. QED
    BY <2>1, <2>2, <2>3
<1>9. parse_data_to_json(c) = <<SubSeq(c, 1, 1), SubSeq(c, 3, 3)>>
  <2>1. \E r, q \in Runs(c) : r # q
    BY <1>4, <1>5
  <2> DEFINE key == FirstRun(Runs(c))
             value == FirstRun(Runs(c) \ {key})
  <2>2. parse_data_to_json(c) =
          <<SubSeq(c, key[1], key[2]),
            SubSeq(c, value[1], value[1] + Digits(c, value) - 1)>>
    BY <2>1 DEF parse_data_to_json
  <2>3. key = <<1, 1>> /\ value = <<3, 3>>
    BY <1>6, <1>7
  <2> HIDE DEF key, value
  <2>4. /\ key[1] = 1 /\ key[2] = 1 /\ value[1] = 3
        /\ value[1] + Digits(c, value) - 1 = 3
    BY <1>8, <2>3
  <2>5. QED
    BY <2>2, <2>4
<1>10. SubSeq(c, 1, 1) = <<3 * n + 1>> /\ SubSeq(c, 3, 3) = <<3 * n + 3>>
  <2>1. ASSUME NEW k \in {1, 3} PROVE SubSeq(c, k, k) = <<c[k]>>
    <3>1. c[k] \in Nat /\ k \in Int /\ k - k + 1 = 1 /\ k + 1 - 1 = k
      BY <1>1, <2>1
    <3>2. /\ SubSeq(c, k, k) \in Seq(Nat) /\ Len(SubSeq(c, k, k)) = 1
          /\ \A i \in 1..1 : SubSeq(c, k, k)[i] = c[k + i - 1]
      BY <3>1, SubSeqProperties
    <3>3. /\ <<c[k]>> \in Seq(Nat) /\ Len(<<c[k]>>) = 1
          /\ \A i \in 1..1 : <<c[k]>>[i] = c[k]
      BY <3>1
    <3>4. \A i \in 1..1 : SubSeq(c, k, k)[i] = c[k]
      BY <3>1, <3>2
    <3>5. \A i \in 1..1 : SubSeq(c, k, k)[i] = <<c[k]>>[i]
      BY <3>3, <3>4
    <3>6. QED
      BY <3>2, <3>3, <3>5, SeqEqual
  <2>2. QED
    BY <1>1, <2>1
<1>11. 3 * (n + 1) - 2 = 3 * n + 1 /\ 3 * (n + 1) = 3 * n + 3
  OBVIOUS
<1>12. QED
  BY <1>9, <1>10, <1>11 DEF FramePayload

-----------------------------------------------------------------------------
(* Type correctness.                                                       *)

LEMMA IntervalType ==
  ASSUME NEW a \in Nat, NEW n \in Nat, a + n <= 3 * Frames
  PROVE  /\ Interval(a, a + n) \in Seq(Positions) /\ Len(Interval(a, a + n)) = n
         /\ \A k \in 1..n : Interval(a, a + n)[k] = a + k
<1>1. Interval(a, a + n) = [k \in 1..n |-> a + k]
  BY DEF Interval
<1>2. \A k \in 1..n : a + k \in Positions
  BY SizesAssumption DEF Positions
<1>3. [k \in 1..n |-> a + k] \in Seq(Positions)
  BY <1>2
<1>4. Len([k \in 1..n |-> a + k]) = n
  BY <1>3, LenProperties
<1>5. QED
  BY <1>1, <1>3, <1>4

LEMMA PostType ==
  ASSUME TypeOK, NEW type \in EventTypes, NEW n \in 0..MaxChunk, NEW u \in Nat,
         Post(type, n, u)
  PROVE  queue' \in Seq(Event) /\ Len(queue') <= QUEUE_SIZE
<1> DEFINE e == [type |-> type, size |-> n, upto |-> u]
<1>1. e \in Event
  BY DEF Event
<1>2. queue \in Seq(Event) /\ Len(queue) <= QUEUE_SIZE /\ Len(queue) \in Nat
  BY LenProperties DEF TypeOK
<1>3. CASE HasSpace
  <2>1. queue' = Append(queue, e) /\ Len(queue) < QUEUE_SIZE
    BY <1>3 DEF Post, HasSpace
  <2>2. Append(queue, e) \in Seq(Event) /\ Len(Append(queue, e)) = Len(queue) + 1
    BY <1>1, <1>2, AppendProperties
  <2> HIDE DEF e
  <2>3. QED
    BY <1>2, <2>1, <2>2, SizesAssumption
<1>4. CASE ~HasSpace
  BY <1>2, <1>4 DEF Post
<1>5. QED
  BY <1>3, <1>4

LEMMA InterruptType ==
  ASSUME TypeOK, Interrupt
  PROVE  TypeOK'
<1>1. PICK n \in Chunks : Store(n) \/ Stash(n) \/ Overflow(n)
  BY DEF Interrupt
<1>2. /\ n \in 1..MaxChunk /\ n \in 0..MaxChunk /\ n \in Nat /\ 0 \in 0..MaxChunk
      /\ sent \in Nat /\ sent + n <= 3 * Frames /\ sent + n \in 0..(3 * Frames)
      /\ stored \in Nat /\ stored + n \in Nat
  BY SizesAssumption DEF Chunks, TypeOK
<1>3. /\ Interval(sent, sent + n) \in Seq(Positions)
      /\ Len(Interval(sent, sent + n)) = n
  BY <1>2, IntervalType
<1>4. sent' = sent + n /\ UNCHANGED taskVars
  BY <1>1 DEF Store, Stash, Overflow
<1>5. queue' \in Seq(Event) /\ Len(queue') <= QUEUE_SIZE
  <2>1. CASE Store(n)
    BY <1>2, <2>1, PostType DEF Store, EventTypes
  <2>2. CASE Stash(n)
    BY <1>2, <2>2, PostType DEF Stash, EventTypes
  <2>3. CASE Overflow(n)
    BY <1>2, <2>3, PostType DEF Overflow, EventTypes
  <2>4. QED
    BY <1>1, <2>1, <2>2, <2>3
<1>6. /\ ring' \in Seq(Positions) /\ Len(ring') <= RING_SIZE
      /\ stash' \in Seq(Positions) /\ Len(stash') <= MaxChunk
  <2>1. /\ ring \in Seq(Positions) /\ Len(ring) <= RING_SIZE
        /\ stash \in Seq(Positions) /\ Len(stash) <= MaxChunk
    BY DEF TypeOK
  <2>2. CASE Store(n)
    <3>1. /\ ring \o Interval(sent, sent + n) \in Seq(Positions)
          /\ Len(ring \o Interval(sent, sent + n)) = Len(ring) + n
      BY <1>3, <2>1, ConcatProperties
    <3>2. QED
      BY <2>1, <2>2, <3>1 DEF Store
  <2>3. CASE Stash(n)
    BY <1>2, <1>3, <2>1, <2>3 DEF Stash
  <2>4. CASE Overflow(n)
    BY <2>1, <2>4 DEF Overflow
  <2>5. QED
    BY <1>1, <2>2, <2>3, <2>4
<1>7. stored' \in Nat /\ leaked' \in BOOLEAN /\ intact' \in BOOLEAN
  <2>1. CASE Store(n)
    BY <1>2, <2>1 DEF Store, TypeOK
  <2>2. CASE Stash(n) \/ Overflow(n)
    BY <2>2 DEF Stash, Overflow, TypeOK
  <2>3. QED
    BY <1>1, <2>1, <2>2
<1>8. QED
  BY <1>2, <1>4, <1>5, <1>6, <1>7 DEF TypeOK, taskVars

LEMMA TakeEventType ==
  ASSUME TypeOK, IInv, TakeEvent
  PROVE  TypeOK'
<1>1. queue \in Seq(Event) /\ queue # <<>> /\ Len(queue) <= QUEUE_SIZE
  BY DEF TakeEvent, TypeOK
<1>2. /\ Head(queue) \in Event /\ Tail(queue) \in Seq(Event)
      /\ Len(Tail(queue)) = Len(queue) - 1 /\ Len(queue) \in Nat
  BY <1>1, HeadTailProperties, LenProperties
<1>3. Head(queue).size \in 0..MaxChunk /\ Head(queue).upto \in Nat
  BY <1>2 DEF Event
<1>4. queue' \in Seq(Event) /\ Len(queue') <= QUEUE_SIZE /\ base' \in Nat
  BY <1>1, <1>2, <1>3, SizesAssumption DEF TakeEvent
<1>5. need' \in 0..MaxChunk /\ task' \in {"receive", "read", "flush"}
  BY <1>3 DEF TakeEvent, Wanted, TypeOK
<1>6. /\ dtmp' \in Seq(Positions) /\ Len(dtmp') = 0
      /\ UNCHANGED <<sent, ring, stash, stored, published, leaked, intact>>
  BY DEF TakeEvent
<1>7. Len(dtmp') + need' <= MaxChunk
  <2>1. Len(dtmp') \in Nat /\ Len(dtmp') <= 0
    BY <1>6
  <2>2. need' \in Nat /\ need' <= MaxChunk /\ MaxChunk \in Nat
    BY <1>5, SizesAssumption
  <2>3. QED
    BY <2>1, <2>2
<1>8. /\ sent' \in 0..(3 * Frames) /\ ring' \in Seq(Positions) /\ Len(ring') <= RING_SIZE
      /\ stash' \in Seq(Positions) /\ Len(stash') <= MaxChunk
      /\ published' \in Seq(Seq(Seq(Positions))) /\ stored' \in Nat
      /\ leaked' \in BOOLEAN /\ intact' \in BOOLEAN
  BY <1>6 DEF TypeOK
<1>9. QED
  BY <1>4, <1>5, <1>6, <1>7, <1>8 DEF TypeOK

(* What is read is what the event counted, see ReadNeverBlocks.            *)
LEMMA ReadTakesAll ==
  ASSUME TypeOK, IInv, Read
  PROVE  /\ Fetch = need /\ need \in 1..Len(ring) /\ Len(ring) \in Nat
         /\ need' = 0 /\ task' = "parse"
         /\ dtmp' = dtmp \o SubSeq(ring, 1, need)
         /\ SubSeq(ring, 1, need) \in Seq(Positions)
         /\ Len(SubSeq(ring, 1, need)) = need
         /\ \A k \in 1..need : SubSeq(ring, 1, need)[k] = ring[k]
         /\ SubSeq(ring, need + 1, Len(ring)) \in Seq(Positions)
         /\ Len(SubSeq(ring, need + 1, Len(ring))) = Len(ring) - need
         /\ \A k \in 1..(Len(ring) - need) :
              SubSeq(ring, need + 1, Len(ring))[k] = ring[need + k]
<1>1. /\ ring \in Seq(Positions) /\ Len(ring) \in Nat
      /\ \A k \in 1..Len(ring) : ring[k] \in Positions
  BY LenProperties, ElementOfSeq DEF TypeOK
<1>2. need \in 1..Len(ring)
  <2>1. /\ task = "read" /\ need \in Nat /\ need > 0
        /\ stored \in Nat /\ base \in Nat /\ base <= stored
        /\ stored - Len(ring) + need <= base
    BY DEF Read, IInv, Typing, Accounted, Gone, Chained
  <2>2. QED
    BY <1>1, <2>1
<1>3. Fetch = need
  BY <1>1, <1>2 DEF Fetch, Lower
<1>4. need' = 0 /\ task' = "parse" /\ dtmp' = dtmp \o SubSeq(ring, 1, need)
  BY <1>2, <1>3 DEF Read
<1>5. /\ 1 \in Int /\ need \in Int /\ need + 1 \in Int /\ Len(ring) \in Int
      /\ \A k \in 1..need : ring[k] \in Positions
      /\ \A k \in (need + 1)..Len(ring) : ring[k] \in Positions
  BY <1>1, <1>2
<1>6. /\ SubSeq(ring, 1, need) \in Seq(Positions)
      /\ Len(SubSeq(ring, 1, need)) = IF 1 <= need THEN need - 1 + 1 ELSE 0
      /\ \A k \in 1..(need - 1 + 1) : SubSeq(ring, 1, need)[k] = ring[1 + k - 1]
  BY <1>5, SubSeqProperties
<1>7. /\ SubSeq(ring, need + 1, Len(ring)) \in Seq(Positions)
      /\ Len(SubSeq(ring, need + 1, Len(ring))) =
           IF need + 1 <= Len(ring) THEN Len(ring) - (need + 1) + 1 ELSE 0
      /\ \A k \in 1..(Len(ring) - (need + 1) + 1) :
           SubSeq(ring, need + 1, Len(ring))[k] = ring[need + 1 + k - 1]
  BY <1>5, SubSeqProperties
<1>8. /\ Len(SubSeq(ring, 1, need)) = need
      /\ \A k \in 1..need : SubSeq(ring, 1, need)[k] = ring[k]
  BY <1>2, <1>6
<1>9. /\ Len(SubSeq(ring, need + 1, Len(ring))) = Len(ring) - need
      /\ \A k \in 1..(Len(ring) - need) :
           SubSeq(ring, need + 1, Len(ring))[k] = ring[need + k]
  BY <1>1, <1>2, <1>7
<1>10. QED
  BY <1>1, <1>2, <1>3, <1>4, <1>6, <1>7, <1>8, <1>9

LEMMA ReadType ==
  ASSUME TypeOK, IInv, Read
  PROVE  TypeOK'
<1> DEFINE rest == SubSeq(ring, need + 1, Len(ring))
           fits == stash # <<>> /\ Len(rest) + Len(stash) <= RING_SIZE
<1>1. /\ Fetch = need /\ need \in 1..Len(ring) /\ Len(ring) \in Nat
      /\ need' = 0 /\ task' = "parse"
      /\ rest \in Seq(Positions) /\ Len(rest) = Len(ring) - need
  BY ReadTakesAll
<1>2. /\ stash \in Seq(Positions) /\ Len(stash) \in Nat /\ Len(stash) <= MaxChunk
      /\ stored \in Nat /\ Len(ring) <= RING_SIZE
  BY LenProperties DEF TypeOK
<1>3. dtmp' \in Seq(Positions) /\ Len(dtmp') + need' <= MaxChunk
  <2>1. /\ dtmp' = dtmp \o SubSeq(ring, 1, need)
        /\ SubSeq(ring, 1, need) \in Seq(Positions)
        /\ Len(SubSeq(ring, 1, need)) = need
    BY ReadTakesAll
  <2>2. dtmp \in Seq(Positions) /\ Len(dtmp) + need <= MaxChunk /\ Len(dtmp) \in Nat
    BY LenProperties DEF TypeOK
  <2>3. dtmp' \in Seq(Positions) /\ Len(dtmp') = Len(dtmp) + need
    BY <2>1, <2>2, ConcatProperties
  <2>4. QED
    BY <1>1, <2>2, <2>3
<1>4. /\ ring' \in Seq(Positions) /\ Len(ring') <= RING_SIZE
      /\ stash' \in Seq(Positions) /\ Len(stash') <= MaxChunk
      /\ stored' \in Nat /\ leaked' \in BOOLEAN
  <2>1. CASE fits
    <3>1. ring' = rest \o stash /\ stash' = <<>> /\ leaked' = TRUE
          /\ stored' = stored + Len(stash)
      BY <1>1, <2>1 DEF Read
    <3>2. rest \o stash \in Seq(Positions) /\ Len(rest \o stash) = Len(rest) + Len(stash)
      BY <1>1, <1>2, ConcatProperties
    <3>3. <<>> \in Seq(Positions) /\ Len(<<>>) = 0
      OBVIOUS
    <3>4. QED
      BY <1>2, <2>1, <3>1, <3>2, <3>3, SizesAssumption
  <2>2. CASE ~fits
    <3>1. ring' = rest /\ UNCHANGED <<stash, stored, leaked>>
      BY <1>1, <2>2 DEF Read
    <3> HIDE DEF rest
    <3>2. QED
      BY <1>1, <1>2, <3>1, SizesAssumption DEF TypeOK
  <2>3. QED
    BY <2>1, <2>2
<1>5. UNCHANGED <<sent, queue, published, base, intact>>
  BY DEF Read
<1>6. need' \in 0..MaxChunk
  BY <1>1, SizesAssumption
<1>7. QED
  BY <1>1, <1>3, <1>4, <1>5, <1>6 DEF TypeOK

LEMMA ParseType ==
  ASSUME TypeOK, Publish \/ NothingToPublish \/ OutOfMemory
  PROVE  TypeOK'
<1>1. /\ task' = "receive" /\ dtmp' = <<>>
      /\ UNCHANGED <<sent, ring, stash, queue, stored, need, base, leaked>>
  BY DEF Publish, NothingToPublish, OutOfMemory, EndParse, lineVars
<1>2. published' \in Seq(Seq(Seq(Positions)))
  <2>1. CASE Publish
    <3>1. parse_data_to_json(dtmp) \in Seq(Seq(Positions))
      BY ParsedType DEF TypeOK
    <3>2. QED
      BY <2>1, <3>1, AppendProperties DEF Publish, TypeOK
  <2>2. CASE NothingToPublish \/ OutOfMemory
    BY <2>2 DEF NothingToPublish, OutOfMemory, TypeOK
  <2>3. QED
    BY <2>1, <2>2
<1>3. intact' \in BOOLEAN
  BY DEF Publish, NothingToPublish, OutOfMemory, TypeOK
<1>4. dtmp' \in Seq(Positions) /\ Len(dtmp') = 0
  BY <1>1
<1>5. need \in 0..MaxChunk /\ Len(dtmp') + need' <= MaxChunk
  BY <1>1, <1>4, SizesAssumption DEF TypeOK
<1>6. QED
  BY <1>1, <1>2, <1>3, <1>4, <1>5 DEF TypeOK

LEMMA DiscardType ==
  ASSUME TypeOK, Discard
  PROVE  TypeOK'
<1>1. <<>> \in Seq(Positions) /\ <<>> \in Seq(Event) /\ Len(<<>>) = 0
  OBVIOUS
<1>2. /\ RING_SIZE \in Nat /\ QUEUE_SIZE \in Nat /\ MaxChunk \in Nat
  BY SizesAssumption
<1>3. CASE task = "flush" /\ FlushInput /\ task' = "reset"
  <2>1. /\ task' = "reset" /\ ring' = <<>> /\ stash' = <<>> /\ leaked' = FALSE
        /\ UNCHANGED <<queue, base, sent, stored, need, dtmp, published, intact>>
    BY <1>3 DEF Discard, FlushInput
  <2>2. /\ ring' \in Seq(Positions) /\ Len(ring') <= RING_SIZE
        /\ stash' \in Seq(Positions) /\ Len(stash') <= MaxChunk
    BY <1>1, <1>2, <2>1
  <2>3. QED
    BY <2>1, <2>2 DEF TypeOK
<1>4. CASE task = "reset" /\ QueueReset /\ task' = "receive"
  <2>1. /\ task' = "receive" /\ queue' = <<>> /\ base' = stored
        /\ UNCHANGED <<ring, stash, leaked, sent, stored, need, dtmp, published, intact>>
    BY <1>4 DEF Discard, QueueReset
  <2>2. queue' \in Seq(Event) /\ Len(queue') <= QUEUE_SIZE
    BY <1>1, <1>2, <2>1
  <2>3. QED
    BY <2>1, <2>2 DEF TypeOK
<1>5. QED
  BY <1>3, <1>4 DEF Discard

(* Every variable stays in its range: the ring, the queue and the bytes    *)
(* put aside within their sizes, the payloads made of bytes of the line.   *)
THEOREM TypeCorrect == Spec => []TypeOK
<1>1. Init => TypeOK
  <2> SUFFICES ASSUME Init PROVE TypeOK
    OBVIOUS
  <2>1. /\ ring \in Seq(Positions) /\ stash \in Seq(Positions) /\ queue \in Seq(Event)
        /\ dtmp \in Seq(Positions) /\ published \in Seq(Seq(Seq(Positions)))
        /\ Len(ring) = 0 /\ Len(stash) = 0 /\ Len(queue) = 0 /\ Len(dtmp) = 0
    BY DEF Init
  <2>2. /\ 0 \in 0..(3 * Frames) /\ 0 <= RING_SIZE /\ 0 <= QUEUE_SIZE
        /\ need \in 0..MaxChunk /\ Len(dtmp) + need <= MaxChunk /\ 0 <= MaxChunk
    BY <2>1, SizesAssumption DEF Init
  <2>3. QED
    BY <2>1, <2>2 DEF Init, TypeOK
<1>2. TypeOK /\ IInv /\ [Next]_vars => TypeOK'
  <2>1. SUFFICES ASSUME TypeOK, IInv, [Next]_vars PROVE TypeOK'
    OBVIOUS
  <2>2. CASE Interrupt
    BY <2>1, <2>2, InterruptType
  <2>3. CASE TakeEvent
    BY <2>1, <2>3, TakeEventType
  <2>4. CASE Read
    BY <2>1, <2>4, ReadType
  <2>5. CASE Publish \/ NothingToPublish \/ OutOfMemory
    BY <2>1, <2>5, ParseType
  <2>6. CASE Discard
    BY <2>1, <2>6, DiscardType
  <2>7. CASE UNCHANGED vars
    BY <2>1, <2>7 DEF vars, lineVars, taskVars, TypeOK
  <2>8. QED
    BY <2>1, <2>2, <2>3, <2>4, <2>5, <2>6, <2>7 DEF Next, EventTask
<1>3. QED
  BY <1>1, <1>2, Accounts, PTL DEF Spec

-----------------------------------------------------------------------------
(* Frames in order.  As long as every frame came as one chunk and none was *)
(* lost, each event counts one frame, the ring holds the bytes of the line *)
(* from the first not yet read, and what the task has in hand is what      *)
(* follows the frames published.                                           *)

Unhurt == stash = <<>> /\ ~leaked /\ task \in {"receive", "read", "parse"} /\ stored = sent
WholeFrames == \A k \in 1..Len(queue) : queue[k].type = "UART_DATA" /\ queue[k].size = 3
RingFollows == \A k \in 1..Len(ring) : ring[k] = Gone + k
InHand == /\ Gone = 3 * Len(published) + Len(dtmp)
          /\ \A k \in 1..Len(dtmp) : dtmp[k] = 3 * Len(published) + k
          /\ task = "receive" => Len(dtmp) = 0
          /\ task = "read" => Len(dtmp) = 0 /\ need = 3
          /\ task = "parse" => Len(dtmp) = 3
InOrder == \A n \in 1..Len(published) : published[n] = FramePayload(n)

Aligned == intact => Unhurt /\ WholeFrames /\ RingFollows /\ InHand /\ InOrder

LEMMA StoreAligned ==
  ASSUME TypeOK, IInv, Aligned, NEW n \in Chunks, Store(n), intact'
  PROVE  Aligned'
<1>1. /\ intact /\ n = 3 /\ HasSpace /\ task # "reset"
      /\ sent' = sent + n /\ stored' = stored + n
      /\ ring' = ring \o Interval(sent, sent + n)
      /\ leaked' = (leaked \/ ~HasSpace \/ task = "reset")
      /\ UNCHANGED <<stash, task, need, dtmp, published>>
  BY DEF Store, OneFrame, taskVars
<1>2. Unhurt /\ WholeFrames /\ RingFollows /\ InHand /\ InOrder
  BY <1>1 DEF Aligned
<1>3. /\ sent \in Nat /\ sent + 3 <= 3 * Frames /\ stored \in Nat /\ stored = sent
      /\ ring \in Seq(Positions) /\ Len(ring) \in Nat
  BY <1>1, <1>2, LenProperties, SizesAssumption DEF Chunks, TypeOK, Unhurt
<1>4. Unhurt'
  BY <1>1, <1>2 DEF Unhurt
<1>5. WholeFrames'
  <2> DEFINE e == [type |-> "UART_DATA", size |-> 3, upto |-> stored + n]
  <2>1. queue' = Append(queue, e)
    BY <1>1 DEF Store, Post
  <2>2. /\ queue \in Seq(Event) /\ e \in Event
    BY <1>1, <1>3, SizesAssumption DEF TypeOK, Event, EventTypes, Chunks
  <2>3. e.type = "UART_DATA" /\ e.size = 3
    OBVIOUS
  <2> HIDE DEF e
  <2>4. /\ Len(queue) \in Nat /\ Len(queue') = Len(queue) + 1
        /\ \A k \in 1..Len(queue) : queue'[k] = queue[k]
        /\ queue'[Len(queue) + 1] = e
    BY <2>1, <2>2, AppendProperties, LenProperties
  <2>5. \A k \in 1..Len(queue') : k \in 1..Len(queue) \/ k = Len(queue) + 1
    BY <2>4
  <2>6. QED
    BY <1>2, <2>3, <2>4, <2>5 DEF WholeFrames
<1>6. /\ Len(ring') = Len(ring) + 3
      /\ \A k \in 1..(Len(ring) + 3) :
           ring'[k] = IF k <= Len(ring) THEN ring[k] ELSE sent + (k - Len(ring))
  <2> DEFINE chunk == Interval(sent, sent + 3)
  <2>1. /\ chunk \in Seq(Positions) /\ Len(chunk) = 3
        /\ \A k \in 1..3 : chunk[k] = sent + k
    BY <1>3, IntervalType
  <2>2. ring' = ring \o chunk
    BY <1>1
  <2> HIDE DEF chunk
  <2>3. /\ Len(ring') = Len(ring) + 3
        /\ \A k \in 1..(Len(ring) + 3) :
             ring'[k] = IF k <= Len(ring) THEN ring[k] ELSE chunk[k - Len(ring)]
    <3>1. /\ Len(ring \o chunk) = Len(ring) + Len(chunk)
          /\ \A k \in 1..(Len(ring) + Len(chunk)) :
               (ring \o chunk)[k] = IF k <= Len(ring) THEN ring[k]
                                    ELSE chunk[k - Len(ring)]
      BY <1>3, <2>1, ConcatProperties
    <3>2. QED
      BY <2>1, <2>2, <3>1
  <2>4. ASSUME NEW k \in 1..(Len(ring) + 3), ~(k <= Len(ring))
        PROVE  chunk[k - Len(ring)] = sent + (k - Len(ring))
    <3>1. k - Len(ring) \in 1..3
      BY <1>3, <2>4
    <3>2. QED
      BY <2>1, <3>1
  <2>5. QED
    BY <2>3, <2>4
<1>7. Gone' = Gone /\ Gone \in Int /\ sent = Gone + Len(ring)
  <2>1. Gone = stored - Len(ring) /\ Gone' = stored' - Len(ring')
    BY DEF Gone
  <2>2. stored' = stored + 3 /\ Len(ring') = Len(ring) + 3
    BY <1>1, <1>6
  <2>3. QED
    BY <1>3, <2>1, <2>2
<1>8. RingFollows'
  <2>1. ASSUME NEW k \in 1..(Len(ring) + 3) PROVE ring'[k] = Gone + k
    <3>1. CASE k <= Len(ring)
      BY <1>2, <1>3, <1>6, <3>1 DEF RingFollows
    <3>2. CASE ~(k <= Len(ring))
      <4>1. ring'[k] = sent + (k - Len(ring))
        BY <1>6, <3>2
      <4>2. QED
        BY <1>3, <1>7, <4>1
    <3>3. QED
      BY <3>1, <3>2
  <2>2. QED
    BY <1>6, <1>7, <2>1 DEF RingFollows
<1>9. InHand' /\ InOrder'
  BY <1>1, <1>2, <1>7 DEF InHand, InOrder
<1>10. QED
  BY <1>4, <1>5, <1>8, <1>9 DEF Aligned

LEMMA TakeEventAligned ==
  ASSUME TypeOK, IInv, Aligned, TakeEvent, intact'
  PROVE  Aligned'
<1>1. /\ intact /\ task = "receive" /\ queue # <<>> /\ queue' = Tail(queue)
      /\ dtmp' = <<>>
      /\ UNCHANGED <<sent, ring, stash, stored, published, leaked>>
  BY DEF TakeEvent
<1>2. Unhurt /\ WholeFrames /\ RingFollows /\ InHand /\ InOrder
  BY <1>1 DEF Aligned
<1>3. /\ queue \in Seq(Event) /\ Len(queue) \in Nat /\ Len(queue) >= 1
      /\ Len(queue') = Len(queue) - 1 /\ Head(queue) = queue[1]
      /\ \A k \in 1..Len(queue') : queue'[k] = queue[k + 1]
  BY <1>1, HeadTailProperties, LenProperties, EmptySeq DEF TypeOK
<1>4. WholeFrames'
  BY <1>2, <1>3 DEF WholeFrames
<1>5. task' = "read" /\ need' = 3
  BY <1>2, <1>3 DEF WholeFrames, TakeEvent, Wanted
<1>6. Unhurt'
  BY <1>1, <1>2, <1>5 DEF Unhurt
<1>7. Gone' = Gone /\ RingFollows' /\ InOrder'
  BY <1>1, <1>2 DEF Gone, RingFollows, InOrder
<1>8. InHand'
  <2>1. Len(dtmp) = 0 /\ Len(dtmp') = 0
    BY <1>1, <1>2 DEF InHand
  <2>2. Gone' = 3 * Len(published') + Len(dtmp')
    BY <1>1, <1>2, <1>7, <2>1 DEF InHand
  <2>3. QED
    BY <1>5, <2>1, <2>2 DEF InHand
<1>9. QED
  BY <1>4, <1>6, <1>7, <1>8 DEF Aligned

LEMMA ReadAligned ==
  ASSUME TypeOK, IInv, Aligned, Read, intact'
  PROVE  Aligned'
<1>1. intact /\ task = "read" /\ UNCHANGED <<sent, queue, published>>
  BY DEF Read
<1>2. Unhurt /\ WholeFrames /\ RingFollows /\ InHand /\ InOrder
  BY <1>1 DEF Aligned
<1>3. need = 3 /\ Len(dtmp) = 0 /\ stash = <<>>
  BY <1>1, <1>2 DEF InHand, Unhurt
<1>4. /\ Fetch = 3 /\ Len(ring) \in Nat /\ 3 <= Len(ring) /\ task' = "parse"
      /\ dtmp' = dtmp \o SubSeq(ring, 1, 3)
      /\ SubSeq(ring, 1, 3) \in Seq(Positions)
      /\ Len(SubSeq(ring, 1, 3)) = 3
      /\ \A k \in 1..3 : SubSeq(ring, 1, 3)[k] = ring[k]
      /\ Len(SubSeq(ring, 4, Len(ring))) = Len(ring) - 3
      /\ \A k \in 1..(Len(ring) - 3) : SubSeq(ring, 4, Len(ring))[k] = ring[3 + k]
  <2>1. 3 + 1 = 4
    OBVIOUS
  <2>2. QED
    BY <1>3, <2>1, ReadTakesAll
<1>5. ring' = SubSeq(ring, 4, Len(ring)) /\ UNCHANGED <<stash, stored, leaked>>
  BY <1>3, <1>4 DEF Read
<1>6. Unhurt' /\ WholeFrames' /\ InOrder'
  BY <1>1, <1>2, <1>4, <1>5 DEF Unhurt, WholeFrames, InOrder
<1>7. stored \in Nat /\ Gone \in Int /\ Gone' = Gone + 3
  <2>1. stored \in Nat /\ Len(ring') = Len(ring) - 3 /\ stored' = stored
    BY <1>4, <1>5 DEF TypeOK
  <2>2. QED
    BY <1>4, <2>1 DEF Gone
<1>8. RingFollows'
  <2>1. ASSUME NEW k \in 1..Len(ring') PROVE ring'[k] = Gone' + k
    <3>1. k \in 1..(Len(ring) - 3) /\ 3 + k \in 1..Len(ring)
      BY <1>4, <1>5
    <3>2. ring'[k] = ring[3 + k] /\ ring[3 + k] = Gone + (3 + k)
      BY <1>2, <1>4, <1>5, <3>1 DEF RingFollows
    <3>3. QED
      BY <1>7, <3>1, <3>2
  <2>2. QED
    BY <2>1 DEF RingFollows
<1>9. /\ Len(dtmp') = 3 /\ \A k \in 1..3 : dtmp'[k] = ring[k]
  <2>1. /\ dtmp \in Seq(Positions)
    BY DEF TypeOK
  <2>2. dtmp = <<>>
    BY <1>3, <2>1, EmptySeq
  <2>3. dtmp' = SubSeq(ring, 1, 3)
    BY <1>4, <2>2, ConcatEmptySeq
  <2>4. QED
    BY <1>4, <2>3
<1>10. InHand'
  <2>1. Gone = 3 * Len(published) /\ Len(published) \in Nat
    <3>1. Len(published) \in Nat
      BY LenProperties DEF TypeOK
    <3>2. QED
      BY <1>2, <1>3, <3>1 DEF InHand
  <2>2. ASSUME NEW k \in 1..3 PROVE dtmp'[k] = 3 * Len(published') + k
    <3>1. k \in 1..Len(ring)
      BY <1>4
    <3>2. ring[k] = Gone + k
      BY <1>2, <3>1 DEF RingFollows
    <3>3. QED
      BY <1>1, <1>9, <2>1, <3>2
  <2>3. Gone' = 3 * Len(published') + Len(dtmp')
    BY <1>1, <1>7, <1>9, <2>1
  <2>4. QED
    BY <1>4, <1>9, <2>2, <2>3 DEF InHand
<1>11. QED
  BY <1>6, <1>8, <1>10 DEF Aligned

LEMMA ParseAligned ==
  ASSUME TypeOK, IInv, Aligned, Publish \/ NothingToPublish, intact'
  PROVE  Aligned'
<1>1. /\ intact /\ task = "parse" /\ task' = "receive" /\ dtmp' = <<>>
      /\ UNCHANGED <<sent, ring, stash, queue, stored, need, leaked>>
  BY DEF Publish, NothingToPublish, EndParse, lineVars
<1>2. Unhurt /\ WholeFrames /\ RingFollows /\ InHand /\ InOrder
  BY <1>1 DEF Aligned
<1>3. /\ Len(dtmp) = 3 /\ dtmp \in Seq(Positions)
      /\ Len(published) \in Nat /\ published \in Seq(Seq(Seq(Positions)))
      /\ \A k \in 1..3 : dtmp[k] = 3 * Len(published) + k
      /\ Gone = 3 * Len(published) + 3
  BY <1>1, <1>2, LenProperties DEF InHand, TypeOK
<1>4. parse_data_to_json(dtmp) = FramePayload(Len(published) + 1)
  BY <1>3, ParsedFrame
<1>5. parse_data_to_json(dtmp) # Unparsed
  BY <1>4 DEF FramePayload, Unparsed
<1>6. published' = Append(published, FramePayload(Len(published) + 1))
  BY <1>4, <1>5 DEF Publish, NothingToPublish, HasPayload
<1>7. /\ Len(published') = Len(published) + 1
      /\ \A n \in 1..Len(published) : published'[n] = published[n]
      /\ published'[Len(published) + 1] = FramePayload(Len(published) + 1)
  <2>1. parse_data_to_json(dtmp) \in Seq(Seq(Positions))
    BY <1>3, ParsedType
  <2>2. QED
    BY <1>3, <1>4, <1>6, <2>1, AppendProperties
<1>8. InOrder'
  <2>1. \A n \in 1..Len(published') : n \in 1..Len(published) \/ n = Len(published) + 1
    BY <1>3, <1>7
  <2>2. QED
    BY <1>2, <1>7, <2>1 DEF InOrder
<1>9. Unhurt' /\ WholeFrames' /\ Gone' = Gone /\ RingFollows'
  BY <1>1, <1>2 DEF Unhurt, WholeFrames, Gone, RingFollows
<1>10. InHand'
  <2>1. Len(dtmp') = 0
    BY <1>1
  <2>2. Gone' = 3 * Len(published')
    BY <1>3, <1>7, <1>9
  <2>3. QED
    BY <1>1, <1>3, <1>7, <2>1, <2>2 DEF InHand
<1>11. QED
  BY <1>8, <1>9, <1>10 DEF Aligned

(* Without a loss, the payloads are the frames of the line, whole, in      *)
(* order and each once: chunks and events, though they travel apart, stay  *)
(* in step at any size of the buffer and the queue.                        *)
THEOREM FramesInOrder == Spec => [](intact => InOrder)
<1>1. Init => Aligned
  <2> SUFFICES ASSUME Init PROVE Aligned
    OBVIOUS
  <2>1. Len(ring) = 0 /\ Len(queue) = 0 /\ Len(dtmp) = 0 /\ Len(published) = 0
    BY DEF Init
  <2>2. stored = 0 /\ task = "receive"
    BY DEF Init
  <2>3. InHand
    <3>1. Gone = 0
      BY <2>1, <2>2 DEF Gone
    <3>2. 0 = 3 * 0 + 0
      OBVIOUS
    <3>3. Gone = 3 * Len(published) + Len(dtmp)
      BY <2>1, <3>1, <3>2
    <3>4. \A k \in 1..Len(dtmp) : dtmp[k] = 3 * Len(published) + k
      BY <2>1
    <3>5. QED
      BY <2>1, <2>2, <3>3, <3>4 DEF InHand
  <2>4. Unhurt /\ WholeFrames /\ RingFollows /\ InOrder
    BY <2>1 DEF Init, Unhurt, WholeFrames, RingFollows, InOrder
  <2>5. QED
    BY <2>3, <2>4 DEF Aligned
<1>2. TypeOK /\ IInv /\ Aligned /\ [Next]_vars => Aligned'
  <2>1. SUFFICES ASSUME TypeOK, IInv, Aligned, [Next]_vars, intact' PROVE Aligned'
    BY DEF Aligned
  <2>2. CASE Interrupt
    <3>1. PICK n \in Chunks : Store(n) \/ Stash(n) \/ Overflow(n)
      BY <2>2 DEF Interrupt
    <3>2. Store(n)
      BY <2>1, <3>1 DEF Stash, Overflow
    <3>3. QED
      BY <2>1, <3>2, StoreAligned
  <2>3. CASE TakeEvent
    BY <2>1, <2>3, TakeEventAligned
  <2>4. CASE Read
    BY <2>1, <2>4, ReadAligned
  <2>5. CASE Publish \/ NothingToPublish
    BY <2>1, <2>5, ParseAligned
  <2>6. CASE OutOfMemory
    BY <2>1, <2>6 DEF OutOfMemory
  <2>7. CASE Discard
    BY <2>1, <2>7 DEF Discard, Aligned, Unhurt
  <2>8. CASE UNCHANGED vars
    BY <2>1, <2>8 DEF vars, lineVars, taskVars, Aligned, Unhurt, WholeFrames,
                      RingFollows, InHand, InOrder, Gone
  <2>9. QED
    BY <2>1, <2>2, <2>3, <2>4, <2>5, <2>6, <2>7, <2>8 DEF Next, EventTask
<1>3. Aligned => (intact => InOrder)
  BY DEF Aligned
<1>4. QED
  BY <1>1, <1>2, <1>3, TypeCorrect, Accounts, PTL DEF Spec
=============================================================================
