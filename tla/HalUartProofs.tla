--------------------------- MODULE HalUartProofs ---------------------------
(***************************************************************************)
(* Proofs about HalUart, for buffers of any size: each direction of the    *)
(* drivers implements BoundedFifo.                                         *)
(***************************************************************************)
EXTENDS HalUart, TLAPS

-----------------------------------------------------------------------------
(***************************************************************************)
(* The ring buffer: what Push and Pop do to its content.                   *)
(***************************************************************************)
At(h, j) == (h + j) % Size
Cell(f, k) == At(f.head, k - 1)

\* The count and both indices agree, and every cell between them holds a byte.
Ring(f) ==
  /\ f \in Fifos
  /\ f.tail = At(f.head, f.bytes)
  /\ \A k \in 1..f.bytes : f.data[Cell(f, k)] \in Bytes

LEMMA SizeIsPositive == Size \in Nat /\ Size > 0 /\ MaxBytes \in Nat
BY UartAssumption

\* Indices go round once at most.
LEMMA AtIs ==
  ASSUME NEW h \in 0..(Size - 1), NEW j \in 0..Size
  PROVE  At(h, j) = IF h + j < Size THEN h + j ELSE h + j - Size
<1> DEFINE a == h + j
           q == a \div Size
           m == a % Size
<1> SUFFICES m = IF a < Size THEN a ELSE a - Size
  BY SizeIsPositive DEF At
<1>1. Size \in Nat /\ Size > 0 /\ a \in Nat /\ a <= Size + Size - 1
  BY SizeIsPositive
<1> HIDE DEF a
<1>2. q \in Int /\ m \in 0..(Size - 1) /\ a = Size * q + m
  BY <1>1
<1> HIDE DEF q, m
<1>3. CASE q <= -1
  <2>1. Size * q <= -Size
    BY <1>1, <1>2, <1>3
  <2> DEFINE p == Size * q
  <2>2. p \in Int /\ p <= -Size /\ a = p + m
    BY <1>1, <1>2, <2>1
  <2> HIDE DEF p
  <2> QED BY <1>1, <1>2, <2>2
<1>4. CASE q = 0
  BY <1>1, <1>2, <1>4
<1>5. CASE q = 1
  <2>1. a = Size + m
    BY <1>1, <1>2, <1>5
  <2>2. m = a - Size /\ ~(a < Size)
    BY <1>1, <1>2, <2>1
  <2> QED BY <2>2
<1>6. CASE q >= 2
  <2>1. Size * q >= Size + Size
    BY <1>1, <1>2, <1>6
  <2> DEFINE p == Size * q
  <2>2. p \in Int /\ p >= Size + Size /\ a = p + m
    BY <1>1, <1>2, <2>1
  <2> HIDE DEF p
  <2> QED BY <1>1, <1>2, <2>2
<1> QED BY <1>2, <1>3, <1>4, <1>5, <1>6

LEMMA FifoFields ==
  ASSUME NEW f \in Fifos
  PROVE  /\ f.data \in [Cells -> Bytes \cup {NoByte}]
         /\ f.head \in 0..(Size - 1) /\ f.tail \in 0..(Size - 1) /\ f.bytes \in 0..Size
BY DEF Fifos, Cells

LEMMA CellIs ==
  ASSUME NEW f \in Fifos, NEW k \in 1..Size
  PROVE  /\ Cell(f, k) = IF f.head + (k - 1) < Size THEN f.head + (k - 1) ELSE f.head + (k - 1) - Size
         /\ Cell(f, k) \in Cells
<1>1. f.head \in 0..(Size - 1) /\ Size \in Nat /\ Size > 0
  BY FifoFields, SizeIsPositive
<1>2. PICK j \in 0..Size : j = k - 1
  BY <1>1
<1>3. At(f.head, j) = IF f.head + j < Size THEN f.head + j ELSE f.head + j - Size
  BY <1>1, AtIs
<1>4. At(f.head, j) \in Cells
  BY <1>1, <1>2, <1>3 DEF Cells
<1> QED BY <1>2, <1>3, <1>4 DEF Cell

LEMMA ContentIs ==
  ASSUME NEW f, Ring(f)
  PROVE  /\ Content(f) \in Seq(Bytes) /\ Len(Content(f)) = f.bytes
         /\ \A k \in 1..f.bytes : Content(f)[k] = f.data[Cell(f, k)]
<1>1. f.bytes \in Nat
  BY FifoFields, SizeIsPositive DEF Ring
<1>2. Content(f) = [k \in 1..f.bytes |-> f.data[Cell(f, k)]]
  BY DEF Content, Cell, At
<1>3. \A k \in 1..f.bytes : f.data[Cell(f, k)] \in Bytes
  BY DEF Ring
<1> QED BY <1>1, <1>2, <1>3

\* A byte pushed comes behind the content; no byte of the content is overwritten.
LEMMA PushAppends ==
  ASSUME NEW f, Ring(f), ~Full(f), NEW b \in Bytes
  PROVE  /\ Ring(Push(f, b)) /\ Push(f, b).bytes = f.bytes + 1
         /\ Content(Push(f, b)) = Append(Content(f), b)
<1> DEFINE g == Push(f, b)
           n == f.bytes
           new == [f.data EXCEPT ![f.tail] = b]
<1>1. /\ f \in Fifos /\ f.data \in [Cells -> Bytes \cup {NoByte}]
      /\ f.head \in 0..(Size - 1) /\ f.tail \in 0..(Size - 1) /\ n \in 0..(Size - 1)
      /\ Size \in Nat /\ Size > 0
  BY FifoFields, SizeIsPositive DEF Ring, Full
<1>2. g = [data |-> new, head |-> f.head, tail |-> Step(f.tail), bytes |-> n + 1]
  <2> DEFINE f1 == [f EXCEPT !.data = new]
             f2 == [f1 EXCEPT !.tail = Step(f.tail)]
  <2>1. f1 = [data |-> new, head |-> f.head, tail |-> f.tail, bytes |-> n]
    BY <1>1 DEF Fifos
  <2> HIDE DEF f1
  <2>2. f2 = [data |-> new, head |-> f.head, tail |-> Step(f.tail), bytes |-> n]
    BY <2>1
  <2> HIDE DEF f2
  <2>3. g = [f2 EXCEPT !.bytes = @ + 1]
    BY DEF Push, f1, f2
  <2> QED BY <2>2, <2>3
<1>3. new \in [Cells -> Bytes \cup {NoByte}] /\ new[f.tail] = b
      /\ \A c \in Cells : c # f.tail => new[c] = f.data[c]
  BY <1>1 DEF Cells
<1> HIDE DEF new
<1>4. Step(f.tail) \in Cells
  BY <1>1 DEF Step, Cells
<1>5. g \in Fifos
  BY <1>1, <1>2, <1>3, <1>4 DEF Fifos, Cells
<1>6. g.head = f.head /\ g.bytes = n + 1 /\ g.tail = Step(f.tail) /\ g.data = new
  BY <1>2
<1> HIDE DEF g
<1>7. f.tail \in Cells /\ f.tail = IF f.head + n < Size THEN f.head + n ELSE f.head + n - Size
  <2>1. f.tail = At(f.head, n)
    BY DEF Ring
  <2>2. n \in 0..Size
    BY <1>1
  <2> QED BY <1>1, <2>1, <2>2, AtIs DEF Cells
<1>8. \A k : Cell(g, k) = Cell(f, k)
  BY <1>6 DEF Cell
<1>9. ASSUME NEW k \in 1..n PROVE Cell(f, k) \in Cells /\ Cell(f, k) # f.tail
  <2>1. k \in 1..Size
    BY <1>1
  <2>2. /\ Cell(f, k) = IF f.head + (k - 1) < Size THEN f.head + (k - 1) ELSE f.head + (k - 1) - Size
        /\ Cell(f, k) \in Cells
    BY <1>1, <2>1, CellIs
  <2> QED BY <1>1, <1>7, <2>2
<1>10. g.tail = At(g.head, g.bytes)
  <2>1. PICK m \in 0..Size : m = n + 1
    BY <1>1
  <2>2. At(f.head, m) = IF f.head + m < Size THEN f.head + m ELSE f.head + m - Size
    BY <1>1, AtIs
  <2>3. Step(f.tail) = At(f.head, m)
    BY <1>1, <1>7, <2>1, <2>2 DEF Step
  <2> QED BY <1>6, <2>1, <2>3
<1>11. ASSUME NEW k \in 1..(n + 1)
       PROVE  g.data[Cell(g, k)] = IF k = n + 1 THEN b ELSE f.data[Cell(f, k)]
  <2>1. CASE k = n + 1
    <3>1. Cell(f, n + 1) = f.tail
      <4>1. (n + 1) - 1 = n
        BY <1>1
      <4> QED BY <4>1 DEF Ring, Cell
    <3> QED BY <2>1, <3>1, <1>3, <1>6, <1>8
  <2>2. CASE k \in 1..n
    <3>1. new[Cell(f, k)] = f.data[Cell(f, k)]
      BY <2>2, <1>3, <1>9
    <3> QED BY <2>2, <3>1, <1>6, <1>8, <1>1
  <2> QED BY <2>1, <2>2, <1>1
<1>12. \A k \in 1..g.bytes : g.data[Cell(g, k)] \in Bytes
  <2>1. \A k \in 1..n : f.data[Cell(f, k)] \in Bytes
    BY DEF Ring
  <2> QED BY <2>1, <1>1, <1>6, <1>11
<1>13. Ring(g)
  BY <1>5, <1>10, <1>12 DEF Ring
<1>14. Content(g) = Append(Content(f), b)
  <2> DEFINE c == Content(f)
             d == Content(g)
  <2>1. c \in Seq(Bytes) /\ Len(c) = n /\ \A k \in 1..n : c[k] = f.data[Cell(f, k)]
    BY ContentIs
  <2>2. d \in Seq(Bytes) /\ Len(d) = n + 1 /\ \A k \in 1..(n + 1) : d[k] = g.data[Cell(g, k)]
    BY <1>6, <1>13, ContentIs
  <2> HIDE DEF c, d
  <2>3. \A k \in 1..(n + 1) : d[k] = IF k = n + 1 THEN b ELSE c[k]
    BY <1>1, <1>11, <2>1, <2>2
  <2>4. Append(c, b) \in Seq(Bytes) /\ Len(Append(c, b)) = n + 1
    BY <1>1, <2>1
  <2>5. \A k \in 1..(n + 1) : Append(c, b)[k] = IF k = n + 1 THEN b ELSE c[k]
    BY <1>1, <2>1
  <2>6. \A k \in 1..(n + 1) : d[k] = Append(c, b)[k]
    BY <2>3, <2>5
  <2>7. d = Append(c, b)
    BY <2>2, <2>4, <2>6
  <2> QED BY <2>7 DEF c, d
<1> QED BY <1>6, <1>13, <1>14 DEF g

\* The byte popped is the first of the content.
LEMMA PopTakesFirst ==
  ASSUME NEW f, Ring(f), f.bytes > 0
  PROVE  /\ Ring(Pop(f)) /\ Pop(f).bytes = f.bytes - 1
         /\ Content(f) # <<>> /\ First(f) = Head(Content(f)) /\ First(f) \in Bytes
         /\ Content(Pop(f)) = Tail(Content(f))
<1> DEFINE g == Pop(f)
           n == f.bytes
<1>1. /\ f \in Fifos /\ f.data \in [Cells -> Bytes \cup {NoByte}]
      /\ f.head \in 0..(Size - 1) /\ f.tail \in 0..(Size - 1) /\ n \in 1..Size
      /\ Size \in Nat /\ Size > 0
  BY FifoFields, SizeIsPositive DEF Ring
<1>2. g = [data |-> f.data, head |-> Step(f.head), tail |-> f.tail, bytes |-> n - 1]
  <2> DEFINE f1 == [f EXCEPT !.head = Step(f.head)]
  <2>1. f1 = [data |-> f.data, head |-> Step(f.head), tail |-> f.tail, bytes |-> n]
    BY <1>1 DEF Fifos
  <2> HIDE DEF f1
  <2>2. g = [f1 EXCEPT !.bytes = @ - 1]
    BY DEF Pop, f1
  <2> QED BY <2>1, <2>2
<1>3. Step(f.head) \in Cells
  BY <1>1 DEF Step, Cells
<1>4. g \in Fifos
  BY <1>1, <1>2, <1>3 DEF Fifos, Cells
<1>5. g.head = Step(f.head) /\ g.bytes = n - 1 /\ g.tail = f.tail /\ g.data = f.data
  BY <1>2
<1> HIDE DEF g
<1>6. Cell(f, 1) = f.head
  <2>1. 1 \in 1..Size
    BY <1>1
  <2>2. Cell(f, 1) = IF f.head + (1 - 1) < Size THEN f.head + (1 - 1) ELSE f.head + (1 - 1) - Size
    BY <1>1, <2>1, CellIs
  <2> QED BY <1>1, <2>2
<1>7. ASSUME NEW k \in 1..(n - 1) PROVE Cell(g, k) = Cell(f, k + 1)
  <2>1. k \in 1..Size
    BY <1>1
  <2>2. PICK k1 \in 1..Size : k1 = k + 1
    BY <1>1
  <2>3. Cell(f, k1) = IF f.head + (k1 - 1) < Size THEN f.head + (k1 - 1) ELSE f.head + (k1 - 1) - Size
    BY <1>1, CellIs
  <2>4. Cell(g, k) = IF g.head + (k - 1) < Size THEN g.head + (k - 1) ELSE g.head + (k - 1) - Size
    BY <1>4, <2>1, CellIs
  <2>5. Cell(g, k) = Cell(f, k1)
    BY <1>1, <1>5, <2>2, <2>3, <2>4 DEF Step
  <2> QED BY <2>2, <2>5
<1>8. g.tail = At(g.head, g.bytes)
  <2>1. f.tail = At(f.head, n) /\ n \in 0..Size
    BY <1>1 DEF Ring
  <2>2. f.tail = IF f.head + n < Size THEN f.head + n ELSE f.head + n - Size
    BY <1>1, <2>1, AtIs
  <2>3. PICK m \in 0..Size : m = n - 1
    BY <1>1
  <2>4. g.head \in 0..(Size - 1)
    BY <1>3, <1>5 DEF Cells
  <2>5. At(g.head, m) = IF g.head + m < Size THEN g.head + m ELSE g.head + m - Size
    BY <2>4, AtIs
  <2>6. f.tail = At(g.head, m)
    BY <1>1, <1>5, <2>2, <2>3, <2>5 DEF Step
  <2> QED BY <1>5, <2>3, <2>6
<1>9. \A k \in 1..n : f.data[Cell(f, k)] \in Bytes
  BY DEF Ring
<1>10. \A k \in 1..g.bytes : g.data[Cell(g, k)] \in Bytes
  BY <1>1, <1>5, <1>7, <1>9
<1>11. Ring(g)
  BY <1>4, <1>8, <1>10 DEF Ring
<1> DEFINE c == Content(f)
           d == Content(g)
<1>12. c \in Seq(Bytes) /\ Len(c) = n /\ \A k \in 1..n : c[k] = f.data[Cell(f, k)]
  BY ContentIs
<1>13. d \in Seq(Bytes) /\ Len(d) = n - 1 /\ \A k \in 1..(n - 1) : d[k] = g.data[Cell(g, k)]
  BY <1>5, <1>11, ContentIs
<1> HIDE DEF c, d
<1>14. c # <<>> /\ First(f) = Head(c) /\ First(f) \in Bytes
  BY <1>1, <1>6, <1>9, <1>12 DEF First
<1>15. \A k \in 1..(n - 1) : d[k] = c[k + 1]
  <2>1. SUFFICES ASSUME NEW k \in 1..(n - 1) PROVE d[k] = c[k + 1]
    OBVIOUS
  <2>2. k + 1 \in 1..n
    BY <1>1
  <2>3. c[k + 1] = f.data[Cell(f, k + 1)]
    BY <2>2, <1>12
  <2>4. d[k] = f.data[Cell(f, k + 1)]
    BY <1>5, <1>7, <1>13
  <2> QED BY <2>3, <2>4
<1>16. d = Tail(c)
  <2>1. Tail(c) \in Seq(Bytes) /\ Len(Tail(c)) = n - 1 /\ \A k \in 1..(n - 1) : Tail(c)[k] = c[k + 1]
    BY <1>1, <1>12, <1>14
  <2>2. \A k \in 1..(n - 1) : d[k] = Tail(c)[k]
    BY <2>1, <1>15
  <2> QED BY <1>13, <2>1, <2>2
<1> QED BY <1>5, <1>11, <1>14, <1>16 DEF c, d, g

LEMMA EmptyIsRing == Ring(EmptyFifo) /\ Content(EmptyFifo) = <<>> /\ EmptyFifo.bytes = 0
<1>1. 0 \in Cells /\ 0 \in 0..Size /\ Size \in Nat /\ Size > 0
  BY SizeIsPositive DEF Cells
<1>2. EmptyFifo \in Fifos
  BY <1>1 DEF EmptyFifo, Fifos
<1>3. EmptyFifo.bytes = 0 /\ EmptyFifo.head = 0 /\ EmptyFifo.tail = 0
  BY DEF EmptyFifo
<1>4. At(0, 0) = 0
  <2>1. 0 \in 0..(Size - 1)
    BY <1>1
  <2> QED BY <1>1, <2>1, AtIs
<1>5. Ring(EmptyFifo)
  BY <1>2, <1>3, <1>4 DEF Ring
<1>6. Content(EmptyFifo) \in Seq(Bytes) /\ Len(Content(EmptyFifo)) = 0
  BY <1>3, <1>5, ContentIs
<1> QED BY <1>3, <1>5, <1>6


-----------------------------------------------------------------------------
(***************************************************************************)
(* The inductive invariant.                                                *)
(***************************************************************************)

\* No byte is read that is not there, and a byte meets an empty data register.
InOrder ==
  /\ avail <= rxFifo.bytes
  /\ byte # NoByte => pc = "put"
  /\ pc = "put" => byte # NoByte /\ udrEmpty
  /\ udrEmpty => udr = NoByte

UartInv == TypeOK /\ Ring(txFifo) /\ Ring(rxFifo) /\ InOrder

LEMMA InitUart == Init => UartInv
<1> SUFFICES ASSUME Init PROVE UartInv
  OBVIOUS
<1>1. Size \in Nat /\ MaxBytes \in Nat /\ 0 \in 0..Size /\ 0 \in 0..MaxBytes
  BY SizeIsPositive
<1>2. Ring(txFifo) /\ Ring(rxFifo) /\ txFifo.bytes = 0 /\ rxFifo.bytes = 0
  BY EmptyIsRing DEF Init
<1>3. txFifo \in Fifos /\ rxFifo \in Fifos
  BY <1>2 DEF Ring
<1>4. TypeOK
  BY <1>1, <1>3 DEF Init, TypeOK
<1>5. InOrder
  BY <1>2 DEF Init, InOrder
<1> QED BY <1>2, <1>4, <1>5 DEF UartInv

\* A byte accepted comes behind those received; one that finds the buffer full is lost.
LEMMA AcceptAppends ==
  ASSUME UartInv, NEW b \in Bytes, Accept(b)
  PROVE  /\ Ring(rxFifo') /\ rxFifo.bytes <= rxFifo'.bytes
         /\ newData' \in BOOLEAN
         /\ \/ UNCHANGED rxFifo
            \/ rxFifo.bytes < Size /\ Content(rxFifo)' = Append(Content(rxFifo), b)
<1>1. Ring(rxFifo) /\ rxFifo.bytes \in 0..Size /\ Size \in Nat /\ newData \in BOOLEAN
  BY FifoFields, SizeIsPositive DEF UartInv, Ring, TypeOK
<1>2. CASE Full(rxFifo)
  BY <1>1, <1>2 DEF Accept
<1>3. CASE ~Full(rxFifo)
  <2>1. rxFifo' = Push(rxFifo, b) /\ newData' = TRUE
    BY <1>3 DEF Accept
  <2>2. /\ Ring(Push(rxFifo, b)) /\ Push(rxFifo, b).bytes = rxFifo.bytes + 1
        /\ Content(Push(rxFifo, b)) = Append(Content(rxFifo), b)
    BY <1>1, <1>3, PushAppends
  <2>3. rxFifo.bytes < Size
    BY <1>1, <1>3 DEF Full
  <2>4. Content(rxFifo)' = Append(Content(rxFifo), b)
    BY <2>1, <2>2 DEF Content
  <2> QED BY <1>1, <2>1, <2>2, <2>3, <2>4
<1> QED BY <1>2, <1>3


-----------------------------------------------------------------------------
(***************************************************************************)
(* One step of either abstract buffer, or none.                            *)
(***************************************************************************)
SentQueue == Held(udr) \o Held(byte) \o Content(txFifo)

ReceivedStep == Received!Next \/ UNCHANGED <<Content(rxFifo), got>>
SentStep == Sent!Next \/ UNCHANGED <<SentQueue, wire>>

LEMMA ReceivedStutters ==
  ASSUME UNCHANGED <<rxFifo, got>>
  PROVE  ReceivedStep
BY DEF ReceivedStep, Content

LEMMA SentStutters ==
  ASSUME UNCHANGED <<txFifo, udr, byte, wire>>
  PROVE  SentStep
BY DEF SentStep, SentQueue, Content

LEMMA ReceivedPuts ==
  ASSUME UartInv, NEW b \in Bytes, Accept(b), UNCHANGED got
  PROVE  ReceivedStep
<1>1. CASE UNCHANGED rxFifo
  BY <1>1, ReceivedStutters
<1>2. CASE rxFifo.bytes < Size /\ Content(rxFifo)' = Append(Content(rxFifo), b)
  <2>1. Len(Content(rxFifo)) = rxFifo.bytes
    BY ContentIs DEF UartInv
  <2>2. Received!Put(b)
    BY <1>2, <2>1 DEF Received!Put
  <2> QED BY <2>2 DEF ReceivedStep, Received!Next
<1> QED BY <1>1, <1>2, AcceptAppends

\* What the transmitter holds, and that it is a sequence of bytes.
LEMMA HeldIs ==
  ASSUME NEW b \in Bytes \cup {NoByte}
  PROVE  Held(b) \in Seq(Bytes) /\ Len(Held(b)) \in 0..1
BY DEF Held

LEMMA SentQueueIs ==
  ASSUME UartInv
  PROVE  /\ SentQueue \in Seq(Bytes)
         /\ Len(SentQueue) <= 2 + txFifo.bytes
<1>1. udr \in Bytes \cup {NoByte} /\ byte \in Bytes \cup {NoByte} /\ txFifo.bytes \in Nat
  BY FifoFields, SizeIsPositive DEF UartInv, TypeOK
<1>2. Content(txFifo) \in Seq(Bytes) /\ Len(Content(txFifo)) = txFifo.bytes
  BY ContentIs DEF UartInv
<1>3. Held(udr) \in Seq(Bytes) /\ Len(Held(udr)) \in 0..1 /\ Held(byte) \in Seq(Bytes) /\ Len(Held(byte)) \in 0..1
  BY <1>1, HeldIs
<1> DEFINE c == Content(txFifo)
           u == Held(udr)
           v == Held(byte)
<1> HIDE DEF c, u, v
<1>4. u \o v \in Seq(Bytes) /\ Len(u \o v) = Len(u) + Len(v)
  BY <1>3 DEF u, v
<1>5. (u \o v) \o c \in Seq(Bytes) /\ Len((u \o v) \o c) = Len(u) + Len(v) + Len(c)
  BY <1>2, <1>3, <1>4 DEF c, u, v
<1>6. Len(u) \in 0..1 /\ Len(v) \in 0..1 /\ Len(c) = txFifo.bytes
  BY <1>2, <1>3 DEF c, u, v
<1>7. SentQueue = (u \o v) \o c
  BY DEF SentQueue, c, u, v
<1>8. Len(u) + Len(v) + Len(c) <= 2 + txFifo.bytes
  <2>1. \A x \in 0..1, y \in 0..1, z \in Nat : x + y + z <= 2 + z
    OBVIOUS
  <2>2. txFifo.bytes \in Nat
    BY <1>1
  <2> QED BY <1>6, <2>1, <2>2
<1> QED BY <1>5, <1>7, <1>8


\* Concatenation, with the sequences the transmitter's queue is made of.
LEMMA ConcatEmpty ==
  ASSUME NEW s \in Seq(Bytes)
  PROVE  <<>> \o s = s /\ s \o <<>> = s
OBVIOUS

LEMMA ConcatAppend ==
  ASSUME NEW s \in Seq(Bytes), NEW t \in Seq(Bytes), NEW b \in Bytes
  PROVE  s \o Append(t, b) = Append(s \o t, b)
<1> DEFINE l == s \o Append(t, b)
           r == Append(s \o t, b)
           n == Len(s) + Len(t) + 1
<1>1. Append(t, b) \in Seq(Bytes) /\ Len(Append(t, b)) = Len(t) + 1 /\ Len(s) \in Nat /\ Len(t) \in Nat
  OBVIOUS
<1>2. l \in Seq(Bytes) /\ Len(l) = n
  BY <1>1
<1>3. s \o t \in Seq(Bytes) /\ Len(s \o t) = Len(s) + Len(t)
  OBVIOUS
<1>4. r \in Seq(Bytes) /\ Len(r) = n
  BY <1>3
<1>5. ASSUME NEW k \in 1..n PROVE l[k] = r[k]
  <2>1. CASE k <= Len(s)
    BY <1>1, <1>3, <2>1
  <2>2. CASE k > Len(s) /\ k < n
    BY <1>1, <1>3, <2>2
  <2>3. CASE k = n
    BY <1>1, <1>3, <2>3
  <2> QED BY <1>1, <2>1, <2>2, <2>3
<1> QED BY <1>2, <1>4, <1>5

LEMMA ConsHead ==
  ASSUME NEW b \in Bytes, NEW s \in Seq(Bytes)
  PROVE  <<b>> \o s # <<>> /\ Head(<<b>> \o s) = b /\ Tail(<<b>> \o s) = s
<1> DEFINE c == <<b>> \o s
<1>1. Len(s) \in Nat /\ <<b>> \in Seq(Bytes) /\ Len(<<b>>) = 1 /\ <<b>>[1] = b
  OBVIOUS
<1>2. c \in Seq(Bytes) /\ Len(c) = Len(s) + 1 /\ c[1] = b
      /\ \A k \in 1..Len(s) : c[k + 1] = s[k]
  BY <1>1
<1> HIDE DEF c
<1>3. c # <<>> /\ Head(c) = b
  BY <1>1, <1>2
<1>4. Tail(c) \in Seq(Bytes) /\ Len(Tail(c)) = Len(s) /\ \A k \in 1..Len(s) : Tail(c)[k] = c[k + 1]
  BY <1>1, <1>2, <1>3
<1>5. Tail(c) = s
  BY <1>2, <1>4
<1> QED BY <1>3, <1>5 DEF c

LEMMA HeadTail ==
  ASSUME NEW c \in Seq(Bytes), c # <<>>
  PROVE  <<Head(c)>> \o Tail(c) = c
<1> DEFINE d == <<Head(c)>> \o Tail(c)
<1>1. Len(c) \in Nat /\ Len(c) > 0 /\ Head(c) = c[1] /\ Head(c) \in Bytes
  OBVIOUS
<1>2. Tail(c) \in Seq(Bytes) /\ Len(Tail(c)) = Len(c) - 1
      /\ \A k \in 1..(Len(c) - 1) : Tail(c)[k] = c[k + 1]
  BY <1>1
<1>3. d \in Seq(Bytes) /\ Len(d) = Len(c)
  BY <1>1, <1>2
<1>4. ASSUME NEW k \in 1..Len(c) PROVE d[k] = c[k]
  <2>1. CASE k = 1
    BY <1>1, <1>2, <2>1
  <2>2. CASE k # 1
    <3>1. PICK j \in 1..(Len(c) - 1) : k = j + 1
      BY <1>1, <2>2
    <3>2. d[k] = Tail(c)[k - 1]
      BY <1>1, <1>2, <2>2
    <3> QED BY <1>1, <1>2, <3>1, <3>2
  <2> QED BY <2>1, <2>2
<1> QED BY <1>3, <1>4

LEMMA ConcatAssoc ==
  ASSUME NEW r \in Seq(Bytes), NEW s \in Seq(Bytes), NEW t \in Seq(Bytes)
  PROVE  (r \o s) \o t = r \o (s \o t)
OBVIOUS


-----------------------------------------------------------------------------
(***************************************************************************)
(* One lemma for each action: the invariant is kept, and what either       *)
(* abstract buffer does.                                                   *)
(***************************************************************************)
Kept == UartInv' /\ ReceivedStep /\ SentStep

LEMMA UartTypes ==
  ASSUME UartInv
  PROVE  /\ Size \in Nat /\ Size > 0 /\ MaxBytes \in Nat
         /\ txFifo \in Fifos /\ rxFifo \in Fifos
         /\ txFifo.bytes \in 0..Size /\ rxFifo.bytes \in 0..Size
         /\ avail \in 0..Size /\ avail <= rxFifo.bytes
BY FifoFields, SizeIsPositive DEF UartInv, TypeOK, InOrder

LEMMA WriteKeeps ==
  ASSUME UartInv, HAL_UartWriteByte
  PROVE  Kept
<1>1. /\ written \in Nat /\ written < MaxBytes /\ written' = written + 1
      /\ UNCHANGED <<family, rxFifo, newData, pc, byte, avail, udrEmpty, udr, dreOn, wire, got, arrived>>
  BY DEF HAL_UartWriteByte, UartInv, TypeOK, main, regs, ends
<1>2. written + 1 \in Bytes /\ written' \in 0..MaxBytes
  BY <1>1, SizeIsPositive DEF Bytes
<1>3. CASE Full(txFifo)
  <2>1. UNCHANGED txFifo
    BY <1>3 DEF HAL_UartWriteByte
  <2>2. UartInv'
    BY <1>1, <1>2, <2>1 DEF UartInv, TypeOK, InOrder
  <2> QED BY <1>1, <2>1, <2>2, ReceivedStutters, SentStutters DEF Kept
<1>4. CASE ~Full(txFifo)
  <2> DEFINE b == written + 1
             c == Content(txFifo)
             s == Held(udr) \o Held(byte)
  <2>1. txFifo' = Push(txFifo, b)
    BY <1>4 DEF HAL_UartWriteByte
  <2>2. Ring(Push(txFifo, b)) /\ Content(Push(txFifo, b)) = Append(c, b)
    BY <1>2, <1>4, PushAppends DEF UartInv
  <2>3. Ring(txFifo') /\ Content(txFifo)' = Append(c, b)
    BY <2>1, <2>2 DEF Content
  <2>4. txFifo' \in Fifos
    BY <2>3 DEF Ring
  <2>5. UartInv'
    BY <1>1, <1>2, <2>3, <2>4 DEF UartInv, TypeOK, InOrder
  <2>6. s \in Seq(Bytes) /\ c \in Seq(Bytes)
    <3>1. udr \in Bytes \cup {NoByte} /\ byte \in Bytes \cup {NoByte}
      BY DEF UartInv, TypeOK
    <3>2. Held(udr) \in Seq(Bytes) /\ Held(byte) \in Seq(Bytes)
      BY <3>1, HeldIs
    <3> QED BY <3>2, ContentIs DEF UartInv
  <2>7. SentQueue' = s \o Append(c, b)
    BY <1>1, <2>3 DEF SentQueue, Held
  <2>8. SentQueue' = Append(SentQueue, b)
    <3>1. SentQueue = s \o c
      BY DEF SentQueue
    <3> HIDE DEF s, c, b
    <3>2. b \in Bytes
      BY <1>2 DEF b
    <3> QED BY <2>6, <2>7, <3>1, <3>2, ConcatAppend
  <2>9. Len(SentQueue) < Size + 2
    <3>1. txFifo.bytes < Size
      BY <1>4, UartTypes DEF Full
    <3>2. Len(SentQueue) <= 2 + txFifo.bytes /\ Len(SentQueue) \in Nat
      BY SentQueueIs
    <3> QED BY <3>1, <3>2, UartTypes
  <2>10. Sent!Put(b)
    BY <1>1, <2>8, <2>9 DEF Sent!Put, SentQueue
  <2>11. SentStep
    BY <1>2, <2>10 DEF SentStep, Sent!Next
  <2> QED BY <1>1, <2>5, <2>11, ReceivedStutters DEF Kept
<1> QED BY <1>3, <1>4

LEMMA ReadKeeps ==
  ASSUME UartInv, HAL_UartReadByte
  PROVE  Kept
<1>1. /\ avail > 0 /\ avail' = avail - 1 /\ got' = First(rxFifo) /\ rxFifo' = Pop(rxFifo)
      /\ UNCHANGED <<family, txFifo, newData, pc, byte, udrEmpty, udr, dreOn, wire, written, arrived>>
  BY DEF HAL_UartReadByte, regs, count
<1>2. rxFifo.bytes > 0 /\ avail' \in 0..Size /\ avail' <= rxFifo.bytes - 1
  BY <1>1, UartTypes
<1>3. /\ Ring(Pop(rxFifo)) /\ Pop(rxFifo).bytes = rxFifo.bytes - 1
      /\ Content(rxFifo) # <<>> /\ First(rxFifo) = Head(Content(rxFifo)) /\ First(rxFifo) \in Bytes
      /\ Content(Pop(rxFifo)) = Tail(Content(rxFifo))
  BY <1>2, PopTakesFirst DEF UartInv
<1>4. Ring(rxFifo') /\ rxFifo'.bytes = rxFifo.bytes - 1 /\ Content(rxFifo)' = Tail(Content(rxFifo))
  BY <1>1, <1>3 DEF Content
<1>5. rxFifo' \in Fifos
  BY <1>4 DEF Ring
<1>6. UartInv'
  BY <1>1, <1>2, <1>3, <1>4, <1>5 DEF UartInv, TypeOK, InOrder
<1>7. Received!Get
  BY <1>1, <1>3, <1>4 DEF Received!Get
<1>8. ReceivedStep
  BY <1>7 DEF ReceivedStep, Received!Next
<1> QED BY <1>1, <1>6, <1>8, SentStutters DEF Kept

LEMMA TxTakeKeeps ==
  ASSUME UartInv, TxTake
  PROVE  Kept
<1>1. UNCHANGED <<family, rxFifo, newData, avail, udrEmpty, udr, dreOn, wire, got, written, arrived>>
  BY DEF TxTake, regs, ends, count
<1>2. CASE txFifo.bytes > 0 /\ udrEmpty
  <2> DEFINE c == Content(txFifo)
  <2>1. byte' = First(txFifo) /\ txFifo' = Pop(txFifo) /\ pc' = "put" /\ pc = "idle"
    BY <1>2 DEF TxTake
  <2>2. udr = NoByte /\ byte = NoByte
    BY <1>2, <2>1 DEF UartInv, InOrder
  <2>3. /\ Ring(Pop(txFifo)) /\ c # <<>> /\ First(txFifo) = Head(c) /\ First(txFifo) \in Bytes
        /\ Content(Pop(txFifo)) = Tail(c)
    BY <1>2, PopTakesFirst DEF UartInv
  <2>4. Ring(txFifo') /\ Content(txFifo)' = Tail(c)
    BY <2>1, <2>3 DEF Content
  <2>5. txFifo' \in Fifos /\ byte' \in Bytes /\ byte' # NoByte
    BY <2>1, <2>3, <2>4 DEF Ring, Bytes, NoByte
  <2>6. UartInv'
    BY <1>1, <1>2, <2>1, <2>4, <2>5 DEF UartInv, TypeOK, InOrder
  <2>7. c \in Seq(Bytes)
    BY ContentIs DEF UartInv
  <2>8. SentQueue = (<<>> \o <<>>) \o c
    BY <2>2 DEF SentQueue, Held
  <2>9. SentQueue' = (<<>> \o <<Head(c)>>) \o Tail(c)
    BY <1>1, <2>1, <2>2, <2>3, <2>4, <2>5 DEF SentQueue, Held
  <2>10. SentQueue' = SentQueue
    <3> HIDE DEF c
    <3>1. <<>> \o <<>> = <<>> /\ <<>> \o c = c
      BY <2>7, ConcatEmpty
    <3>2. Head(c) \in Bytes
      BY <2>3
    <3>3. <<>> \o <<Head(c)>> = <<Head(c)>>
      <4>1. <<Head(c)>> \in Seq(Bytes)
        BY <3>2
      <4> QED BY <4>1, ConcatEmpty
    <3>4. <<Head(c)>> \o Tail(c) = c
      BY <2>3, <2>7, HeadTail
    <3> QED BY <2>8, <2>9, <3>1, <3>3, <3>4
  <2>11. SentStep
    BY <1>1, <2>10 DEF SentStep
  <2> QED BY <1>1, <2>6, <2>11, ReceivedStutters DEF Kept
<1>3. CASE ~(txFifo.bytes > 0 /\ udrEmpty)
  <2>1. UNCHANGED <<byte, txFifo>> /\ pc' = "check" /\ pc = "idle"
    BY <1>3 DEF TxTake
  <2>2. UartInv'
    BY <1>1, <2>1 DEF UartInv, TypeOK, InOrder
  <2> QED BY <1>1, <2>1, <2>2, ReceivedStutters, SentStutters DEF Kept
<1> QED BY <1>2, <1>3


LEMMA TxPutKeeps ==
  ASSUME UartInv, TxPut
  PROVE  Kept
<1> DEFINE c == Content(txFifo)
<1>1. /\ pc = "put" /\ pc' = "check" /\ udr' = byte /\ byte' = NoByte /\ dreOn' = TRUE /\ udrEmpty' = FALSE
      /\ UNCHANGED <<family, txFifo, rxFifo, newData, avail, wire, got, written, arrived>>
  BY DEF TxPut, ends, count
<1>2. udr = NoByte /\ byte \in Bytes /\ byte # NoByte
  BY <1>1 DEF UartInv, InOrder, TypeOK
<1>3. UartInv'
  BY <1>1, <1>2 DEF UartInv, TypeOK, InOrder
<1>4. SentQueue = (<<>> \o <<byte>>) \o c
  BY <1>2 DEF SentQueue, Held
<1>5. SentQueue' = (<<byte>> \o <<>>) \o c
  BY <1>1, <1>2 DEF SentQueue, Held, Content
<1>6. <<>> \o <<byte>> = <<byte>> /\ <<byte>> \o <<>> = <<byte>>
  <2>1. <<byte>> \in Seq(Bytes)
    BY <1>2
  <2> QED BY <2>1, ConcatEmpty
<1>7. SentStep
  BY <1>1, <1>4, <1>5, <1>6 DEF SentStep
<1> QED BY <1>1, <1>3, <1>7, ReceivedStutters DEF Kept

LEMMA TakeNewsKeeps ==
  ASSUME UartInv, TakeNews
  PROVE  Kept
<1>1. /\ pc = "check" /\ newData' = FALSE /\ pc' \in {"received", "idle"}
      /\ avail' = avail \/ avail' = rxFifo.bytes
      /\ UNCHANGED <<family, txFifo, rxFifo, byte, udrEmpty, udr, dreOn, wire, got, written, arrived>>
  BY DEF TakeNews, regs, ends, count
<1>2. avail' \in 0..Size /\ avail' <= rxFifo.bytes
  BY <1>1, UartTypes
<1>3. UartInv'
  BY <1>1, <1>2 DEF UartInv, TypeOK, InOrder
<1> QED BY <1>1, <1>3, ReceivedStutters, SentStutters DEF Kept

LEMMA ReturnKeeps ==
  ASSUME UartInv, ReceivedReturns
  PROVE  Kept
<1>1. /\ pc = "received" /\ pc' = "idle"
      /\ UNCHANGED <<family, txFifo, rxFifo, newData, byte, avail, udrEmpty, udr, dreOn, wire, got, written, arrived>>
  BY DEF ReceivedReturns, regs, ends, count
<1>2. UartInv'
  BY <1>1 DEF UartInv, TypeOK, InOrder
<1> QED BY <1>1, <1>2, ReceivedStutters, SentStutters DEF Kept

LEMMA TransmitsKeeps ==
  ASSUME UartInv, Transmits
  PROVE  Kept
<1> DEFINE c == Content(txFifo)
           v == Held(byte)
<1>1. /\ udr # NoByte /\ wire' = udr /\ udr' = NoByte
      /\ UNCHANGED <<family, txFifo, rxFifo, newData, pc, byte, avail, udrEmpty, dreOn, got, written, arrived>>
  BY DEF Transmits, main, count
<1>2. udr \in Bytes
  BY <1>1 DEF UartInv, TypeOK
<1>3. UartInv'
  BY <1>1, <1>2 DEF UartInv, TypeOK, InOrder
<1>4. c \in Seq(Bytes) /\ v \in Seq(Bytes)
  <2>1. byte \in Bytes \cup {NoByte}
    BY DEF UartInv, TypeOK
  <2> QED BY <2>1, HeldIs, ContentIs DEF UartInv
<1>5. SentQueue = (<<udr>> \o v) \o c
  BY <1>1 DEF SentQueue, Held
<1>6. SentQueue' = (<<>> \o v) \o c
  BY <1>1 DEF SentQueue, Held, Content
<1> HIDE DEF c, v
<1>7. SentQueue = <<udr>> \o (v \o c)
  <2>1. <<udr>> \in Seq(Bytes)
    BY <1>2
  <2> QED BY <1>4, <1>5, <2>1, ConcatAssoc
<1>8. SentQueue' = v \o c
  BY <1>4, <1>6, ConcatEmpty
<1>9. SentQueue # <<>> /\ Head(SentQueue) = udr /\ Tail(SentQueue) = v \o c
  <2>1. v \o c \in Seq(Bytes)
    BY <1>4
  <2> QED BY <1>2, <1>7, <2>1, ConsHead
<1>10. Sent!Get
  BY <1>1, <1>8, <1>9 DEF Sent!Get, SentQueue
<1>11. SentStep
  BY <1>10 DEF SentStep, Sent!Next
<1> QED BY <1>1, <1>3, <1>11, ReceivedStutters DEF Kept

\* What the interrupts share: the register is noticed only when it is empty, a byte
\* goes only behind those received.
LEMMA InterruptKeeps ==
  ASSUME UartInv,
         UNCHANGED <<family, txFifo, pc, byte, avail, udr, wire, got, written>>,
         udrEmpty' = udrEmpty \/ (udr = NoByte /\ udrEmpty' = TRUE),
         dreOn' = dreOn \/ dreOn' = FALSE,
         \/ UNCHANGED <<rxFifo, newData, arrived>>
         \/ /\ arrived < MaxBytes /\ arrived' = arrived + 1
            /\ UNCHANGED <<rxFifo, newData>> \/ Accept(arrived + 1)
  PROVE  Kept
<1>1. arrived' \in 0..MaxBytes
  BY SizeIsPositive DEF UartInv, TypeOK
<1>2. udrEmpty' \in BOOLEAN /\ dreOn' \in BOOLEAN
  BY DEF UartInv, TypeOK
<1>3. CASE UNCHANGED <<rxFifo, newData>>
  <2>1. UartInv'
    <3>1. TypeOK'
      BY <1>1, <1>2, <1>3 DEF UartInv, TypeOK
    <3>2. InOrder'
      BY <1>3 DEF UartInv, InOrder
    <3> QED BY <1>3, <3>1, <3>2 DEF UartInv
  <2> QED BY <1>3, <2>1, ReceivedStutters, SentStutters DEF Kept
<1>4. CASE Accept(arrived + 1) /\ arrived < MaxBytes
  <2>1. arrived + 1 \in Bytes
    BY <1>4, SizeIsPositive DEF UartInv, TypeOK, Bytes
  <2>2. Ring(rxFifo') /\ rxFifo.bytes <= rxFifo'.bytes /\ newData' \in BOOLEAN
    BY <1>4, <2>1, AcceptAppends
  <2>3. rxFifo' \in Fifos
    BY <2>2 DEF Ring
  <2>4. avail <= rxFifo'.bytes
    <3>1. rxFifo'.bytes \in Nat
      BY <2>3, FifoFields, SizeIsPositive
    <3> QED BY <2>2, <3>1, UartTypes
  <2>5. UartInv'
    <3>1. TypeOK'
      BY <1>1, <1>2, <2>2, <2>3 DEF UartInv, TypeOK
    <3>2. InOrder'
      BY <2>4 DEF UartInv, InOrder
    <3> QED BY <2>2, <3>1, <3>2 DEF UartInv
  <2>6. ReceivedStep
    BY <1>4, <2>1, ReceivedPuts
  <2> QED BY <2>5, <2>6, SentStutters DEF Kept
<1> QED BY <1>3, <1>4

LEMMA InterruptsKeep ==
  ASSUME UartInv, TransmitterInterrupt \/ ReceiverInterrupt
  PROVE  Kept
<1>1. ASSUME RegisterEmpty PROVE Kept
  BY <1>1, InterruptKeeps DEF RegisterEmpty, DataRegisterEmpty, main, ends, count
<1>2. ASSUME NEW ok, ByteReceived(ok) PROVE Kept
  BY <1>2, InterruptKeeps DEF ByteReceived, main, regs, ends
<1>3. ASSUME NEW rxc, NEW ok, HAL_IrqHandlerSercom(rxc, ok) PROVE Kept
  <2>1. UNCHANGED <<family, txFifo, pc, byte, avail, udr, wire, got, written>>
    BY <1>3 DEF HAL_IrqHandlerSercom, main, ends
  <2>2. udrEmpty' = udrEmpty \/ (udr = NoByte /\ udrEmpty' = TRUE)
    BY <1>3 DEF HAL_IrqHandlerSercom, DataRegisterEmpty
  <2>3. dreOn' = dreOn \/ dreOn' = FALSE
    BY <1>3 DEF HAL_IrqHandlerSercom, DataRegisterEmpty
  <2>4. \/ UNCHANGED <<rxFifo, newData, arrived>>
        \/ /\ arrived < MaxBytes /\ arrived' = arrived + 1
           /\ UNCHANGED <<rxFifo, newData>> \/ Accept(arrived + 1)
    BY <1>3 DEF HAL_IrqHandlerSercom
  <2> QED BY <2>1, <2>2, <2>3, <2>4, InterruptKeeps
<1> QED
  BY <1>1, <1>2, <1>3
  DEF TransmitterInterrupt, ReceiverInterrupt, ISR_UDRE, ISR_DRE, ISR_RX, ISR_RXC

LEMMA NextUart == UartInv /\ [Next]_vars => Kept
<1> SUFFICES ASSUME UartInv, [Next]_vars PROVE Kept
  OBVIOUS
<1>1. CASE Next
  BY <1>1, WriteKeeps, ReadKeeps, TxTakeKeeps, TxPutKeeps, TakeNewsKeeps, ReturnKeeps,
     TransmitsKeeps, InterruptsKeep
  DEF Next, HAL_UartTaskHandler
<1>2. CASE UNCHANGED vars
  <2>1. UNCHANGED <<family, txFifo, rxFifo, newData, pc, byte, avail, udrEmpty, udr, dreOn,
                    wire, got, written, arrived>>
    BY <1>2 DEF vars, main, regs, ends, count
  <2>2. UartInv'
    BY <2>1 DEF UartInv, TypeOK, InOrder
  <2> QED BY <2>1, <2>2, ReceivedStutters, SentStutters DEF Kept
<1> QED BY <1>1, <1>2

\* Whatever the interrupts, the task handler and the application do to the two ring
\* buffers of halUart.c: the inductive invariant.
THEOREM UartInvariant == Spec => []UartInv
<1>1. UartInv /\ [Next]_vars => UartInv'
  BY NextUart DEF Kept
<1> QED BY <1>1, InitUart, PTL DEF Spec

\* The variables of the driver keep their types: neither buffer ever counts more bytes
\* than it has room for, and both indices stay inside (halUart.c, the two FifoBuffer_t).
THEOREM UartTypeCorrect == Spec => []TypeOK
<1>1. UartInv => TypeOK
  BY DEF UartInv
<1> QED BY <1>1, UartInvariant, PTL

\* Receiving implements a bounded FIFO: the application reads every byte the interrupt
\* has accepted, once and in order (halUart.c, the receive interrupt, HAL_UartReadByte).
THEOREM ReceivingIsFifo == Spec => ReceiverIsFifo
<1>1. Init => Received!Init
  BY EmptyIsRing DEF Init, Received!Init
<1>2. UartInv /\ [Next]_vars => [Received!Next]_(Received!vars)
  BY NextUart DEF Kept, ReceivedStep, Received!vars
<1> QED BY <1>1, <1>2, UartInvariant, PTL DEF Spec, ReceiverIsFifo, Received!Spec

\* Sending implements a bounded FIFO two bytes longer than the buffer: every byte
\* accepted leaves on the line, once and in order (HAL_UartWriteByte,
\* HAL_UartTaskHandler, the interrupt of the empty data register).
THEOREM SendingIsFifo == Spec => TransmitterIsFifo
<1>1. Init => Sent!Init
  <2>1. Init => SentQueue = (<<>> \o <<>>) \o <<>>
    BY EmptyIsRing DEF Init, SentQueue, Held
  <2>2. <<>> \o <<>> = <<>>
    OBVIOUS
  <2> QED BY <2>1, <2>2 DEF Init, SentQueue, Sent!Init
<1>2. UartInv /\ [Next]_vars => [Sent!Next]_(Sent!vars)
  BY NextUart DEF Kept, SentStep, SentQueue, Sent!vars
<1> QED BY <1>1, <1>2, UartInvariant, PTL DEF Spec, TransmitterIsFifo, Sent!Spec
=============================================================================
