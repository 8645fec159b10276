------------------------- MODULE NwkSecurityProofs -------------------------
(***************************************************************************)
(* Proofs about NwkSecurity, for any number of buffers, any payloads, any  *)
(* block size and any cipher. What a chain of blocks is, for a payload of  *)
(* any length, needs induction: SetInduction is the principle, stated of a *)
(* set.                                                                    *)
(***************************************************************************)
EXTENDS NwkSecurity, FiniteSetTheorems, TLAPS

-----------------------------------------------------------------------------
(***************************************************************************)
(* The inductive invariant.                                                *)
(***************************************************************************)
States == {"FREE"} \cup Pending \cup Working \cup Returned
Frames == [state : States, key : Keys, header : Blocks, text : Seq(Byte), plain : Seq(Byte)]

\* The vector the cipher is given for block n of a payload whose sealed form is s.
VectorOf(k, h, s, n) ==
  IF n = 0 THEN h ELSE Overwrite(Chain(k, h, s)[n - 1], s, (n - 1) * BlockSize)

\* Byte i of a payload, sealed by the chain of s.
SealedByte(k, h, s, plain, i) ==
  Xor(plain[i], Chain(k, h, s)[(i - 1) \div BlockSize][((i - 1) % BlockSize) + 1])

\* The frames in the module are the counted ones; the one worked on is the active one.
InModule == {s \in Slots : frames[s].state \in Pending \cup Working}

\* A frame in the module was handed over under the key that is set.
KeyOfFrames == \A s \in InModule : frames[s].key = key

\* A frame as its neighbour sent it: s is the sealed payload.
IsSealedFrame(f, s) ==
  /\ s \in Texts(Len(f.plain))
  /\ IsSealed(f.key, f.header, f.plain, s)

\* A frame that waits is as it was handed over.
FrameWaits(f) ==
  /\ f.state = "ENCRYPT_PENDING" => f.text = f.plain
  /\ f.state = "DECRYPT_PENDING" =>
       \E s : IsSealedFrame(f, s) /\ f.text = Append(s, Mic(f.key, f.header, s))

\* PayloadsRight, of one frame.
PayloadRight(f) ==
  LET sealed == SubSeq(f.text, 1, Len(f.plain))
  IN /\ f.state = "DELAY" =>
          /\ IsSealed(f.key, f.header, f.plain, sealed)
          /\ f.text = Append(sealed, Mic(f.key, f.header, sealed))
     /\ f.state = "INDICATE" => f.text = f.plain
     /\ f.state # "FINISH"

Waiting == \A s \in Slots : FrameWaits(frames[s])

\* n blocks of the frame are done: offset and size say so. The last one may be short,
\* and an empty payload has an empty block.
Counted(f, n) ==
  IF f.state = "PROCESS"
    THEN offset = n * BlockSize /\ offset + size = Len(f.plain) /\ (n > 0 => size > 0)
    ELSE offset = Len(f.plain) /\ n = LastBlock(f.plain) + 1

\* The first bytes of a payload are sealed, by its own chain.
SealedUpTo(k, h, plain, text, from) ==
  /\ Len(text) = Len(plain)
  /\ \A i \in 1..Len(plain) :
       text[i] = IF i <= from THEN SealedByte(k, h, text, plain, i) ELSE plain[i]

\* The first bytes of a sealed payload s are opened; its MIC stays behind it.
OpenedUpTo(plain, s, mic, text, from) ==
  /\ Len(text) = Len(plain) + 1
  /\ \A i \in 1..Len(plain) : text[i] = IF i <= from THEN plain[i] ELSE s[i]
  /\ text[Len(plain) + 1] = mic

\* The vector is that of block n, in both directions.
SealingTo(f, n) ==
  /\ SealedUpTo(f.key, f.header, f.plain, f.text, offset)
  /\ vector = VectorOf(f.key, f.header, f.text, n)

OpeningTo(f, s, n) ==
  /\ OpenedUpTo(f.plain, s, Mic(f.key, f.header, s), f.text, offset)
  /\ vector = VectorOf(f.key, f.header, s, n)

InWork ==
  active # None =>
    LET f == frames[active]
    IN \E n \in Nat :
         /\ Counted(f, n)
         /\ encrypt => SealingTo(f, n)
         /\ ~encrypt => \E s : IsSealedFrame(f, s) /\ OpeningTo(f, s, n)

Typed == TypeOK /\ frames \in [Slots -> Frames]

Inv == Typed /\ CountExact /\ KeyOfFrames /\ Waiting /\ InWork /\ PayloadsRight

-----------------------------------------------------------------------------
(***************************************************************************)
(* Arithmetic: bits and blocks.                                            *)
(***************************************************************************)
\* Induction: a set that holds 0, and n + 1 with each n, holds every number.
LEMMA SetInduction ==
  ASSUME NEW S, 0 \in S, \A n \in Nat : n \in S => n + 1 \in S
  PROVE  \A n \in Nat : n \in S
<1> DEFINE T == {n \in Nat : n \notin S}
           R == {ss \in Nat \X Nat : ss[1] < ss[2]}
<1> SUFFICES ASSUME T # {} PROVE FALSE
  OBVIOUS
<1>1. IsWellFoundedOn(R, Nat)
  BY NatLessThanWellFounded, Zenon DEF OpToRel
<1>2. PICK x \in T : \A y \in T : <<y, x>> \notin R
  <2>1. T \subseteq Nat
    OBVIOUS
  <2> HIDE DEF T, R
  <2> QED BY <1>1, <2>1, WFMin
<1>3. x \in Nat /\ x # 0 /\ x - 1 \in Nat
  OBVIOUS
<1>4. x - 1 \in T
  BY <1>3
<1>5. <<x - 1, x>> \in R
  BY <1>3
<1> QED BY <1>2, <1>4, <1>5

LEMMA BlockSizeIsPositive == BlockSize \in Nat /\ BlockSize > 0
BY SecurityAssumption

\* A byte added twice is gone.
LEMMA XorIsBit == \A a, b \in Byte : Xor(a, b) \in Byte /\ Xor(Xor(a, b), b) = a
                                    /\ Xor(a, Xor(b, a)) = b
BY DEF Xor, Byte

\* The quotient and the remainder of n blocks and a rest.
LEMMA DivisionIsUnique ==
  ASSUME NEW B \in Nat, B > 0, NEW n \in Nat, NEW r \in 0..(B - 1)
  PROVE  (n * B + r) \div B = n /\ (n * B + r) % B = r
<1> DEFINE a == n * B + r
           q == a \div B
           m == a % B
<1>1. a \in Nat /\ q \in Nat /\ m \in 0..(B - 1) /\ a = B * q + m
  OBVIOUS
<1>2. n * B + r = q * B + m
  BY <1>1
<1> HIDE DEF q, m
<1>3. CASE q > n
  <2>1. q * B >= (n + 1) * B
    BY <1>1, <1>3
  <2>2. (n + 1) * B = n * B + B
    OBVIOUS
  <2> DEFINE qb == q * B
             nb == n * B
  <2>3. qb \in Int /\ nb \in Int /\ qb >= nb + B /\ nb + r = qb + m
    BY <1>1, <1>2, <2>1, <2>2
  <2> HIDE DEF qb, nb
  <2> QED BY <1>1, <2>3
<1>4. CASE q < n
  <2>1. n * B >= (q + 1) * B
    BY <1>1, <1>4
  <2>2. (q + 1) * B = q * B + B
    BY <1>1
  <2> DEFINE qb == q * B
             nb == n * B
  <2>3. qb \in Int /\ nb \in Int /\ nb >= qb + B /\ nb + r = qb + m
    BY <1>1, <1>2, <2>1, <2>2
  <2> HIDE DEF qb, nb
  <2> QED BY <1>1, <2>3
<1>5. q = n
  BY <1>1, <1>3, <1>4
<1>6. m = r
  BY <1>1, <1>2, <1>5
<1> QED BY <1>5, <1>6 DEF q, m

\* The byte j of block n.
LEMMA ByteOfBlock ==
  ASSUME NEW n \in Nat, NEW j \in 1..BlockSize
  PROVE  (n * BlockSize + j - 1) \div BlockSize = n
         /\ ((n * BlockSize + j - 1) % BlockSize) + 1 = j
<1>1. j - 1 \in 0..(BlockSize - 1) /\ BlockSize \in Nat /\ BlockSize > 0
  BY BlockSizeIsPositive
<1>2. (n * BlockSize + (j - 1)) \div BlockSize = n /\ (n * BlockSize + (j - 1)) % BlockSize = j - 1
  BY <1>1, DivisionIsUnique
<1> QED BY <1>1, <1>2

\* Every byte is in a block; the bytes of the blocks before n are the first n * BlockSize.
LEMMA BlockOfByte ==
  ASSUME NEW i \in Nat, i > 0
  PROVE  /\ (i - 1) \div BlockSize \in Nat
         /\ ((i - 1) % BlockSize) + 1 \in 1..BlockSize
         /\ i = ((i - 1) \div BlockSize) * BlockSize + ((i - 1) % BlockSize) + 1
         /\ (i - 1) \div BlockSize <= i - 1
         /\ \A n \in Nat : i <= n * BlockSize => (i - 1) \div BlockSize < n
<1> DEFINE q == (i - 1) \div BlockSize
           m == (i - 1) % BlockSize
<1>1. i - 1 \in Nat /\ q \in Nat /\ m \in 0..(BlockSize - 1) /\ i - 1 = BlockSize * q + m
  BY BlockSizeIsPositive
<1> HIDE DEF q, m
<1>2. q <= BlockSize * q
  BY <1>1, BlockSizeIsPositive
<1>3. ASSUME NEW n \in Nat, i <= n * BlockSize PROVE q < n
  <2> SUFFICES ASSUME q >= n PROVE FALSE
    BY <1>1
  <2>1. q * BlockSize >= n * BlockSize
    BY <1>1, BlockSizeIsPositive
  <2> QED BY <1>1, <1>3, <2>1, BlockSizeIsPositive
<1>4. BlockSize * q \in Nat /\ BlockSize * q = q * BlockSize
  BY <1>1, BlockSizeIsPositive
<1>5. q <= i - 1 /\ i = q * BlockSize + m + 1
  BY <1>1, <1>2, <1>4, BlockSizeIsPositive
<1> QED BY <1>1, <1>3, <1>5, BlockSizeIsPositive DEF q, m

-----------------------------------------------------------------------------
(***************************************************************************)
(* The chain of a sealed payload.                                          *)
(***************************************************************************)
LEMMA OverwriteIsBlock ==
  ASSUME NEW v \in Blocks, NEW s \in Seq(Byte), NEW from \in Nat
  PROVE  Overwrite(v, s, from) \in Blocks
<1>1. ASSUME NEW i \in 1..BlockSize
      PROVE  (IF from + i <= Len(s) THEN s[from + i] ELSE v[i]) \in Byte
  <2>1. CASE from + i <= Len(s)
    <3>1. from + i \in 1..Len(s)
      BY <2>1, BlockSizeIsPositive
    <3> QED BY <2>1, <3>1
  <2>2. CASE ~(from + i <= Len(s))
    BY <2>2 DEF Blocks
  <2> QED BY <2>1, <2>2
<1> QED BY <1>1 DEF Overwrite, Blocks

\* One link of a chain c.
Link(k, h, s, c, n) ==
  Cipher(k, IF n = 0 THEN h ELSE Overwrite(c[n - 1], s, (n - 1) * BlockSize))

LEMMA LinkIsBlock ==
  ASSUME NEW k \in Keys, NEW h \in Blocks, NEW s \in Seq(Byte), NEW n \in Nat, NEW c,
         n > 0 => c[n - 1] \in Blocks
  PROVE  Link(k, h, s, c, n) \in Blocks
<1>1. CASE n = 0
  BY <1>1, CipherAssumption DEF Link
<1>2. CASE n > 0
  <2>1. (n - 1) * BlockSize \in Nat
    BY <1>2, BlockSizeIsPositive
  <2>2. Overwrite(c[n - 1], s, (n - 1) * BlockSize) \in Blocks
    BY <1>2, <2>1, OverwriteIsBlock
  <2> QED BY <1>2, <2>2, CipherAssumption DEF Link
<1> QED BY <1>1, <1>2

\* There is a chain of any length.
LEMMA ChainExists ==
  ASSUME NEW k \in Keys, NEW h \in Blocks, NEW s \in Seq(Byte), NEW n \in Nat
  PROVE  \E c \in [0..n -> Blocks] : \A m \in 0..n : c[m] = Link(k, h, s, c, m)
<1> DEFINE IsChain(c, l) == c \in [0..l -> Blocks] /\ \A m \in 0..l : c[m] = Link(k, h, s, c, m)
           S == {l \in Nat : \E c : IsChain(c, l)}
<1>1. 0 \in S
  <2> DEFINE c == [m \in 0..0 |-> Link(k, h, s, h, 0)]
  <2>1. Link(k, h, s, h, 0) \in Blocks
    BY LinkIsBlock
  <2>2. c \in [0..0 -> Blocks] /\ c[0] = Link(k, h, s, h, 0)
    BY <2>1
  <2>3. Link(k, h, s, h, 0) = Link(k, h, s, c, 0)
    BY DEF Link
  <2>4. IsChain(c, 0)
    BY <2>2, <2>3
  <2> QED BY <2>4
<1>2. ASSUME NEW l \in Nat, l \in S PROVE l + 1 \in S
  <2>1. PICK c : IsChain(c, l)
    BY <1>2
  <2> DEFINE new == Link(k, h, s, c, l + 1)
             d == [m \in 0..(l + 1) |-> IF m = l + 1 THEN new ELSE c[m]]
  <2>2. new \in Blocks
    BY <2>1, LinkIsBlock
  <2>3. \A m \in 0..(l + 1) : Link(k, h, s, d, m) = Link(k, h, s, c, m)
    BY DEF Link
  <2>4. d \in [0..(l + 1) -> Blocks]
    BY <2>1, <2>2
  <2>5. ASSUME NEW m \in 0..(l + 1) PROVE d[m] = Link(k, h, s, d, m)
    <3>1. CASE m = l + 1
      BY <3>1, <2>3
    <3>2. CASE m \in 0..l
      <4>1. d[m] = c[m] /\ c[m] = Link(k, h, s, c, m)
        BY <2>1, <3>2
      <4> QED BY <4>1, <2>3
    <3> QED BY <3>1, <3>2
  <2>6. IsChain(d, l + 1)
    BY <2>4, <2>5
  <2> HIDE DEF IsChain, d
  <2> QED BY <2>6
<1> HIDE DEF S
<1>3. n \in S
  BY <1>1, <1>2, SetInduction
<1> QED BY <1>3 DEF S

\* What Chain is: each link is the cipher of its vector.
LEMMA ChainIs ==
  ASSUME NEW k \in Keys, NEW h \in Blocks, NEW s \in Seq(Byte)
  PROVE  /\ Chain(k, h, s) \in [0..Len(s) -> Blocks]
         /\ \A n \in 0..Len(s) : /\ VectorOf(k, h, s, n) \in Blocks
                                 /\ Chain(k, h, s)[n] = Cipher(k, VectorOf(k, h, s, n))
<1> DEFINE Is(c) == c = [n \in 0..Len(s) |-> Link(k, h, s, c, n)]
<1>1. Len(s) \in Nat
  OBVIOUS
<1>2. PICK c \in [0..Len(s) -> Blocks] : \A m \in 0..Len(s) : c[m] = Link(k, h, s, c, m)
  BY <1>1, ChainExists
<1>3. Is(c)
  BY <1>2
<1>4. Chain(k, h, s) = CHOOSE d : Is(d)
  BY DEF Chain, Link
<1>5. Is(Chain(k, h, s))
  <2> HIDE DEF Is
  <2> QED BY <1>3, <1>4
<1> DEFINE chain == Chain(k, h, s)
<1>6. \A n \in 0..Len(s) : chain[n] = Link(k, h, s, chain, n)
  BY <1>5
<1> HIDE DEF chain
<1> DEFINE S == {n \in Nat : n <= Len(s) => chain[n] \in Blocks}
<1>7. 0 \in S
  BY <1>6, LinkIsBlock, <1>1
<1>8. ASSUME NEW n \in Nat, n \in S PROVE n + 1 \in S
  <2> SUFFICES ASSUME n + 1 <= Len(s) PROVE chain[n + 1] \in Blocks
    OBVIOUS
  <2>1. chain[(n + 1) - 1] \in Blocks
    BY <1>8, <1>1
  <2>2. Link(k, h, s, chain, n + 1) \in Blocks
    BY <2>1, LinkIsBlock
  <2> QED BY <1>6, <1>1, <2>2
<1> HIDE DEF S
<1>9. \A n \in Nat : n \in S
  BY <1>7, <1>8, SetInduction
<1>10. \A n \in 0..Len(s) : chain[n] \in Blocks
  BY <1>9, <1>1 DEF S
<1>11. chain \in [0..Len(s) -> Blocks]
  BY <1>5, <1>10 DEF chain
<1>12. \A n \in 0..Len(s) : chain[n] = Cipher(k, VectorOf(k, h, s, n))
  BY <1>6 DEF Link, VectorOf, chain
<1>13. ASSUME NEW n \in 0..Len(s) PROVE VectorOf(k, h, s, n) \in Blocks
  <2>1. CASE n = 0
    BY <2>1 DEF VectorOf
  <2>2. CASE n > 0
    <3>1. (n - 1) * BlockSize \in Nat /\ n - 1 \in 0..Len(s)
      BY <2>2, BlockSizeIsPositive, <1>1
    <3>2. Overwrite(chain[n - 1], s, (n - 1) * BlockSize) \in Blocks
      BY <3>1, <1>10, OverwriteIsBlock
    <3> QED BY <2>2, <3>2 DEF VectorOf, chain
  <2> QED BY <1>1, <2>1, <2>2
<1> QED BY <1>11, <1>12, <1>13 DEF chain

LEMMA VectorIsBlock ==
  ASSUME NEW k \in Keys, NEW h \in Blocks, NEW s \in Seq(Byte), NEW n \in 0..Len(s)
  PROVE  VectorOf(k, h, s, n + 1) \in Blocks
<1>1. (n + 1) - 1 = n /\ n + 1 # 0 /\ n * BlockSize \in Nat
  BY BlockSizeIsPositive
<1>2. Chain(k, h, s)[n] \in Blocks
  BY ChainIs
<1> QED BY <1>1, <1>2, OverwriteIsBlock DEF VectorOf

SameBlocks(s, t, n) ==
  Len(s) = Len(t) /\ \A i \in 1..Len(s) : i <= n * BlockSize => s[i] = t[i]

\* The first blocks of the chain depend on the bytes of the blocks before only.
LEMMA ChainOfPrefix ==
  ASSUME NEW k \in Keys, NEW h \in Blocks, NEW s \in Seq(Byte), NEW t \in Seq(Byte),
         NEW n \in Nat, SameBlocks(s, t, n), NEW m \in 0..n, m <= Len(s)
  PROVE  Chain(k, h, s)[m] = Chain(k, h, t)[m]
<1> DEFINE Same(l) == /\ VectorOf(k, h, s, l) = VectorOf(k, h, t, l)
                      /\ Chain(k, h, s)[l] = Chain(k, h, t)[l]
           S == {l \in Nat : l <= n /\ l <= Len(s) => Same(l)}
<1>a. Len(s) = Len(t) /\ \A i \in 1..Len(s) : i <= n * BlockSize => s[i] = t[i]
  BY DEF SameBlocks
<1> USE <1>a
<1>0. Len(s) \in Nat
  OBVIOUS
<1>1. ASSUME NEW l \in 0..Len(s), VectorOf(k, h, s, l) = VectorOf(k, h, t, l)
      PROVE  Same(l)
  BY <1>1, ChainIs
<1>2. 0 \in S
  BY <1>0, <1>1 DEF VectorOf
<1>3. ASSUME NEW l \in Nat, l \in S PROVE l + 1 \in S
  <2> SUFFICES ASSUME l + 1 <= n, l + 1 <= Len(s) PROVE Same(l + 1)
    OBVIOUS
  <2>1. Same(l)
    BY <1>3, <1>0
  <2>2. l * BlockSize \in Nat /\ (l + 1) * BlockSize <= n * BlockSize
        /\ (l + 1) * BlockSize = l * BlockSize + BlockSize
    BY BlockSizeIsPositive
  <2>3. ASSUME NEW i \in 1..BlockSize, l * BlockSize + i <= Len(s)
        PROVE  s[l * BlockSize + i] = t[l * BlockSize + i]
    <3> DEFINE from == l * BlockSize
    <3>1. from + i \in 1..Len(s)
      BY <2>2, <2>3, BlockSizeIsPositive
    <3>2. from + i <= n * BlockSize
      BY <2>2, BlockSizeIsPositive
    <3> HIDE DEF from
    <3>3. s[from + i] = t[from + i]
      BY <3>1, <3>2
    <3> QED BY <3>3 DEF from
  <2>4. \A v : Overwrite(v, s, l * BlockSize) = Overwrite(v, t, l * BlockSize)
    BY <2>3 DEF Overwrite
  <2>5. (l + 1) - 1 = l /\ l + 1 # 0
    OBVIOUS
  <2>6. VectorOf(k, h, s, l + 1) = VectorOf(k, h, t, l + 1)
    BY <2>1, <2>4, <2>5 DEF VectorOf
  <2> QED BY <2>6, <1>1, <1>0
<1> HIDE DEF S
<1>4. \A l \in Nat : l \in S
  BY <1>2, <1>3, SetInduction
<1> QED BY <1>4 DEF S

-----------------------------------------------------------------------------
(***************************************************************************)
(* One block, of a payload being sealed and of one being opened.           *)
(***************************************************************************)
LEMMA TextsAreSequences ==
  ASSUME NEW n \in Nat, NEW s \in Texts(n)
  PROVE  s \in Seq(Byte) /\ Len(s) = n
BY DEF Texts

\* The bytes of block n, of which there are b.
LEMMA BytesOfBlock ==
  ASSUME NEW n \in Nat, NEW b \in 0..BlockSize, NEW i \in Nat, i > n * BlockSize, i <= n * BlockSize + b
  PROVE  /\ i - n * BlockSize \in 1..BlockSize
         /\ (i - 1) \div BlockSize = n
         /\ ((i - 1) % BlockSize) + 1 = i - n * BlockSize
<1> DEFINE from == n * BlockSize
<1>1. from \in Nat
  BY BlockSizeIsPositive
<1>2. i - from \in 1..BlockSize /\ i - 1 = from + (i - from) - 1
  BY <1>1, BlockSizeIsPositive
<1>3. (from + (i - from) - 1) \div BlockSize = n /\ ((from + (i - from) - 1) % BlockSize) + 1 = i - from
  BY <1>2, ByteOfBlock
<1> HIDE DEF from
<1>4. (i - 1) \div BlockSize = n /\ ((i - 1) % BlockSize) + 1 = i - from
  BY <1>2, <1>3
<1> QED BY <1>2, <1>4 DEF from

\* How many bytes there are before a block that is worked on, and in it.
LEMMA BlockIsInPayload ==
  ASSUME NEW n \in Nat, NEW sz \in Nat, NEW len \in Nat, n * BlockSize + sz = len, n > 0 => sz > 0,
         NEW b, b = IF sz < BlockSize THEN sz ELSE BlockSize
  PROVE  /\ n * BlockSize \in Nat /\ n \in 0..len /\ b \in 0..BlockSize
         /\ \A i \in 1..BlockSize : i > b <=> n * BlockSize + i > len
<1> DEFINE from == n * BlockSize
<1>1. from \in Nat /\ n <= from
  BY BlockSizeIsPositive
<1> HIDE DEF from
<1>2. from + sz = len
  BY DEF from
<1>3. from \in Nat /\ n \in 0..len /\ b \in 0..BlockSize
      /\ \A i \in 1..BlockSize : i > b <=> from + i > len
  BY <1>1, <1>2, BlockSizeIsPositive
<1> QED BY <1>3 DEF from

\* The bytes of a block of which sz are left, and the text with one block added to the chain.
BytesOf(sz) == IF sz < BlockSize THEN sz ELSE BlockSize
Added(text, v, from, b) ==
  [i \in 1..Len(text) |-> IF i > from /\ i <= from + b THEN Xor(text[i], v[i - from]) ELSE text[i]]

\* The vector takes the bytes of the block, as they are sealed.
Advanced(v, new, from, b, sealing) ==
  [i \in 1..BlockSize |-> IF i > b THEN v[i]
                          ELSE IF sealing THEN new[from + i] ELSE Xor(v[i], new[from + i])]

\* The sealed bytes of block n are added to the chain; the vector takes them.
LEMMA SealBlock ==
  ASSUME NEW f \in Frames,
         NEW n \in Nat, NEW sz \in Nat, n * BlockSize + sz = Len(f.plain), n > 0 => sz > 0,
         SealedUpTo(f.key, f.header, f.plain, f.text, n * BlockSize)
  PROVE  LET b   == BytesOf(sz)
             v   == Chain(f.key, f.header, f.text)[n]
             new == Added(f.text, v, n * BlockSize, b)
         IN  /\ new \in Seq(Byte)
             /\ SealedUpTo(f.key, f.header, f.plain, new, n * BlockSize + b)
             /\ VectorOf(f.key, f.header, new, n + 1) = Advanced(v, new, n * BlockSize, b, TRUE)
<1> DEFINE k == f.key
           h == f.header
           plain == f.plain
           text == f.text
           from == n * BlockSize
           b == BytesOf(sz)
           v == Chain(k, h, text)[n]
           new == Added(text, v, n * BlockSize, b)
<1>f. /\ k \in Keys /\ h \in Blocks /\ plain \in Seq(Byte) /\ text \in Seq(Byte)
      /\ n * BlockSize + sz = Len(plain)
  BY DEF Frames
<1>0. /\ b = IF sz < BlockSize THEN sz ELSE BlockSize
      /\ v = Chain(k, h, text)[n]
      /\ new = [i \in 1..Len(text) |->
                  IF i > n * BlockSize /\ i <= n * BlockSize + b
                    THEN Xor(text[i], v[i - n * BlockSize]) ELSE text[i]]
  BY DEF BytesOf, Added
<1> HIDE DEF b, v, new, k, h, plain, text
<1>a. /\ Len(text) = Len(plain)
      /\ \A i \in 1..Len(plain) :
           text[i] = IF i <= n * BlockSize THEN SealedByte(k, h, text, plain, i) ELSE plain[i]
  BY DEF SealedUpTo, k, h, plain, text
<1> USE <1>0, <1>a, <1>f
<1>1. Len(plain) \in Nat /\ from \in Nat /\ n \in 0..Len(plain) /\ b \in 0..BlockSize
      /\ \A i \in 1..BlockSize : i > b <=> from + i > Len(plain)
  <2>1. Len(plain) \in Nat
    OBVIOUS
  <2> QED BY <2>1, BlockIsInPayload
<1>2. v \in Blocks
  BY <1>1, ChainIs
<1>3. ASSUME NEW i \in 1..Len(plain), i > from, i <= from + b
      PROVE  /\ i - from \in 1..BlockSize
             /\ (i - 1) \div BlockSize = n /\ ((i - 1) % BlockSize) + 1 = i - from
  BY <1>1, <1>3, BytesOfBlock
<1>4. ASSUME NEW i \in 1..Len(plain)
      PROVE  (IF i > from /\ i <= from + b THEN Xor(text[i], v[i - from]) ELSE text[i]) \in Byte
  <2>1. text[i] \in Byte
    OBVIOUS
  <2>2. CASE i > from /\ i <= from + b
    <3>1. v[i - from] \in Byte
      BY <1>2, <1>3, <2>2 DEF Blocks
    <3> QED BY <2>1, <2>2, <3>1, XorIsBit
  <2> QED BY <2>1, <2>2
<1>5. new \in Seq(Byte) /\ Len(new) = Len(plain)
  <2>1. new \in Texts(Len(plain))
    BY <1>4 DEF Texts
  <2> QED BY <1>1, <2>1, TextsAreSequences
<1>6. \A i \in 1..Len(new) : i <= from => new[i] = text[i]
  BY <1>1, <1>5
<1>7. \A m \in 0..n : Chain(k, h, new)[m] = Chain(k, h, text)[m]
  <2>1. \A i \in 1..Len(new) : i <= n * BlockSize => new[i] = text[i]
    BY <1>6
  <2>2. new \in Seq(Byte) /\ Len(new) = Len(text)
    BY <1>5
  <2>3. SameBlocks(new, text, n)
    BY <2>1, <2>2 DEF SameBlocks
  <2>4. \A m \in 0..n : m <= Len(new)
    BY <1>1, <1>5
  <2>5. ASSUME NEW m \in 0..n PROVE Chain(k, h, new)[m] = Chain(k, h, text)[m]
    <3>1. k \in Keys /\ h \in Blocks /\ text \in Seq(Byte) /\ n \in Nat
      OBVIOUS
    <3>2. new \in Seq(Byte) /\ m \in 0..n /\ m <= Len(new)
      BY <2>2, <2>4
    <3> QED BY ONLY <3>1, <3>2, <2>3, ChainOfPrefix
  <2> QED BY <2>5
<1>8. ASSUME NEW i \in 1..Len(plain)
      PROVE  new[i] = IF i <= from + b THEN SealedByte(k, h, new, plain, i) ELSE plain[i]
  <2>1. CASE i <= from
    <3>1. (i - 1) \div BlockSize \in 0..n
      <4>1. i \in Nat /\ i > 0 /\ i <= n * BlockSize
        BY <2>1
      <4>2. (i - 1) \div BlockSize \in Nat /\ (i - 1) \div BlockSize < n
        BY <4>1, BlockOfByte
      <4> QED BY <4>2
    <3>2. SealedByte(k, h, new, plain, i) = SealedByte(k, h, text, plain, i)
      BY <3>1, <1>7 DEF SealedByte
    <3>3. new[i] = SealedByte(k, h, text, plain, i)
      BY <2>1, <1>6, <1>5
    <3> QED BY <2>1, <3>2, <3>3, <1>1
  <2>2. CASE i > from /\ i <= from + b
    <3>1. new[i] = Xor(text[i], v[i - from]) /\ text[i] = plain[i]
      BY <2>2, <1>1
    <3>2. SealedByte(k, h, new, plain, i) = Xor(plain[i], Chain(k, h, new)[n][i - from])
      BY <2>2, <1>3 DEF SealedByte
    <3>3. Chain(k, h, new)[n] = v
      BY <1>7, <1>1
    <3> QED BY <2>2, <3>1, <3>2, <3>3
  <2>3. CASE i > from + b
    <3>1. new[i] = text[i]
      BY <2>3, <1>1
    <3>2. text[i] = plain[i]
      BY <2>3, <1>1
    <3> QED BY <2>3, <3>1, <3>2, <1>1
  <2> QED BY <1>1, <2>1, <2>2, <2>3
<1>9. VectorOf(k, h, new, n + 1) = [i \in 1..BlockSize |-> IF i > b THEN v[i] ELSE new[from + i]]
  <2>1. (n + 1) - 1 = n /\ n + 1 # 0 /\ Chain(k, h, new)[n] = v
    BY <1>1, <1>7
  <2>2. VectorOf(k, h, new, n + 1) = Overwrite(v, new, from)
    BY <2>1 DEF VectorOf
  <2> HIDE DEF from
  <2>3. \A i \in 1..BlockSize : (from + i <= Len(new)) <=> ~(i > b)
    BY <1>1, <1>5
  <2> QED BY <2>2, <2>3 DEF Overwrite
<1> QED BY <1>5, <1>8, <1>9 DEF k, h, plain, text, b, v, new, SealedUpTo, Advanced

\* The chain is taken off the bytes of block n; the vector takes them as they were.
LEMMA OpenBlock ==
  ASSUME NEW f \in Frames, NEW s, IsSealedFrame(f, s),
         NEW n \in Nat, NEW sz \in Nat, n * BlockSize + sz = Len(f.plain), n > 0 => sz > 0,
         OpenedUpTo(f.plain, s, Mic(f.key, f.header, s), f.text, n * BlockSize)
  PROVE  LET b   == BytesOf(sz)
             v   == Chain(f.key, f.header, s)[n]
             new == Added(f.text, v, n * BlockSize, b)
         IN  /\ new \in Seq(Byte)
             /\ OpenedUpTo(f.plain, s, Mic(f.key, f.header, s), new, n * BlockSize + b)
             /\ VectorOf(f.key, f.header, s, n + 1) = Advanced(v, new, n * BlockSize, b, FALSE)
<1> DEFINE k == f.key
           h == f.header
           plain == f.plain
           text == f.text
           from == n * BlockSize
           mic == Mic(k, h, s)
           b == BytesOf(sz)
           v == Chain(k, h, s)[n]
           new == Added(text, v, n * BlockSize, b)
<1>f. /\ k \in Keys /\ h \in Blocks /\ plain \in Seq(Byte) /\ text \in Seq(Byte)
      /\ s \in Texts(Len(plain)) /\ IsSealed(k, h, plain, s)
      /\ n * BlockSize + sz = Len(plain)
  BY DEF Frames, IsSealedFrame
<1>0. /\ b = IF sz < BlockSize THEN sz ELSE BlockSize
      /\ v = Chain(k, h, s)[n]
      /\ new = [i \in 1..Len(text) |->
                  IF i > n * BlockSize /\ i <= n * BlockSize + b
                    THEN Xor(text[i], v[i - n * BlockSize]) ELSE text[i]]
  BY DEF BytesOf, Added
<1> HIDE DEF b, v, new, mic, k, h, plain, text
<1>a. /\ Len(text) = Len(plain) + 1 /\ text[Len(plain) + 1] = mic
      /\ \A i \in 1..Len(plain) : text[i] = IF i <= n * BlockSize THEN plain[i] ELSE s[i]
  BY DEF OpenedUpTo, mic, k, h, plain, text
<1> USE <1>0, <1>a, <1>f
<1>1. Len(plain) \in Nat /\ from \in Nat /\ n \in 0..Len(plain) /\ b \in 0..BlockSize
      /\ \A i \in 1..BlockSize : i > b <=> from + i > Len(plain)
  <2>1. Len(plain) \in Nat
    OBVIOUS
  <2> QED BY <2>1, BlockIsInPayload
<1>2. s \in Seq(Byte) /\ Len(s) = Len(plain)
  BY <1>1, TextsAreSequences
<1>3. v \in Blocks
  BY <1>1, <1>2, ChainIs
<1>4. from + b <= Len(plain)
  <2> HIDE DEF from
  <2>1. from + sz = Len(plain)
    BY DEF from
  <2> QED BY <2>1, <1>1, BlockSizeIsPositive
<1>5. ASSUME NEW i \in 1..Len(plain), i > from, i <= from + b
      PROVE  /\ i - from \in 1..BlockSize
             /\ (i - 1) \div BlockSize = n /\ ((i - 1) % BlockSize) + 1 = i - from
  BY <1>1, <1>5, BytesOfBlock
<1>6. ASSUME NEW i \in 1..Len(plain), i > from, i <= from + b
      PROVE  /\ text[i] = s[i] /\ new[i] = Xor(s[i], v[i - from])
             /\ s[i] = Xor(plain[i], v[i - from])
             /\ plain[i] \in Byte /\ v[i - from] \in Byte /\ s[i] \in Byte
  <2>1. text[i] = s[i] /\ i \in 1..Len(text)
    BY <1>6, <1>1
  <2>2. new[i] = Xor(s[i], v[i - from])
    BY <1>6, <2>1
  <2>3. s[i] = Xor(plain[i], v[i - from])
    BY <1>5, <1>6 DEF IsSealed
  <2>4. v[i - from] \in Byte
    BY <1>3, <1>5, <1>6 DEF Blocks
  <2> QED BY <2>1, <2>2, <2>3, <2>4, <1>2
<1>7. ASSUME NEW i \in 1..Len(text)
      PROVE  (IF i > from /\ i <= from + b THEN Xor(text[i], v[i - from]) ELSE text[i]) \in Byte
  <2>1. text[i] \in Byte
    OBVIOUS
  <2>2. CASE i > from /\ i <= from + b
    <3>1. i \in 1..Len(plain)
      BY <2>2, <1>4, <1>1
    <3> QED BY <2>1, <2>2, <3>1, <1>6, XorIsBit
  <2> QED BY <2>1, <2>2
<1>8. new \in Seq(Byte) /\ Len(new) = Len(plain) + 1
  <2>1. new \in Texts(Len(plain) + 1)
    BY <1>7 DEF Texts
  <2> QED BY <1>1, <2>1, TextsAreSequences
<1>9. new[Len(plain) + 1] = text[Len(plain) + 1]
  BY <1>1, <1>4
<1>10. ASSUME NEW i \in 1..Len(plain)
       PROVE  new[i] = IF i <= from + b THEN plain[i] ELSE s[i]
  <2>1. CASE i > from /\ i <= from + b
    <3>1. /\ new[i] = Xor(s[i], v[i - from]) /\ s[i] = Xor(plain[i], v[i - from])
          /\ plain[i] \in Byte /\ v[i - from] \in Byte
      BY <2>1, <1>6
    <3>2. new[i] = plain[i]
      BY <3>1, XorIsBit
    <3> QED BY <2>1, <3>2
  <2>2. CASE ~(i > from /\ i <= from + b)
    <3>1. new[i] = text[i]
      BY <2>2, <1>1
    <3> QED BY <2>2, <3>1, <1>1
  <2> QED BY <2>1, <2>2
<1>11. VectorOf(k, h, s, n + 1) = [i \in 1..BlockSize |-> IF i > b THEN v[i]
                                                           ELSE Xor(v[i], new[from + i])]
  <2>1. (n + 1) - 1 = n /\ n + 1 # 0
    OBVIOUS
  <2>2. VectorOf(k, h, s, n + 1) = Overwrite(v, s, from)
    BY <2>1 DEF VectorOf
  <2> HIDE DEF from
  <2>3. \A i \in 1..BlockSize : (from + i <= Len(s)) <=> ~(i > b)
    BY <1>1, <1>2
  <2>4. ASSUME NEW i \in 1..BlockSize, ~(i > b) PROVE Xor(v[i], new[from + i]) = s[from + i]
    <3>1. from + i \in 1..Len(plain) /\ from + i > from /\ from + i <= from + b /\ (from + i) - from = i
      BY <2>4, <1>1
    <3>2. /\ new[from + i] = Xor(s[from + i], v[i])
          /\ v[i] \in Byte /\ s[from + i] \in Byte
      BY <3>1, <1>6
    <3> QED BY <3>2, XorIsBit
  <2> QED BY <2>2, <2>3, <2>4 DEF Overwrite
<1> QED BY <1>8, <1>9, <1>10, <1>11 DEF k, h, plain, text, b, v, new, mic, OpenedUpTo, Advanced

-----------------------------------------------------------------------------
(***************************************************************************)
(* The check value.                                                        *)
(***************************************************************************)
LEMMA XorAllIsByte == \A v \in Blocks : XorAll(v) \in Byte
<1> TAKE v \in Blocks
<1> DEFINE ones == {i \in DOMAIN v : v[i] = 1}
<1>1. IsFiniteSet(1..BlockSize)
  BY FS_Interval, BlockSizeIsPositive
<1>2. ones \in SUBSET (1..BlockSize)
  BY DEF Blocks
<1> HIDE DEF ones
<1>3. Cardinality(ones) \in Nat
  BY <1>1, <1>2, FS_Subset, FS_CardinalityType
<1> QED BY <1>3 DEF XorAll, Byte, ones

LEMMA LastBlockIs ==
  ASSUME NEW s \in Seq(Byte)
  PROVE  /\ LastBlock(s) \in 0..Len(s)
         /\ \A t \in Seq(Byte) : Len(t) = Len(s) => LastBlock(t) = LastBlock(s)
<1>1. Len(s) \in Nat /\ (s = <<>> <=> Len(s) = 0)
  OBVIOUS
<1>2. \A t \in Seq(Byte) : t = <<>> <=> Len(t) = 0
  OBVIOUS
<1>3. CASE Len(s) = 0
  BY <1>1, <1>2, <1>3 DEF LastBlock
<1>4. CASE Len(s) > 0
  <2>1. (Len(s) - 1) \div BlockSize \in Nat /\ (Len(s) - 1) \div BlockSize <= Len(s) - 1
    BY <1>1, <1>4, BlockOfByte
  <2> QED BY <1>1, <1>2, <1>4, <2>1 DEF LastBlock
<1> QED BY <1>1, <1>3, <1>4

\* The MIC is made of the vector behind the last block.
LEMMA MicIs ==
  ASSUME NEW k \in Keys, NEW h \in Blocks, NEW s \in Seq(Byte)
  PROVE  /\ Mic(k, h, s) = XorAll(VectorOf(k, h, s, LastBlock(s) + 1))
         /\ Mic(k, h, s) \in Byte
<1> DEFINE last == LastBlock(s)
<1>1. last \in 0..Len(s) /\ Len(s) \in Nat
  BY LastBlockIs
<1> HIDE DEF last
<1>2. (last + 1) - 1 = last /\ last + 1 # 0
  BY <1>1
<1>3. Chain(k, h, s)[last] \in Blocks
  BY <1>1, ChainIs
<1>4. last * BlockSize \in Nat
  BY <1>1, BlockSizeIsPositive
<1>5. Overwrite(Chain(k, h, s)[last], s, last * BlockSize) \in Blocks
  BY <1>3, <1>4, OverwriteIsBlock
<1>6. VectorOf(k, h, s, last + 1) = Overwrite(Chain(k, h, s)[last], s, last * BlockSize)
  BY <1>2 DEF VectorOf
<1>7. Mic(k, h, s) = XorAll(Overwrite(Chain(k, h, s)[last], s, last * BlockSize))
  BY DEF Mic, last
<1> QED BY <1>5, <1>6, <1>7, XorAllIsByte DEF last

-----------------------------------------------------------------------------
(***************************************************************************)
(* A step that changes one frame.                                          *)
(***************************************************************************)
LEMMA PayloadsAreRight == PayloadsRight <=> \A s \in Slots : PayloadRight(frames[s])
BY DEF PayloadsRight, PayloadRight

LEMMA SlotsAreFinite == IsFiniteSet(Slots) /\ Cardinality(Slots) \in Nat
BY FS_Interval, FS_CardinalityType, SecurityAssumption DEF Slots

LEMMA NoneIsNoSlot == None \notin Slots
BY SecurityAssumption DEF None, Slots

LEMMA FreeIsFrame ==
  ASSUME Keys # {}
  PROVE  Free \in Frames /\ Free.state = "FREE" /\ Free.header \in Blocks
<1>1. Free.header \in Headers
  BY SecurityAssumption DEF Free
<1>2. Free.key \in Keys
  BY DEF Free
<1>3. Free.header \in Blocks
  BY <1>1, SecurityAssumption DEF Blocks, Byte
<1>4. Free.text \in Seq(Byte) /\ Free.plain \in Seq(Byte) /\ Free.state = "FREE"
  BY DEF Free
<1>5. Free = [state |-> Free.state, key |-> Free.key, header |-> Free.header,
              text |-> Free.text, plain |-> Free.plain]
  BY DEF Free
<1> QED BY <1>2, <1>3, <1>4, <1>5 DEF Frames, States

LEMMA ModuleIsFinite ==
  ASSUME NEW f
  PROVE  LET in == {s \in Slots : f[s].state \in Pending \cup Working}
         IN IsFiniteSet(in) /\ Cardinality(in) \in 0..Cardinality(Slots)
<1> DEFINE in == {s \in Slots : f[s].state \in Pending \cup Working}
<1>1. in \in SUBSET Slots
  OBVIOUS
<1> HIDE DEF in
<1>2. IsFiniteSet(in) /\ Cardinality(in) <= Cardinality(Slots)
  BY <1>1, SlotsAreFinite, FS_Subset
<1>3. Cardinality(in) \in Nat
  BY <1>2, FS_CardinalityType
<1>4. IsFiniteSet(in) /\ Cardinality(in) \in 0..Cardinality(Slots)
  BY <1>2, <1>3, SlotsAreFinite
<1> QED BY <1>4 DEF in

\* The count follows the frame that enters or leaves the module.
LEMMA CountFollows ==
  ASSUME Typed, CountExact, NEW s \in Slots, NEW g \in Frames, frames' = [frames EXCEPT ![s] = g],
         activeFrames' = activeFrames + (IF g.state \in Pending \cup Working THEN 1 ELSE 0)
                                      - (IF frames[s].state \in Pending \cup Working THEN 1 ELSE 0)
  PROVE  activeFrames' = Cardinality(InModule') /\ activeFrames' \in 0..Cardinality(Slots)
<1> DEFINE in(f) == f.state \in Pending \cup Working
<1>1. activeFrames = Cardinality(InModule) /\ frames \in [Slots -> Frames]
  BY DEF CountExact, InModule, Typed
<1>2. IsFiniteSet(InModule) /\ activeFrames \in Nat
  <2>1. IsFiniteSet(InModule) /\ Cardinality(InModule) \in 0..Cardinality(Slots)
    BY ModuleIsFinite DEF InModule
  <2> QED BY <1>1, <2>1, SlotsAreFinite
<1>3. frames' \in [Slots -> Frames] /\ \A t \in Slots : frames'[t] = IF t = s THEN g ELSE frames[t]
  BY <1>1
<1>6. Cardinality(InModule') \in 0..Cardinality(Slots)
  BY ModuleIsFinite DEF InModule
<1>4. CASE in(g)
  <2>1. InModule' = InModule \cup {s}
    BY <1>3, <1>4 DEF InModule
  <2>2. Cardinality(InModule') = IF s \in InModule THEN activeFrames ELSE activeFrames + 1
    BY <1>1, <1>2, <2>1, FS_AddElement
  <2>3. activeFrames' = Cardinality(InModule')
    BY <1>2, <1>4, <2>2 DEF InModule
  <2> QED BY <2>3, <1>6
<1>5. CASE ~in(g)
  <2>1. InModule' = InModule \ {s}
    BY <1>3, <1>5 DEF InModule
  <2>2. Cardinality(InModule') = IF s \in InModule THEN activeFrames - 1 ELSE activeFrames
    BY <1>1, <1>2, <2>1, FS_RemoveElement
  <2>3. activeFrames' = Cardinality(InModule')
    BY <1>2, <1>5, <2>2 DEF InModule
  <2> QED BY <2>3, <1>6
<1> QED BY <1>4, <1>5

\* What a step that changes the frame of slot s to g has to show.
LEMMA OneFrameChanges ==
  ASSUME Typed, CountExact, KeyOfFrames, Waiting, PayloadsRight,
         NEW s \in Slots, NEW g \in Frames, frames' = [frames EXCEPT ![s] = g],
         activeFrames' = activeFrames + (IF g.state \in Pending \cup Working THEN 1 ELSE 0)
                                      - (IF frames[s].state \in Pending \cup Working THEN 1 ELSE 0),
         key' = key, g.state \in Pending \cup Working => g.key = key,
         FrameWaits(g), PayloadRight(g),
         active' = IF g.state \in Working THEN s ELSE IF active = s THEN None ELSE active,
         g.state \in Working => active \in {None, s},
         size' \in Nat, offset' \in Nat, encrypt' \in BOOLEAN, vector' \in Blocks,
         handed' \in 0..MaxFrames
  PROVE  Typed' /\ CountExact' /\ KeyOfFrames' /\ Waiting' /\ PayloadsRight'
<1>1. activeFrames' = Cardinality(InModule') /\ activeFrames' \in 0..Cardinality(Slots)
  BY CountFollows
<1>2. frames \in [Slots -> Frames] /\ key \in Keys /\ active \in Slots \cup {None}
  BY DEF Typed, TypeOK
<1>3. frames' \in [Slots -> Frames] /\ \A t \in Slots : frames'[t] = IF t = s THEN g ELSE frames[t]
  BY <1>2
<1>4. active' \in Slots \cup {None}
  BY <1>2
<1>5. Typed'
  BY <1>1, <1>2, <1>3, <1>4 DEF Typed, TypeOK
<1>6. \A t \in Slots : frames'[t].state \in Working <=> t = active'
  <2>1. \A t \in Slots : frames[t].state \in Working <=> t = active
    BY DEF CountExact
  <2> QED BY <1>3, <2>1, NoneIsNoSlot
<1>7. CountExact'
  BY <1>1, <1>6 DEF CountExact, InModule
<1>8. KeyOfFrames'
  BY <1>3 DEF KeyOfFrames, InModule
<1>9. Waiting'
  BY <1>3 DEF Waiting
<1>10. PayloadsRight'
  <2>1. \A t \in Slots : PayloadRight(frames[t])
    BY PayloadsAreRight
  <2>2. \A t \in Slots : PayloadRight(frames'[t])
    BY <1>3, <2>1
  <2> QED BY <2>2 DEF PayloadsRight, PayloadRight
<1> QED BY <1>5, <1>7, <1>8, <1>9, <1>10

-----------------------------------------------------------------------------
(***************************************************************************)
(* Each action keeps the invariant.                                        *)
(***************************************************************************)
LEMMA InitInv == Init => Inv
<1> SUFFICES ASSUME Init PROVE Inv
  OBVIOUS
<1>1. key \in Keys /\ Keys # {}
  BY DEF Init
<1>2. Free \in Frames /\ Free.state = "FREE" /\ Free.header \in Blocks
  BY <1>1, FreeIsFrame
<1> HIDE DEF Free
<1>3. frames \in [Slots -> Frames] /\ \A s \in Slots : frames[s] = Free
  BY <1>2 DEF Init
<1>4. \A s \in Slots : frames[s].state \notin Pending \cup Working \cup Returned
  BY <1>2, <1>3 DEF Pending, Working, Returned
<1>5. Typed
  <2>1. 0 \in 0..MaxFrames /\ 0 \in 0..Cardinality(Slots)
    BY SlotsAreFinite, SecurityAssumption
  <2>2. vector \in Blocks
    BY <1>2 DEF Init
  <2>3. {size, offset} \subseteq Nat /\ active \in Slots \cup {None}
    BY DEF Init
  <2>5. encrypt \in BOOLEAN
    BY Zenon DEF Init
  <2>4. handed \in 0..MaxFrames /\ activeFrames \in 0..Cardinality(Slots)
    BY <2>1 DEF Init
  <2> QED BY <1>1, <1>3, <2>2, <2>3, <2>4, <2>5 DEF Typed, TypeOK
<1>6. InModule = {} /\ KeyOfFrames
  BY <1>4 DEF InModule, KeyOfFrames
<1>7. CountExact
  <2>1. Cardinality(InModule) = 0
    BY <1>6, FS_EmptySet
  <2> QED BY <1>4, <2>1, NoneIsNoSlot DEF CountExact, InModule, Init
<1>8. Waiting
  BY <1>4 DEF Waiting, FrameWaits, Pending
<1>9. InWork
  BY DEF InWork, Init
<1>10. PayloadsRight
  BY <1>4 DEF PayloadsRight, Returned
<1> QED BY <1>5, <1>6, <1>7, <1>8, <1>9, <1>10 DEF Inv

\* The frame worked on is left alone by what changes another.
LEMMA WorkUntouched ==
  ASSUME Inv, NEW s \in Slots, s # active, NEW g, frames' = [frames EXCEPT ![s] = g],
         UNCHANGED <<active, progress>>
  PROVE  InWork'
<1> SUFFICES ASSUME active # None PROVE InWork'
  BY DEF InWork
<1>1. active \in Slots /\ frames \in [Slots -> Frames]
  BY DEF Inv, Typed, TypeOK
<1>2. frames'[active] = frames[active] /\ active' = active
  BY <1>1
<1>3. UNCHANGED <<size, offset, encrypt, vector>>
  BY DEF progress
<1> QED BY <1>2, <1>3 DEF Inv, InWork, Counted, SealingTo, OpeningTo

LEMMA SetKeyInv ==
  ASSUME Inv, NEW k \in Keys, NWK_SetSecurityKey(k)
  PROVE  Inv'
<1>1. UNCHANGED <<frames, activeFrames, active, progress, handed>> /\ key' = k /\ activeFrames = 0
  BY DEF NWK_SetSecurityKey
<1>2. Cardinality(InModule) = 0 /\ IsFiniteSet(InModule)
  BY <1>1, ModuleIsFinite DEF Inv, CountExact, InModule
<1>3. InModule = {}
  BY <1>2, FS_EmptySet
<1>4. KeyOfFrames'
  BY <1>1, <1>3 DEF KeyOfFrames, InModule
<1>5. Typed' /\ CountExact' /\ Waiting' /\ PayloadsRight'
  BY <1>1 DEF Inv, Typed, TypeOK, CountExact, Waiting, PayloadsRight, progress
<1>6. InWork'
  BY <1>1 DEF Inv, InWork, progress, Counted, SealingTo, OpeningTo
<1> QED BY <1>4, <1>5, <1>6 DEF Inv

\* A frame handed over, of either side.
LEMMA HandOver ==
  ASSUME Inv, NEW s \in Slots, NEW g \in Frames, nwkSecurityProcess(s, g),
         g.state \in Pending, g.key = key, FrameWaits(g)
  PROVE  Inv'
<1>1. /\ frames[s].state = "FREE" /\ frames' = [frames EXCEPT ![s] = g]
      /\ activeFrames' = activeFrames + 1 /\ handed < MaxFrames /\ handed' = handed + 1
      /\ key' = key /\ active' = active
      /\ UNCHANGED <<size, offset, encrypt, vector>>
  BY DEF nwkSecurityProcess, progress
<1>2. Typed /\ CountExact /\ KeyOfFrames /\ Waiting /\ PayloadsRight
  BY DEF Inv
<1>3. g.state \notin Working /\ g.state \notin Returned /\ frames[s].state \notin Pending \cup Working
  BY <1>1 DEF Pending, Working, Returned
<1>4. s # active
  BY <1>2, <1>3 DEF CountExact
<1>5. activeFrames \in Int
  BY <1>2, SlotsAreFinite DEF Typed, TypeOK
<1>6. activeFrames' = activeFrames + (IF g.state \in Pending \cup Working THEN 1 ELSE 0)
                                   - (IF frames[s].state \in Pending \cup Working THEN 1 ELSE 0)
  BY <1>1, <1>3, <1>5
<1>7. PayloadRight(g)
  BY <1>3 DEF PayloadRight, Returned
<1>8. /\ size' \in Nat /\ offset' \in Nat /\ encrypt' \in BOOLEAN /\ vector' \in Blocks
      /\ handed' \in 0..MaxFrames
  BY <1>1, <1>2, SecurityAssumption DEF Typed, TypeOK
<1>9. active' = IF g.state \in Working THEN s ELSE IF active = s THEN None ELSE active
  BY <1>1, <1>3, <1>4
<1>10. Typed' /\ CountExact' /\ KeyOfFrames' /\ Waiting' /\ PayloadsRight'
  BY <1>1, <1>2, <1>3, <1>6, <1>7, <1>8, <1>9, OneFrameChanges
<1>11. InWork'
  BY <1>1, <1>4, WorkUntouched DEF progress
<1> QED BY <1>10, <1>11 DEF Inv

LEMMA PayloadsAreSequences == \A p \in Payloads : p \in Seq(Byte)
BY SecurityAssumption DEF Byte

LEMMA HeadersAreBlocks == \A h \in Headers : h \in Blocks
BY SecurityAssumption DEF Blocks, Byte

LEMMA EncryptInv ==
  ASSUME Inv, NEW s \in Slots, Encrypt(s)
  PROVE  Inv'
<1>1. PICK header \in Headers, plain \in Payloads :
        nwkSecurityProcess(s, [state |-> "ENCRYPT_PENDING", key |-> key, header |-> header,
                               text |-> plain, plain |-> plain])
  BY DEF Encrypt
<1> DEFINE g == [state |-> "ENCRYPT_PENDING", key |-> key, header |-> header,
                 text |-> plain, plain |-> plain]
<1>2. key \in Keys
  BY DEF Inv, Typed, TypeOK
<1>3. header \in Blocks /\ plain \in Seq(Byte)
  BY PayloadsAreSequences, HeadersAreBlocks
<1>4. g \in Frames /\ g.state \in Pending /\ g.key = key
  BY <1>2, <1>3 DEF Frames, States, Pending
<1>5. FrameWaits(g)
  BY DEF FrameWaits
<1> HIDE DEF g
<1> QED BY <1>1, <1>4, <1>5, HandOver DEF g

LEMMA DecryptInv ==
  ASSUME Inv, NEW s \in Slots, Decrypt(s)
  PROVE  Inv'
<1>1. PICK header \in Headers, plain \in Payloads : \E sealed \in Texts(Len(plain)) :
        /\ IsSealed(key, header, plain, sealed)
        /\ nwkSecurityProcess(s, [state |-> "DECRYPT_PENDING", key |-> key, header |-> header,
                                  text |-> Append(sealed, Mic(key, header, sealed)),
                                  plain |-> plain])
  BY DEF Decrypt
<1>2. PICK sealed \in Texts(Len(plain)) :
        /\ IsSealed(key, header, plain, sealed)
        /\ nwkSecurityProcess(s, [state |-> "DECRYPT_PENDING", key |-> key, header |-> header,
                                  text |-> Append(sealed, Mic(key, header, sealed)),
                                  plain |-> plain])
  BY <1>1
<1> DEFINE mic == Mic(key, header, sealed)
           g == [state |-> "DECRYPT_PENDING", key |-> key, header |-> header,
                 text |-> Append(sealed, mic), plain |-> plain]
<1>3. key \in Keys
  BY DEF Inv, Typed, TypeOK
<1>4. header \in Blocks /\ plain \in Seq(Byte)
  BY PayloadsAreSequences, HeadersAreBlocks
<1>5. sealed \in Seq(Byte)
  BY <1>4, TextsAreSequences
<1>6. mic \in Byte
  BY <1>3, <1>4, <1>5, MicIs
<1> HIDE DEF mic
<1>7. Append(sealed, mic) \in Seq(Byte)
  BY <1>5, <1>6
<1>8. g \in Frames /\ g.state \in Pending /\ g.key = key
  BY <1>3, <1>4, <1>7 DEF Frames, States, Pending
<1>9. IsSealedFrame(g, sealed) /\ g.text = Append(sealed, Mic(g.key, g.header, sealed))
  BY <1>2 DEF IsSealedFrame, mic
<1>10. FrameWaits(g)
  <2>1. g.state # "ENCRYPT_PENDING"
    OBVIOUS
  <2> HIDE DEF g
  <2> QED BY <1>9, <2>1 DEF FrameWaits
<1> HIDE DEF g
<1> QED BY <1>2, <1>8, <1>10, HandOver DEF g, mic

LEMMA FreeInv ==
  ASSUME Inv, NEW s \in Slots, nwkFrameFree(s)
  PROVE  Inv'
<1>1. /\ frames[s].state \in Returned /\ frames' = [frames EXCEPT ![s] = Free]
      /\ activeFrames' = activeFrames /\ handed' = handed
      /\ key' = key /\ active' = active
      /\ UNCHANGED <<size, offset, encrypt, vector>>
  BY DEF nwkFrameFree, progress
<1>2. Typed /\ CountExact /\ KeyOfFrames /\ Waiting /\ PayloadsRight
  BY DEF Inv
<1>3. Free \in Frames /\ Free.state = "FREE"
  BY <1>2, FreeIsFrame DEF Typed, TypeOK
<1> HIDE DEF Free
<1>4. Free.state \notin Pending \cup Working \cup Returned /\ frames[s].state \notin Pending \cup Working
  BY <1>1, <1>3 DEF Pending, Working, Returned
<1>5. s # active
  BY <1>2, <1>4 DEF CountExact
<1>6. activeFrames \in Int
  BY <1>2, SlotsAreFinite DEF Typed, TypeOK
<1>7. activeFrames' = activeFrames + (IF Free.state \in Pending \cup Working THEN 1 ELSE 0)
                                   - (IF frames[s].state \in Pending \cup Working THEN 1 ELSE 0)
  BY <1>1, <1>4, <1>6
<1>8. PayloadRight(Free) /\ FrameWaits(Free)
  BY <1>3 DEF PayloadRight, FrameWaits
<1>9. /\ size' \in Nat /\ offset' \in Nat /\ encrypt' \in BOOLEAN /\ vector' \in Blocks
      /\ handed' \in 0..MaxFrames
  BY <1>1, <1>2 DEF Typed, TypeOK
<1>10. active' = IF Free.state \in Working THEN s ELSE IF active = s THEN None ELSE active
  BY <1>1, <1>4, <1>5
<1>11. Typed' /\ CountExact' /\ KeyOfFrames' /\ Waiting' /\ PayloadsRight'
  BY <1>1, <1>2, <1>3, <1>4, <1>7, <1>8, <1>9, <1>10, OneFrameChanges
<1>12. InWork'
  BY <1>1, <1>5, WorkUntouched DEF progress
<1> QED BY <1>11, <1>12 DEF Inv

LEMMA StartInv ==
  ASSUME Inv, NEW s \in Slots, Start(s)
  PROVE  Inv'
<1>1. Typed /\ CountExact /\ KeyOfFrames /\ Waiting /\ PayloadsRight
  BY DEF Inv
<1>2. PICK f \in Frames : f = frames[s]
  BY <1>1 DEF Typed
<1>3. /\ f.state \in States /\ f.key \in Keys /\ f.header \in Blocks
      /\ f.text \in Seq(Byte) /\ f.plain \in Seq(Byte)
  BY <1>2 DEF Frames
<1>4. /\ active = None /\ f.state \in Pending /\ active' = s /\ vector' = f.header
      /\ size' = (IF f.state = "DECRYPT_PENDING" THEN Len(f.text) - 1 ELSE Len(f.text))
      /\ offset' = 0 /\ encrypt' = (f.state = "ENCRYPT_PENDING")
      /\ key' = key /\ activeFrames' = activeFrames /\ handed' = handed
  BY <1>2 DEF Start
<1>5. PICK g \in Frames : /\ frames' = [frames EXCEPT ![s] = g] /\ g.state = "PROCESS"
                          /\ g.key = f.key /\ g.header = f.header
                          /\ g.text = f.text /\ g.plain = f.plain
  <2> DEFINE g == [state |-> "PROCESS", key |-> f.key, header |-> f.header,
                   text |-> f.text, plain |-> f.plain]
  <2>1. [f EXCEPT !.state = "PROCESS"] = g
    BY DEF Frames
  <2>2. frames' = [frames EXCEPT ![s] = g]
    BY <2>1, <1>2 DEF Start
  <2>3. g \in Frames
    BY <1>3 DEF Frames, States, Working
  <2> QED BY <2>2, <2>3
<1>6. g.state \in Working /\ g.state \notin Pending /\ g.state \notin Returned
      /\ f.state \in Pending \cup Working
  BY <1>4, <1>5 DEF Pending, Working, Returned
<1>7. g.key = key
  BY <1>1, <1>2, <1>5, <1>6 DEF KeyOfFrames, InModule
<1>8. FrameWaits(f)
  BY <1>1, <1>2 DEF Waiting
<1>9. frames'[s] = g
  BY <1>1, <1>5 DEF Typed
<1>10. Len(f.plain) \in Nat
  BY <1>3
<1>11. ASSUME size' = Len(f.plain), encrypt' => SealingTo(g, 0)',
              ~encrypt' => \E t : IsSealedFrame(g, t) /\ OpeningTo(g, t, 0)'
       PROVE  Inv'
  <2>1. Counted(g, 0)'
    BY <1>4, <1>5, <1>10, <1>11, BlockSizeIsPositive DEF Counted
  <2>2. InWork'
    <3>1. (\E n \in Nat : /\ Counted(g, n)
                          /\ encrypt => SealingTo(g, n)
                          /\ ~encrypt => \E t : IsSealedFrame(g, t) /\ OpeningTo(g, t, n))'
      BY <2>1, <1>11
    <3> QED BY <3>1, <1>4, <1>9 DEF InWork
  <2>3. size' \in Nat /\ offset' \in Nat /\ encrypt' \in BOOLEAN /\ vector' \in Blocks
        /\ handed' \in 0..MaxFrames
    BY <1>1, <1>3, <1>4, <1>10, <1>11 DEF Typed, TypeOK
  <2>4. activeFrames \in Int
    BY <1>1, SlotsAreFinite DEF Typed, TypeOK
  <2>5. activeFrames' = activeFrames + (IF g.state \in Pending \cup Working THEN 1 ELSE 0)
                                     - (IF frames[s].state \in Pending \cup Working THEN 1 ELSE 0)
    BY <1>2, <1>4, <1>6, <2>4
  <2>6. FrameWaits(g) /\ PayloadRight(g)
    BY <1>6 DEF FrameWaits, PayloadRight, Pending, Returned
  <2>7. active' = (IF g.state \in Working THEN s ELSE IF active = s THEN None ELSE active)
        /\ active \in {None, s}
    BY <1>4, <1>6
  <2>8. Typed' /\ CountExact' /\ KeyOfFrames' /\ Waiting' /\ PayloadsRight'
    BY <1>1, <1>4, <1>5, <1>7, <2>3, <2>5, <2>6, <2>7, OneFrameChanges
  <2> QED BY <2>2, <2>8 DEF Inv
<1>12. CASE f.state = "ENCRYPT_PENDING"
  <2>1. f.text = f.plain /\ size' = Len(f.plain) /\ encrypt' = TRUE
    BY <1>4, <1>8, <1>12 DEF FrameWaits
  <2>2. SealingTo(g, 0)'
    BY <1>3, <1>4, <1>5, <2>1 DEF SealingTo, SealedUpTo, VectorOf
  <2> QED BY <2>1, <2>2, <1>11
<1>13. CASE f.state = "DECRYPT_PENDING"
  <2>1. PICK t : IsSealedFrame(f, t) /\ f.text = Append(t, Mic(f.key, f.header, t))
    BY <1>8, <1>13 DEF FrameWaits
  <2>2. t \in Seq(Byte) /\ Len(t) = Len(f.plain)
    BY <2>1, <1>10, TextsAreSequences DEF IsSealedFrame
  <2> DEFINE mic == Mic(f.key, f.header, t)
  <2>3. mic \in Byte
    BY <2>2, <1>3, MicIs
  <2> HIDE DEF mic
  <2>4. f.text = Append(t, mic)
    BY <2>1 DEF mic
  <2>5. /\ Len(f.text) = Len(f.plain) + 1
        /\ \A i \in 1..Len(f.plain) : f.text[i] = t[i]
        /\ f.text[Len(f.plain) + 1] = mic
    BY <2>2, <2>3, <2>4
  <2>6. size' = Len(f.plain) /\ encrypt' = FALSE
    <3>1. size' = Len(f.text) - 1
      BY <1>4, <1>13
    <3>2. encrypt' = FALSE
      BY <1>4, <1>13
    <3> QED BY <3>1, <3>2, <2>5, <1>10
  <2>7. IsSealedFrame(g, t)
    BY <2>1, <1>5 DEF IsSealedFrame
  <2>8. OpeningTo(g, t, 0)'
    <3>1. \A i \in 1..Len(f.plain) : ~(i <= 0)
      BY <1>10
    <3> QED BY <1>4, <1>5, <2>5, <3>1 DEF OpeningTo, OpenedUpTo, VectorOf, mic
  <2> QED BY <2>6, <2>7, <2>8, <1>11
<1> QED BY <1>4, <1>12, <1>13 DEF Pending

LEMMA ProcessInv ==
  ASSUME Inv, Process
  PROVE  Inv'
<1>1. Typed /\ CountExact /\ KeyOfFrames /\ Waiting /\ PayloadsRight
  BY DEF Inv
<1>2. PICK s \in Slots : s = active
  BY <1>1 DEF Process, Typed, TypeOK
<1>3. PICK f \in Frames : f = frames[s]
  BY <1>1, <1>2 DEF Typed
<1>4. /\ f.state = "PROCESS" /\ f.key \in Keys /\ f.header \in Blocks
      /\ f.text \in Seq(Byte) /\ f.plain \in Seq(Byte) /\ Len(f.plain) \in Nat
  BY <1>2, <1>3 DEF Process, Frames
<1>5. f.key = key /\ vector \in Blocks /\ size \in Nat
  BY <1>1, <1>3, <1>4 DEF KeyOfFrames, InModule, Working, Typed, TypeOK
<1>6. PICK n \in Nat : /\ Counted(f, n)
                       /\ encrypt => SealingTo(f, n)
                       /\ ~encrypt => \E t : IsSealedFrame(f, t) /\ OpeningTo(f, t, n)
  BY <1>2, <1>3, NoneIsNoSlot DEF Inv, InWork
<1>7. offset = n * BlockSize /\ offset + size = Len(f.plain) /\ (n > 0 => size > 0)
  BY <1>4, <1>6 DEF Counted
<1>8. PICK sz \in Nat : sz = size
  BY <1>5
<1>9. PICK b : b = IF sz < BlockSize THEN sz ELSE BlockSize
  OBVIOUS
<1>10. /\ n * BlockSize + sz = Len(f.plain) /\ (n > 0 => sz > 0)
  BY <1>7, <1>8
<1>11. /\ n * BlockSize \in Nat /\ n \in 0..Len(f.plain) /\ b \in 0..BlockSize
       /\ \A i \in 1..BlockSize : i > b <=> n * BlockSize + i > Len(f.plain)
  BY <1>4, <1>9, <1>10, BlockIsInPayload
<1>12. PICK v : v = Cipher(key, vector)
  OBVIOUS
<1>13. v \in Blocks
  BY <1>1, <1>5, <1>12, CipherAssumption DEF Typed, TypeOK
<1>14. PICK new : new = [i \in 1..Len(f.text) |->
                           IF i > n * BlockSize /\ i <= n * BlockSize + b
                             THEN Xor(f.text[i], v[i - n * BlockSize]) ELSE f.text[i]]
  OBVIOUS
<1>15. PICK st : st = IF sz > b THEN "PROCESS" ELSE "CONFIRM"
  OBVIOUS
<1>16. /\ vector' = [i \in 1..BlockSize |-> IF i > b THEN v[i]
                                            ELSE IF encrypt THEN new[n * BlockSize + i]
                                            ELSE Xor(v[i], new[n * BlockSize + i])]
       /\ offset' = n * BlockSize + b /\ size' = sz - b
       /\ frames' = [frames EXCEPT ![s].text = new, ![s].state = st]
       /\ UNCHANGED <<key, activeFrames, active, encrypt, handed>>
  BY <1>2, <1>3, <1>7, <1>8, <1>9, <1>12, <1>14, <1>15
     DEF Process, SYS_EncryptReq, PHY_EncryptReq, SYS_EncryptConf
<1>17. offset' \in Nat /\ size' \in Nat
  <2> DEFINE from == n * BlockSize
  <2>1. from \in Nat /\ b \in Nat /\ b <= sz
    BY <1>9, <1>11, BlockSizeIsPositive
  <2>2. offset' = from + b /\ size' = sz - b
    BY <1>16
  <2> HIDE DEF from
  <2> QED BY <2>1, <2>2
<1>18. ASSUME NEW g, g.state = st, g.plain = f.plain
       PROVE  Counted(g, n + 1)'
  <2> DEFINE from == n * BlockSize
  <2>1. from \in Nat /\ from + sz = Len(f.plain) /\ offset' = from + b /\ size' = sz - b
    BY <1>10, <1>11, <1>16
  <2>2. CASE sz > b
    <3>1. b = BlockSize /\ st = "PROCESS"
      BY <1>9, <1>15, <2>2, BlockSizeIsPositive
    <3>2. (n + 1) * BlockSize = from + BlockSize
      BY BlockSizeIsPositive
    <3> HIDE DEF from
    <3>3. /\ offset' = (n + 1) * BlockSize /\ offset' + size' = Len(f.plain) /\ size' > 0
      BY <2>1, <2>2, <3>1, <3>2, BlockSizeIsPositive
    <3> QED BY <1>18, <3>1, <3>3 DEF Counted
  <2>3. CASE sz <= b
    <3>1. b = sz /\ st = "CONFIRM" /\ sz <= BlockSize
      BY <1>9, <1>15, <2>3, BlockSizeIsPositive
    <3>2. n = LastBlock(f.plain)
      <4>1. CASE sz = 0
        <5>1. n = 0 /\ Len(f.plain) = 0
          BY <1>10, <4>1, BlockSizeIsPositive
        <5>2. f.plain = <<>>
          BY <1>4, <5>1
        <5> QED BY <5>1, <5>2 DEF LastBlock
      <4>2. CASE sz > 0
        <5>1. sz \in 1..BlockSize
          BY <3>1, <4>2, BlockSizeIsPositive
        <5>2. (from + sz - 1) \div BlockSize = n
          BY <5>1, ByteOfBlock
        <5> HIDE DEF from
        <5>3. Len(f.plain) = from + sz /\ Len(f.plain) > 0 /\ Len(f.plain) - 1 = from + sz - 1
          BY <2>1, <4>2
        <5>4. f.plain # <<>> /\ (Len(f.plain) - 1) \div BlockSize = n
          BY <5>2, <5>3
        <5> QED BY <5>4 DEF LastBlock
      <4> QED BY <4>1, <4>2
    <3> HIDE DEF from
    <3>3. offset' = Len(f.plain)
      BY <2>1, <3>1
    <3> QED BY <1>18, <3>1, <3>2, <3>3 DEF Counted
  <2> QED BY <2>2, <2>3, <1>9, BlockSizeIsPositive
<1>19. ASSUME new \in Seq(Byte), vector' \in Blocks,
              ASSUME NEW g \in Frames, g.key = f.key, g.header = f.header, g.text = new, g.plain = f.plain
              PROVE  /\ encrypt => SealingTo(g, n + 1)'
                     /\ ~encrypt => \E t : IsSealedFrame(g, t) /\ OpeningTo(g, t, n + 1)'
       PROVE  Inv'
  <2>1. PICK g \in Frames : /\ frames' = [frames EXCEPT ![s] = g] /\ g.state = st
                            /\ g.key = f.key /\ g.header = f.header
                            /\ g.text = new /\ g.plain = f.plain
    <3> DEFINE g == [state |-> st, key |-> f.key, header |-> f.header, text |-> new, plain |-> f.plain]
           h == [state |-> f.state, key |-> f.key, header |-> f.header, text |-> new, plain |-> f.plain]
    <3>1. [[f EXCEPT !.text = new] EXCEPT !.state = st] = g
      <4>1. [f EXCEPT !.text = new] = h
        BY DEF Frames
      <4>2. [h EXCEPT !.state = st] = g
        OBVIOUS
      <4> QED BY <4>1, <4>2
    <3>2. frames' = [frames EXCEPT ![s] = g]
      <4>1. frames' = [frames EXCEPT ![s] = [[frames[s] EXCEPT !.text = new] EXCEPT !.state = st]]
        BY <1>1, <1>16 DEF Typed
      <4> QED BY <3>1, <4>1, <1>3
    <3>3. g \in Frames
      BY <1>4, <1>15, <1>19 DEF Frames, States, Working
    <3> QED BY <3>2, <3>3
  <2>2. g.state \in Working /\ g.state \notin Pending /\ g.state \notin Returned
        /\ f.state \in Pending \cup Working
    BY <1>4, <1>15, <2>1 DEF Pending, Working, Returned
  <2>3. InWork'
    <3>1. Counted(g, n + 1)'
      BY <1>18, <2>1
    <3>2. (encrypt => SealingTo(g, n + 1))' /\ (~encrypt => \E t : IsSealedFrame(g, t) /\ OpeningTo(g, t, n + 1))'
      BY <1>16, <1>19, <2>1
    <3>3. (\E m \in Nat : /\ Counted(g, m)
                          /\ encrypt => SealingTo(g, m)
                          /\ ~encrypt => \E t : IsSealedFrame(g, t) /\ OpeningTo(g, t, m))'
      BY <3>1, <3>2
    <3>4. frames'[active'] = g
      BY <1>1, <1>2, <1>16, <2>1 DEF Typed
    <3> QED BY <3>3, <3>4 DEF InWork
  <2>4. encrypt' \in BOOLEAN /\ handed' \in 0..MaxFrames
    BY <1>1, <1>16 DEF Typed, TypeOK
  <2>5. activeFrames \in Int
    BY <1>1, SlotsAreFinite DEF Typed, TypeOK
  <2>6. activeFrames' = activeFrames + (IF g.state \in Pending \cup Working THEN 1 ELSE 0)
                                     - (IF frames[s].state \in Pending \cup Working THEN 1 ELSE 0)
    BY <1>3, <1>16, <2>2, <2>5
  <2>7. FrameWaits(g) /\ PayloadRight(g)
    BY <2>2 DEF FrameWaits, PayloadRight, Pending, Returned
  <2>8. active' = (IF g.state \in Working THEN s ELSE IF active = s THEN None ELSE active)
        /\ active \in {None, s}
    BY <1>2, <1>16, <2>2
  <2>9. Typed' /\ CountExact' /\ KeyOfFrames' /\ Waiting' /\ PayloadsRight'
    BY <1>1, <1>5, <1>16, <1>17, <1>19, <2>1, <2>4, <2>6, <2>7, <2>8, OneFrameChanges
  <2> QED BY <2>3, <2>9 DEF Inv
<1>20. CASE encrypt
  <2>1. /\ SealedUpTo(f.key, f.header, f.plain, f.text, n * BlockSize)
        /\ Len(f.text) = Len(f.plain)
        /\ vector = VectorOf(f.key, f.header, f.text, n)
    BY <1>6, <1>7, <1>20 DEF SealingTo, SealedUpTo
  <2>2. v = Chain(f.key, f.header, f.text)[n]
    <3>1. n \in 0..Len(f.text)
      BY <2>1, <1>11
    <3> QED BY <1>4, <1>5, <1>12, <2>1, <3>1, ChainIs
  <2>3. /\ new \in Seq(Byte)
        /\ SealedUpTo(f.key, f.header, f.plain, new, n * BlockSize + b)
        /\ VectorOf(f.key, f.header, new, n + 1) = Advanced(v, new, n * BlockSize, b, TRUE)
    <3>1. b = BytesOf(sz) /\ new = Added(f.text, v, n * BlockSize, b)
      BY <1>9, <1>14 DEF BytesOf, Added
    <3> DEFINE added == Added(f.text, Chain(f.key, f.header, f.text)[n], n * BlockSize, BytesOf(sz))
    <3>2. /\ added \in Seq(Byte)
          /\ SealedUpTo(f.key, f.header, f.plain, added, n * BlockSize + BytesOf(sz))
          /\ VectorOf(f.key, f.header, added, n + 1) =
               Advanced(Chain(f.key, f.header, f.text)[n], added, n * BlockSize, BytesOf(sz), TRUE)
      BY <1>10, <2>1, SealBlock
    <3> QED BY <3>1, <3>2, <2>2
  <2>4. vector' = VectorOf(f.key, f.header, new, n + 1)
    BY <1>16, <1>20, <2>3 DEF Advanced
  <2>5. vector' \in Blocks
    BY <2>3, <2>4, VectorIsBlock, <1>4, <1>11 DEF SealedUpTo
  <2>6. ASSUME NEW g \in Frames, g.key = f.key, g.header = f.header, g.text = new, g.plain = f.plain
        PROVE  SealingTo(g, n + 1)'
    BY <1>16, <2>3, <2>4, <2>6 DEF SealingTo
  <2> QED BY <1>19, <1>20, <2>3, <2>5, <2>6
<1>21. CASE ~encrypt
  <2>1. PICK t : IsSealedFrame(f, t) /\ OpeningTo(f, t, n)
    BY <1>6, <1>21
  <2>2. /\ OpenedUpTo(f.plain, t, Mic(f.key, f.header, t), f.text, n * BlockSize)
        /\ vector = VectorOf(f.key, f.header, t, n)
    BY <2>1, <1>7 DEF OpeningTo
  <2>3. t \in Texts(Len(f.plain)) /\ IsSealed(f.key, f.header, f.plain, t)
        /\ t \in Seq(Byte) /\ Len(t) = Len(f.plain)
    BY <1>4, <2>1, TextsAreSequences DEF IsSealedFrame
  <2>4. v = Chain(f.key, f.header, t)[n]
    <3>1. n \in 0..Len(t)
      BY <2>3, <1>11
    <3> QED BY <1>4, <1>5, <1>12, <2>2, <2>3, <3>1, ChainIs
  <2>5. /\ new \in Seq(Byte)
        /\ OpenedUpTo(f.plain, t, Mic(f.key, f.header, t), new, n * BlockSize + b)
        /\ VectorOf(f.key, f.header, t, n + 1) = Advanced(v, new, n * BlockSize, b, FALSE)
    <3>1. b = BytesOf(sz) /\ new = Added(f.text, v, n * BlockSize, b)
      BY <1>9, <1>14 DEF BytesOf, Added
    <3> DEFINE added == Added(f.text, Chain(f.key, f.header, t)[n], n * BlockSize, BytesOf(sz))
    <3>2. /\ added \in Seq(Byte)
          /\ OpenedUpTo(f.plain, t, Mic(f.key, f.header, t), added, n * BlockSize + BytesOf(sz))
          /\ VectorOf(f.key, f.header, t, n + 1) =
               Advanced(Chain(f.key, f.header, t)[n], added, n * BlockSize, BytesOf(sz), FALSE)
      BY <1>10, <2>1, <2>2, OpenBlock
    <3> QED BY <3>1, <3>2, <2>4
  <2>6. vector' = VectorOf(f.key, f.header, t, n + 1)
    BY <1>16, <1>21, <2>5 DEF Advanced
  <2>7. vector' \in Blocks
    BY <2>3, <2>6, VectorIsBlock, <1>4, <1>11
  <2>8. ASSUME NEW g \in Frames, g.key = f.key, g.header = f.header, g.text = new, g.plain = f.plain
        PROVE  IsSealedFrame(g, t) /\ OpeningTo(g, t, n + 1)'
    BY <1>16, <2>1, <2>2, <2>5, <2>6, <2>8 DEF IsSealedFrame, OpeningTo
  <2> QED BY <1>19, <1>21, <2>5, <2>7, <2>8
<1> QED BY <1>20, <1>21

\* Behind the last block of a payload that is sealed.
LEMMA SealedFrame ==
  ASSUME NEW f \in Frames, NEW n \in Nat, n = LastBlock(f.plain) + 1,
         SealedUpTo(f.key, f.header, f.plain, f.text, Len(f.plain)), NEW v,
         v = VectorOf(f.key, f.header, f.text, n)
  PROVE  /\ IsSealed(f.key, f.header, f.plain, f.text) /\ Len(f.text) = Len(f.plain)
         /\ XorAll(v) = Mic(f.key, f.header, f.text)
         /\ XorAll(v) \in Byte
<1>1. /\ f.key \in Keys /\ f.header \in Blocks /\ f.text \in Seq(Byte) /\ f.plain \in Seq(Byte)
      /\ Len(f.plain) \in Nat
  BY DEF Frames
<1>2. Len(f.text) = Len(f.plain)
      /\ \A i \in 1..Len(f.plain) : f.text[i] = SealedByte(f.key, f.header, f.text, f.plain, i)
  BY <1>1 DEF SealedUpTo
<1>3. IsSealed(f.key, f.header, f.plain, f.text)
  BY <1>2 DEF IsSealed, SealedByte
<1>4. LastBlock(f.text) = LastBlock(f.plain)
  BY <1>1, <1>2, LastBlockIs
<1> QED BY <1>1, <1>2, <1>3, <1>4, MicIs

\* Behind the last block of a sealed payload that is opened.
LEMMA OpenedFrame ==
  ASSUME NEW f \in Frames, NEW n \in Nat, n = LastBlock(f.plain) + 1, NEW s, IsSealedFrame(f, s),
         OpenedUpTo(f.plain, s, Mic(f.key, f.header, s), f.text, Len(f.plain)), NEW v,
         v = VectorOf(f.key, f.header, s, n)
  PROVE  /\ SubSeq(f.text, 1, Len(f.plain)) = f.plain
         /\ f.text[Len(f.plain) + 1] = XorAll(v)
<1>1. /\ f.key \in Keys /\ f.header \in Blocks /\ f.text \in Seq(Byte) /\ f.plain \in Seq(Byte)
      /\ Len(f.plain) \in Nat
  BY DEF Frames
<1>2. s \in Seq(Byte) /\ Len(s) = Len(f.plain)
  BY <1>1, TextsAreSequences DEF IsSealedFrame
<1>3. /\ Len(f.text) = Len(f.plain) + 1
      /\ \A i \in 1..Len(f.plain) : f.text[i] = f.plain[i]
      /\ f.text[Len(f.plain) + 1] = Mic(f.key, f.header, s)
  BY <1>1 DEF OpenedUpTo
<1>4. LastBlock(s) = LastBlock(f.plain)
  BY <1>1, <1>2, LastBlockIs
<1>5. Mic(f.key, f.header, s) = XorAll(v)
  BY <1>1, <1>2, <1>4, MicIs
<1>6. SubSeq(f.text, 1, Len(f.plain)) = f.plain
  <2> DEFINE sub == SubSeq(f.text, 1, Len(f.plain))
  <2>1. sub \in Seq(Byte) /\ Len(sub) = Len(f.plain)
        /\ \A i \in 1..Len(f.plain) : sub[i] = f.text[i]
    BY <1>1, <1>3
  <2> HIDE DEF sub
  <2>2. sub = f.plain
    <3>1. \A i \in 1..Len(f.plain) : sub[i] = f.plain[i]
      BY <1>3, <2>1
    <3>2. f.plain \in Seq(Byte)
      BY <1>1
    <3> QED BY <2>1, <3>1, <3>2
  <2> QED BY <2>2 DEF sub
<1> QED BY <1>3, <1>5, <1>6

LEMMA ConfirmInv ==
  ASSUME Inv, Confirm
  PROVE  Inv'
<1>1. Typed /\ CountExact /\ KeyOfFrames /\ Waiting /\ PayloadsRight
  BY DEF Inv
<1>2. PICK s \in Slots : s = active
  BY <1>1 DEF Confirm, Typed, TypeOK
<1>3. PICK f \in Frames : f = frames[s]
  BY <1>1, <1>2 DEF Typed
<1>4. /\ f.state = "CONFIRM" /\ f.key \in Keys /\ f.header \in Blocks
      /\ f.text \in Seq(Byte) /\ f.plain \in Seq(Byte) /\ Len(f.plain) \in Nat
  BY <1>2, <1>3 DEF Confirm, Frames
<1>5. PICK n \in Nat : /\ Counted(f, n)
                       /\ encrypt => SealingTo(f, n)
                       /\ ~encrypt => \E t : IsSealedFrame(f, t) /\ OpeningTo(f, t, n)
  BY <1>2, <1>3, NoneIsNoSlot DEF Inv, InWork
<1>6. offset = Len(f.plain) /\ n = LastBlock(f.plain) + 1
  BY <1>4, <1>5 DEF Counted
<1>7. /\ frames' = [frames EXCEPT ![s] = Confirmed(f)] /\ active' = None
      /\ activeFrames' = activeFrames - 1 /\ key' = key /\ handed' = handed
      /\ UNCHANGED <<size, offset, encrypt, vector>>
  BY <1>1, <1>2, <1>3 DEF Confirm, progress, Typed
<1>8. ASSUME NEW g \in Frames, Confirmed(f) = g, g.state \in Returned, PayloadRight(g)
      PROVE  Inv'
  <2>1. g.state \notin Pending \cup Working /\ f.state \in Pending \cup Working
    BY <1>4, <1>8 DEF Pending, Working, Returned
  <2>2. activeFrames \in Int
    BY <1>1, SlotsAreFinite DEF Typed, TypeOK
  <2>3. activeFrames' = activeFrames + (IF g.state \in Pending \cup Working THEN 1 ELSE 0)
                                     - (IF frames[s].state \in Pending \cup Working THEN 1 ELSE 0)
    BY <1>3, <1>7, <2>1, <2>2
  <2>4. FrameWaits(g)
    BY <2>1 DEF FrameWaits, Pending
  <2>5. size' \in Nat /\ offset' \in Nat /\ encrypt' \in BOOLEAN /\ vector' \in Blocks
        /\ handed' \in 0..MaxFrames
    BY <1>1, <1>7 DEF Typed, TypeOK
  <2>6. active' = (IF g.state \in Working THEN s ELSE IF active = s THEN None ELSE active)
    BY <1>2, <1>7, <2>1
  <2>7. Typed' /\ CountExact' /\ KeyOfFrames' /\ Waiting' /\ PayloadsRight'
    BY <1>1, <1>7, <1>8, <2>1, <2>3, <2>4, <2>5, <2>6, OneFrameChanges
  <2>8. InWork'
    BY <1>7 DEF InWork
  <2> QED BY <2>7, <2>8 DEF Inv
<1>9. CASE encrypt
  <2>1. SealingTo(f, n)
    BY <1>5, <1>9
  <2>0. PICK mic : mic = XorAll(vector)
    OBVIOUS
  <2> DEFINE g == [state |-> "DELAY", key |-> f.key, header |-> f.header,
                   text |-> Append(f.text, mic), plain |-> f.plain]
  <2>2. /\ IsSealed(f.key, f.header, f.plain, f.text) /\ Len(f.text) = Len(f.plain)
        /\ mic = Mic(f.key, f.header, f.text) /\ mic \in Byte
    BY <2>0, <2>1, <1>6, SealedFrame DEF SealingTo
  <2>3. Confirmed(f) = g
    <3>1. PICK text : text = Append(f.text, mic)
      OBVIOUS
    <3> DEFINE done == [f EXCEPT !.text = text]
    <3>2. Confirmed(f) = [done EXCEPT !.state = "DELAY"]
      BY <2>0, <3>1, <1>9 DEF Confirmed, Checked, nwkTxEncryptConf
    <3>3. done = [state |-> f.state, key |-> f.key, header |-> f.header,
                  text |-> text, plain |-> f.plain]
      BY DEF Frames
    <3> HIDE DEF done
    <3>4. [done EXCEPT !.state = "DELAY"] = [state |-> "DELAY", key |-> f.key, header |-> f.header,
                                             text |-> text, plain |-> f.plain]
      BY <3>3
    <3> QED BY <3>1, <3>2, <3>4
  <2>4. /\ Append(f.text, mic) \in Seq(Byte)
        /\ SubSeq(Append(f.text, mic), 1, Len(f.plain)) = f.text
    <3>1. Append(f.text, mic) \in Seq(Byte)
      BY <1>4, <2>2
    <3> DEFINE sub == SubSeq(Append(f.text, mic), 1, Len(f.plain))
    <3>2. sub \in Seq(Byte) /\ Len(sub) = Len(f.text) /\ \A i \in 1..Len(f.text) : sub[i] = f.text[i]
      BY <1>4, <2>2
    <3> HIDE DEF sub
    <3>3. sub = f.text
      BY <1>4, <3>2
    <3> QED BY <3>1, <3>3 DEF sub
  <2>5. g \in Frames /\ g.state \in Returned
    BY <1>4, <2>4 DEF Frames, States, Returned
  <2>6. PayloadRight(g)
    BY <2>2, <2>4 DEF PayloadRight
  <2> QED BY <2>3, <2>5, <2>6, <1>8
<1>10. CASE ~encrypt
  <2>1. PICK t : IsSealedFrame(f, t) /\ OpeningTo(f, t, n)
    BY <1>5, <1>10
  <2>2. /\ SubSeq(f.text, 1, Len(f.plain)) = f.plain
        /\ f.text[Len(f.plain) + 1] = XorAll(vector)
    BY <2>1, <1>6, OpenedFrame DEF OpeningTo
  <2> DEFINE g == [state |-> "INDICATE", key |-> f.key, header |-> f.header,
                   text |-> f.plain, plain |-> f.plain]
             done == [f EXCEPT !.text = f.plain]
  <2>3. Confirmed(f) = [done EXCEPT !.state = "INDICATE"]
    BY <1>6, <1>10, <2>2 DEF Confirmed, Checked, nwkRxDecryptConf
  <2>4. done = [state |-> f.state, key |-> f.key, header |-> f.header,
                text |-> f.plain, plain |-> f.plain]
    BY DEF Frames
  <2> HIDE DEF done
  <2>5. Confirmed(f) = g
    BY <2>3, <2>4
  <2>6. g \in Frames /\ g.state \in Returned
    BY <1>4 DEF Frames, States, Returned
  <2>7. PayloadRight(g)
    BY DEF PayloadRight
  <2> QED BY <2>5, <2>6, <2>7, <1>8
<1> QED BY <1>9, <1>10

LEMMA NextInv == Inv /\ [Next]_vars => Inv'
<1> SUFFICES ASSUME Inv, [Next]_vars PROVE Inv'
  OBVIOUS
<1>1. CASE UNCHANGED vars
  <2>1. UNCHANGED <<frames, key, activeFrames, active, size, offset, encrypt, vector, handed>>
    BY <1>1 DEF vars, progress
  <2>2. Typed' /\ CountExact' /\ KeyOfFrames' /\ Waiting' /\ PayloadsRight'
    BY <2>1 DEF Inv, Typed, TypeOK, CountExact, KeyOfFrames, InModule, Waiting, PayloadsRight
  <2>3. InWork'
    BY <2>1 DEF Inv, InWork, Counted, SealingTo, OpeningTo
  <2> QED BY <2>2, <2>3 DEF Inv
<1>2. ASSUME NEW k \in Keys, NWK_SetSecurityKey(k) PROVE Inv'
  BY <1>2, SetKeyInv
<1>3. ASSUME NEW s \in Slots, Encrypt(s) \/ Decrypt(s) \/ nwkFrameFree(s) PROVE Inv'
  BY <1>3, EncryptInv, DecryptInv, FreeInv
<1>4. ASSUME NEW s \in Slots, Start(s) PROVE Inv'
  BY <1>4, StartInv
<1>5. CASE Process
  BY <1>5, ProcessInv
<1>6. CASE Confirm
  BY <1>6, ConfirmInv
<1> QED BY <1>1, <1>2, <1>3, <1>4, <1>5, <1>6 DEF Next, nwkSecurityTaskHandler

-----------------------------------------------------------------------------
\* Whatever the order in which frames come, are sealed or opened and leave
\* (nwkSecurityTaskHandler and nwkSecurityProcess): the inductive invariant.
THEOREM SecurityInvariant == Spec => []Inv
<1>1. Init => Inv
  BY InitInv
<1>2. Inv /\ [Next]_vars => Inv'
  BY NextInv
<1> QED BY <1>1, <1>2, PTL DEF Spec

\* Every variable has its type; the count of frames never exceeds the buffers.
THEOREM SecurityTypeCorrect == Spec => []TypeOK
<1>1. Inv => TypeOK
  BY DEF Inv, Typed
<1> QED BY <1>1, SecurityInvariant, PTL

\* nwkSecurityActiveFrames, nwkSecurityActiveFrame and the states of the frames agree,
\* for any number of buffers: the handler works on one frame and sleeps exactly when
\* none needs it.
THEOREM CountAlwaysExact == Spec => []CountExact
<1>1. Inv => CountExact
  BY DEF Inv
<1> QED BY <1>1, SecurityInvariant, PTL

\* What nwkSecurityProcess returns is right for a payload of any length, any block size
\* and any cipher: a frame that is sealed can be opened by a receiver with the key, and
\* a frame a neighbour sealed is opened to its payload and accepted.
THEOREM PayloadsAlwaysRight == Spec => []PayloadsRight
<1>1. Inv => PayloadsRight
  BY DEF Inv
<1> QED BY <1>1, SecurityInvariant, PTL
=============================================================================
