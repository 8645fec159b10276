---------------------------- MODULE NwkSecurity ----------------------------
(***************************************************************************)
(* The security module, nwk/src/nwkSecurity.c and sys/src/sysEncrypt.c:    *)
(* frames of the pool waiting to be sealed or opened are served one at a   *)
(* time, a block of the payload in each turn of the main loop.             *)
(*                                                                         *)
(* The chain starts from a vector made of the header. A byte is a bit      *)
(* here, a block has BlockSize of them and the check value (MIC) one; the  *)
(* cipher is any function of the key and a block. A frame received was     *)
(* sealed by a neighbour that has the same key, and carries its MIC.       *)
(***************************************************************************)
EXTENDS Integers, Sequences, FiniteSets

CONSTANTS
  SlotCount,        \* the frame buffers of the pool
  Keys,
  Cipher(_, _),     \* the key and a block; AES of the transceiver or xtea in the code
  BlockSize,        \* NWK_SECURITY_BLOCK_SIZE
  Headers,          \* the start vectors that occur
  Payloads,         \* the payloads that occur
  MaxFrames         \* bound: frames handed to the module

ASSUME SecurityAssumption ==
  /\ {SlotCount, BlockSize, MaxFrames} \subseteq Nat /\ BlockSize > 0
  /\ Payloads \subseteq Seq(0..1)
  /\ Headers \subseteq [1..BlockSize -> 0..1] /\ Headers # {}

VARIABLES
  frames,             \* the buffers
  key,                \* nwkIb.key
  activeFrames,       \* nwkSecurityActiveFrames
  active,             \* nwkSecurityActiveFrame, None for NULL
  size, offset, encrypt, vector, \* nwkSecuritySize, -Offset, -Encrypt, -Vector
  handed              \* frames handed to the module so far

progress == <<size, offset, encrypt, vector>>
vars == <<frames, key, activeFrames, active, progress, handed>>

None == 0
Slots == 1..SlotCount    \* in the order of nwkFrameNext
Byte == 0..1
Xor(a, b) == (a + b) % 2
Texts(n) == [1..n -> Byte]
Blocks == [1..BlockSize -> Byte]

ASSUME CipherAssumption == \A k \in Keys, v \in Blocks : Cipher(k, v) \in Blocks

\* text is the payload and, in a sealed frame, the MIC; plain and key are what the
\* frame is about: its payload when not sealed, and the key when it was handed over.
\* The state is the module's, or the one it leaves the frame in for the transmitter
\* (DELAY) or the receiver (INDICATE when the MIC is right, else FINISH).
Free == [state |-> "FREE", key |-> CHOOSE k \in Keys : TRUE, header |-> CHOOSE h \in Headers : TRUE,
         text |-> <<>>, plain |-> <<>>]

Pending == {"ENCRYPT_PENDING", "DECRYPT_PENDING"}
Working == {"PROCESS", "CONFIRM"}
Returned == {"DELAY", "INDICATE", "FINISH"}

-----------------------------------------------------------------------------
(***************************************************************************)
(* What a sealed payload is, without the steps that make it: each byte is  *)
(* added to a byte of the chain, which goes on from the sealed block.      *)
(***************************************************************************)

\* The start of the vector is overwritten by the block, if it is shorter.
Overwrite(v, text, from) ==
  [i \in 1..BlockSize |-> IF from + i <= Len(text) THEN text[from + i] ELSE v[i]]

Chain(k, header, sealed) ==
  LET chain[n \in 0..Len(sealed)] ==
        Cipher(k, IF n = 0 THEN header
                  ELSE Overwrite(chain[n - 1], sealed, (n - 1) * BlockSize))
  IN chain

LastBlock(text) == IF text = <<>> THEN 0 ELSE (Len(text) - 1) \div BlockSize

XorAll(v) == Cardinality({i \in DOMAIN v : v[i] = 1}) % 2

Mic(k, header, sealed) ==
  LET last == LastBlock(sealed)
  IN XorAll(Overwrite(Chain(k, header, sealed)[last], sealed, last * BlockSize))

IsSealed(k, header, plain, sealed) ==
  /\ Len(sealed) = Len(plain)
  /\ \A i \in 1..Len(plain) :
       sealed[i] = Xor(plain[i], Chain(k, header, sealed)[(i - 1) \div BlockSize]
                                   [((i - 1) % BlockSize) + 1])

-----------------------------------------------------------------------------
\* nwkSecurityInit, and a key set before the first frame.
Init ==
  /\ frames = [s \in Slots |-> Free]
  /\ key \in Keys
  /\ activeFrames = 0 /\ active = None
  /\ size = 0 /\ offset = 0 /\ encrypt = FALSE /\ vector \in {Free.header}
  /\ handed = 0

\* The application changes the key only while no frame is in the module.
NWK_SetSecurityKey(k) ==
  /\ activeFrames = 0
  /\ key' = k
  /\ UNCHANGED <<frames, activeFrames, active, progress, handed>>

\* Faulty variant, for mutation: only the frames to be sealed are counted.
nwkSecurityProcess_CountsHalf(s, frame) ==
  /\ frames[s].state = "FREE"
  /\ handed < MaxFrames /\ handed' = handed + 1
  /\ frames' = [frames EXCEPT ![s] = frame]
  /\ activeFrames' = IF frame.state = "ENCRYPT_PENDING" THEN activeFrames + 1 ELSE activeFrames
  /\ UNCHANGED <<key, active, progress>>

\* nwkSecurityProcess, for a frame of the transmitter or of the receiver.
nwkSecurityProcess(s, frame) ==
  /\ frames[s].state = "FREE"
  /\ handed < MaxFrames /\ handed' = handed + 1
  /\ frames' = [frames EXCEPT ![s] = frame]
  /\ activeFrames' = activeFrames + 1
  /\ UNCHANGED <<key, active, progress>>

Encrypt(s) ==
  \E header \in Headers, plain \in Payloads :
    nwkSecurityProcess(s, [state |-> "ENCRYPT_PENDING", key |-> key, header |-> header,
                           text |-> plain, plain |-> plain])

Decrypt(s) ==
  \E header \in Headers, plain \in Payloads : \E sealed \in Texts(Len(plain)) :
    /\ IsSealed(key, header, plain, sealed)
    /\ nwkSecurityProcess(s, [state |-> "DECRYPT_PENDING", key |-> key, header |-> header,
                              text |-> Append(sealed, Mic(key, header, sealed)),
                              plain |-> plain])

-----------------------------------------------------------------------------
(***************************************************************************)
(* nwkSecurityTaskHandler: one of these steps in each turn.                *)
(***************************************************************************)

\* nwkSecurityStart, for the first frame that waits. The MIC is not part of the size.
Start(s) ==
  LET f == frames[s]
  IN /\ activeFrames > 0 /\ active = None
     /\ f.state \in Pending /\ \A t \in 1..(s - 1) : frames[t].state \notin Pending
     /\ active' = s
     /\ vector' = f.header
     /\ size' = IF f.state = "DECRYPT_PENDING" THEN Len(f.text) - 1 ELSE Len(f.text)
     /\ offset' = 0
     /\ encrypt' = (f.state = "ENCRYPT_PENDING")
     /\ frames' = [frames EXCEPT ![s].state = "PROCESS"]
     /\ UNCHANGED <<key, activeFrames, handed>>

\* Faulty variant, for mutation: the chain goes on from the text on both sides.
SYS_EncryptConf_SameChain(v) ==
  LET f == frames[active]
      block == IF size < BlockSize THEN size ELSE BlockSize
      text == [i \in 1..Len(f.text) |->
                 IF i > offset /\ i <= offset + block THEN Xor(f.text[i], v[i - offset])
                 ELSE f.text[i]]
  IN /\ vector' = [i \in 1..BlockSize |-> IF i > block THEN v[i] ELSE text[offset + i]]
     /\ offset' = offset + block
     /\ size' = size - block
     /\ frames' = [frames EXCEPT ![active].text = text,
                                 ![active].state = IF size > block THEN "PROCESS" ELSE "CONFIRM"]

\* The block is added to the text; the vector takes the sealed bytes, which are the
\* result when sealing and the sum of both, the text as received, when opening.
SYS_EncryptConf(v) ==
  LET f == frames[active]
      block == IF size < BlockSize THEN size ELSE BlockSize
      text == [i \in 1..Len(f.text) |->
                 IF i > offset /\ i <= offset + block THEN Xor(f.text[i], v[i - offset])
                 ELSE f.text[i]]
  IN /\ vector' = [i \in 1..BlockSize |->
                     IF i > block THEN v[i]
                     ELSE IF encrypt THEN text[offset + i]
                     ELSE Xor(v[i], text[offset + i])]
     /\ offset' = offset + block
     /\ size' = size - block
     /\ frames' = [frames EXCEPT ![active].text = text,
                                 ![active].state = IF size > block THEN "PROCESS" ELSE "CONFIRM"]

\* PHY_EncryptReq: the transceiver gets key and block and gives the block back. The
\* software cipher, xtea over both halves of the block, is Cipher as well.
PHY_EncryptReq(text, k) == Cipher(k, text)

\* SYS_EncryptReq calls SYS_EncryptConf before it returns, so the state
\* NWK_SECURITY_STATE_WAIT does not outlast the step.
SYS_EncryptReq(text, k) == SYS_EncryptConf(PHY_EncryptReq(text, k))

Process ==
  /\ active # None /\ frames[active].state = "PROCESS"
  /\ SYS_EncryptReq(vector, key)
  /\ UNCHANGED <<key, activeFrames, active, encrypt, handed>>

\* nwkSecurityProcessMic: the text with the MIC appended or taken off, and whether it
\* was right.
Checked(text) ==
  IF encrypt THEN [text |-> Append(text, XorAll(vector)), ok |-> TRUE]
  ELSE [text |-> SubSeq(text, 1, offset), ok |-> text[offset + 1] = XorAll(vector)]

nwkTxEncryptConf(f) == [f EXCEPT !.state = "DELAY"]
nwkRxDecryptConf(f, status) == [f EXCEPT !.state = IF status THEN "INDICATE" ELSE "FINISH"]

Confirmed(f) ==
  LET mic == Checked(f.text)
      done == [f EXCEPT !.text = mic.text]
  IN IF encrypt THEN nwkTxEncryptConf(done) ELSE nwkRxDecryptConf(done, mic.ok)

\* Faulty variant, for mutation: a frame that was opened is not counted off.
Confirm_KeepsCount ==
  /\ active # None /\ frames[active].state = "CONFIRM"
  /\ frames' = [frames EXCEPT ![active] = Confirmed(@)]
  /\ active' = None
  /\ activeFrames' = IF encrypt THEN activeFrames - 1 ELSE activeFrames
  /\ UNCHANGED <<key, progress, handed>>

Confirm ==
  /\ active # None /\ frames[active].state = "CONFIRM"
  /\ frames' = [frames EXCEPT ![active] = Confirmed(@)]
  /\ active' = None
  /\ activeFrames' = activeFrames - 1
  /\ UNCHANGED <<key, progress, handed>>

nwkSecurityTaskHandler == (\E s \in Slots : Start(s)) \/ Process \/ Confirm

\* The transmitter or the receiver is done with the frame.
nwkFrameFree(s) ==
  /\ frames[s].state \in Returned
  /\ frames' = [frames EXCEPT ![s] = Free]
  /\ UNCHANGED <<key, activeFrames, active, progress, handed>>

Next ==
  \/ \E k \in Keys : NWK_SetSecurityKey(k)
  \/ \E s \in Slots : Encrypt(s) \/ Decrypt(s) \/ nwkFrameFree(s)
  \/ nwkSecurityTaskHandler

\* The main loop runs.
Spec == Init /\ [][Next]_vars /\ WF_vars(nwkSecurityTaskHandler)

-----------------------------------------------------------------------------
(***************************************************************************)
(* Properties.                                                             *)
(***************************************************************************)

\* Every variable has the type of the C variable it stands for.
TypeOK ==
  /\ key \in Keys
  /\ activeFrames \in 0..Cardinality(Slots) /\ active \in Slots \cup {None}
  /\ {size, offset} \subseteq Nat
  /\ encrypt \in BOOLEAN /\ vector \in Blocks
  /\ handed \in 0..MaxFrames

\* The count of frames, the single active frame and the states of the frames, kept in
\* three places, agree: a frame is being worked on exactly while it is the active one,
\* and the handler goes to sleep (count 0) exactly when no frame needs it.
CountExact ==
  /\ activeFrames = Cardinality({s \in Slots : frames[s].state \in Pending \cup Working})
  /\ \A s \in Slots : frames[s].state \in Working <=> s = active

\* What leaves the module is right, whatever is handed to it in between and whatever
\* the length of the payload: a sealed frame is one its receiver can open, and a frame
\* a neighbour has sealed is opened to its payload and accepted.
PayloadsRight ==
  \A s \in Slots :
    LET f == frames[s]
        sealed == SubSeq(f.text, 1, Len(f.plain))
    IN /\ f.state = "DELAY" =>
            /\ IsSealed(f.key, f.header, f.plain, sealed)
            /\ f.text = Append(sealed, Mic(f.key, f.header, sealed))
       /\ f.state = "INDICATE" => f.text = f.plain
       /\ f.state # "FINISH"

\* Every frame handed to the module is given back.
EveryFrameReturned ==
  \A s \in Slots : frames[s].state \in Pending ~> frames[s].state \in Returned
=============================================================================
