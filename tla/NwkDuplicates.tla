--------------------------- MODULE NwkDuplicates ---------------------------
(***************************************************************************)
(* Duplicate rejection in one node (nwk/src/nwkRx.c): a frame reaches a    *)
(* node by several paths, and the table of the sources heard lately, with  *)
(* a window over their sequence numbers, tells the first copy from the     *)
(* others. It is also what ends the rebroadcast of a flooded frame.        *)
(*                                                                         *)
(* The sources number their frames 1, 2, 3, ...; the header carries the    *)
(* number modulo SeqMod. The network delivers the copies of a frame in any *)
(* order and loses any of them, within the two limits Send and InFlight    *)
(* state: without such limits a number says nothing about its frame.       *)
(*                                                                         *)
(* heard[s] is a history variable: the frames accepted through the entry s *)
(* has now, those that the window has left behind excepted.                *)
(***************************************************************************)
EXTENDS Integers, FiniteSets

CONSTANTS
  TableSize,  \* NWK_DUPLICATE_REJECTION_TABLE_SIZE
  Sources,    \* the network addresses of the other nodes
  SeqMod,     \* number of values of nwkSeq, 256 in the code
  Window,     \* bits of an entry's mask, 8 in the code
  Ttl,        \* DUPLICATE_REJECTION_TTL, in ticks of the timer
  MaxSent     \* bound: frames a source sends

ASSUME DuplicateAssumption ==
  /\ TableSize \in Nat \ {0}
  /\ Window \in Nat \ {0}
  /\ SeqMod \in Nat /\ 2 * Window <= SeqMod
  /\ Ttl \in Nat \ {0}
  /\ MaxSent \in Nat

VARIABLES
  table,  \* nwkRxDuplicateRejectionTable
  timer,  \* nwkRxDuplicateRejectionTimer is running
  sent,   \* the number of the last frame of each source
  heard   \* the frames accepted, see above

vars == <<table, timer, sent, heard>>

Entries == 1..TableSize
Bits == 0..(Window - 1)

\* NwkDuplicateRejectionEntry_t; the mask is the set of its bits that are set.
EntryType == [src : Sources, seq : 0..(SeqMod - 1), mask : SUBSET Bits, ttl : 0..Ttl]

\* src, seq and mask mean nothing in an entry whose ttl is zero.
Init == /\ \E s \in Sources :
             table = [e \in Entries |-> [src |-> s, seq |-> 0, mask |-> {}, ttl |-> 0]]
        /\ timer = FALSE
        /\ sent = [s \in Sources |-> 0]
        /\ heard = [s \in Sources |-> {}]

-----------------------------------------------------------------------------
(***************************************************************************)
(* nwkRxRejectDuplicate, for frame n of source s.                          *)
(***************************************************************************)
Seq(n) == n % SeqMod

\* Faulty variant, for mutation: the loop stops at a free entry too.
IsEntryOf_UpToFree(e, s) == /\ table[e].ttl > 0 /\ table[e].src = s
                            /\ \A f \in Entries : f < e => table[f].ttl > 0 /\ table[f].src # s

\* The loop stops at entry e, which is the source's, or goes past the last one.
IsEntryOf(e, s) == /\ table[e].ttl > 0 /\ table[e].src = s
                   /\ \A f \in Entries : f < e => table[f].ttl = 0 \/ table[f].src # s
HasEntry(s) == \E e \in Entries : IsEntryOf(e, s)

\* How far the frame is behind the newest of the entry, in 8-bit arithmetic.
Diff(e, n) == (table[e].seq - Seq(n)) % SeqMod

Full == \A e \in Entries : table[e].ttl > 0

\* The return value. A difference in Bits is "diff < 8".
Rejects(s, n) ==
  IF HasEntry(s) THEN \E e \in Entries : IsEntryOf(e, s) /\ Diff(e, n) \in table[e].mask
  ELSE Full

\* Faulty variant, for mutation: the mask does not move with the window.
Moved_KeepsMask(entry, n, shift) ==
  [entry EXCEPT !.seq = Seq(n), !.mask = @ \cup {0}, !.ttl = Ttl]

\* The entry when the frame is newer than its window: the mask is shifted left.
Moved(entry, n, shift) ==
  [entry EXCEPT !.seq = Seq(n), !.ttl = Ttl,
                !.mask = ({b + shift : b \in @} \cap Bits) \cup {0}]

\* The entry that the loop of the code found free last.
LastFree(e) == /\ table[e].ttl = 0
               /\ \A f \in Entries : f > e => table[f].ttl > 0

\* Faulty variant, for mutation: the mask of the first frame is left empty.
NewEntry_NoMask(s, n) == [src |-> s, seq |-> Seq(n), mask |-> {}, ttl |-> Ttl]

\* The entry the code turns a free one into.
NewEntry(s, n) == [src |-> s, seq |-> Seq(n), mask |-> {0}, ttl |-> Ttl]

\* Faulty variant, for mutation: the timer is not started.
Starts_Never == timer

Starts == TRUE

Newest(s) == CHOOSE n \in heard[s] : \A m \in heard[s] : m <= n

\* What the history keeps of the frames accepted.
Recent(ns) == {n \in ns : \A m \in ns : m - n < Window}

\* The frame is within the window, and new.
AcceptInWindow(e, s, n) ==
  /\ IsEntryOf(e, s)
  /\ Diff(e, n) \in Bits \ table[e].mask
  /\ table' = [table EXCEPT ![e].mask = @ \cup {Diff(e, n)}]
  /\ timer' = timer

\* The frame moves the window.
AcceptAhead(e, s, n) ==
  /\ IsEntryOf(e, s)
  /\ Diff(e, n) \notin Bits
  /\ table' = [table EXCEPT ![e] = Moved(@, n, SeqMod - Diff(e, n))]
  /\ timer' = timer

\* The frame is the first of its source for some time.
AcceptFirst(e, s, n) ==
  /\ ~HasEntry(s)
  /\ LastFree(e)
  /\ table' = [table EXCEPT ![e] = NewEntry(s, n)]
  /\ timer' = Starts

\* A rejected frame changes nothing here (a routed one removes a route).
nwkRxRejectDuplicate(s, n) ==
  /\ \E e \in Entries : AcceptInWindow(e, s, n) \/ AcceptAhead(e, s, n) \/ AcceptFirst(e, s, n)
  /\ heard' = [heard EXCEPT ![s] = Recent(@ \cup {n})]
  /\ sent' = sent

-----------------------------------------------------------------------------
\* Faulty variant, for mutation: the timer stops as soon as an entry expires.
Restarts_UntilExpiry == \A e \in Entries : table[e].ttl # 1

\* The handler starts its timer again if it has counted an entry down.
Restarts == \E e \in Entries : table[e].ttl > 0

\* nwkRxDuplicateRejectionTimerHandler. What was heard through an entry that
\* expires is forgotten with it.
nwkRxDuplicateRejectionTimerHandler ==
  /\ timer
  /\ table' = [e \in Entries |-> [table[e] EXCEPT !.ttl = IF @ > 0 THEN @ - 1 ELSE 0]]
  /\ timer' = Restarts
  /\ heard' = [s \in Sources |->
       IF \E e \in Entries : table'[e].ttl > 0 /\ table'[e].src = s THEN heard[s] ELSE {}]
  /\ sent' = sent

-----------------------------------------------------------------------------
(***************************************************************************)
(* The other nodes. A source the node has heard does not get so far ahead, *)
(* while the entry lives, that its numbers come round to the window again; *)
(* no copy is Window or more frames behind the last frame of its source.   *)
(***************************************************************************)
Send(s) == /\ sent[s] < MaxSent
           /\ heard[s] # {} => sent[s] - Newest(s) < SeqMod - Window
           /\ sent' = [sent EXCEPT ![s] = @ + 1]
           /\ UNCHANGED <<table, timer, heard>>

InFlight(s) == {n \in 1..sent[s] : sent[s] - n < Window}

Next ==
  \/ \E s \in Sources : Send(s)
  \/ \E s \in Sources : \E n \in InFlight(s) : nwkRxRejectDuplicate(s, n)
  \/ nwkRxDuplicateRejectionTimerHandler

Spec == Init /\ [][Next]_vars

\* A timer that runs comes due.
FairSpec == Spec /\ WF_vars(nwkRxDuplicateRejectionTimerHandler)

-----------------------------------------------------------------------------
(***************************************************************************)
(* Properties.                                                             *)
(***************************************************************************)

\* Every variable has the type of the C variable it stands for.
TypeOK == /\ table \in [Entries -> EntryType]
          /\ timer \in BOOLEAN
          /\ sent \in [Sources -> 0..MaxSent]
          /\ heard \in [Sources -> SUBSET (1..MaxSent)]

\* A source has one entry at most: its window is never split over two, of which
\* nwkRxRejectDuplicate would see the first only.
OneEntry ==
  \A e, f \in Entries : table[e].ttl > 0 /\ table[f].ttl > 0 /\ table[e].src = table[f].src
                         => e = f

\* While an entry lives its timer runs, so that it expires.
TimerCovers == (\E e \in Entries : table[e].ttl > 0) => timer

\* A copy of a frame that was accepted is rejected as long as the entry lives,
\* in whatever order the copies come and although the numbers wrap around.
DuplicatesRejected ==
  \A s \in Sources : \A n \in InFlight(s) \cap heard[s] : Rejects(s, n)

\* A frame that was not is never taken for a duplicate: it is rejected only when
\* its source is new and no entry is free.
FreshAccepted ==
  \A s \in Sources : \A n \in InFlight(s) \ heard[s] :
    Rejects(s, n) => ~HasEntry(s) /\ Full

\* A table full of sources that have fallen silent does not stay full: the node
\* does not stay deaf to the others.
TableFrees == Full ~> ~Full
=============================================================================
