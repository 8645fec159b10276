------------------------ MODULE NwkDuplicatesProofs ------------------------
(***************************************************************************)
(* Theorems about NwkDuplicates, for any table, any window and any range   *)
(* of sequence numbers at least twice as large.                            *)
(*                                                                         *)
(* The inductive invariant says which frame each bit of a mask stands for: *)
(* bit b of an entry whose newest frame is n stands for frame n - b. That  *)
(* is true of the frames themselves, not of their numbers modulo SeqMod;   *)
(* lemma DiffIsExact is what connects the two, and needs the two limits on *)
(* the network.                                                            *)
(***************************************************************************)
EXTENDS NwkDuplicates, TLAPS

Live(e) == table[e].ttl > 0

\* Frame n is the newest heard of source s, and no frame kept is Window behind it.
Top(s, n) == n \in heard[s] /\ \A m \in heard[s] : m <= n /\ n - m < Window

\* The number and the mask of entry e are those of frame n and the frames behind it.
Tells(e, s, n) == /\ table[e].seq = Seq(n)
                  /\ \A b \in Bits : b \in table[e].mask <=> n - b \in heard[s]

\* The source has not got so far ahead of frame n that numbers come round.
InReach(s, n) == sent[s] - n <= SeqMod - Window

Windowed(e) ==
  \E n \in heard[table[e].src] :
    Top(table[e].src, n) /\ Tells(e, table[e].src, n) /\ InReach(table[e].src, n)

Windows == \A e \in Entries : Live(e) => Windowed(e)

\* Nothing is kept of a source without an entry.
Forgets == \A s \in Sources : (\A e \in Entries : Live(e) => table[e].src # s) => heard[s] = {}

HeardIsSent == \A s \in Sources : heard[s] \subseteq 1..sent[s]

Inv == TypeOK /\ OneEntry /\ TimerCovers /\ HeardIsSent /\ Forgets /\ Windows

-----------------------------------------------------------------------------
(***************************************************************************)
(* Arithmetic modulo m.                                                    *)
(***************************************************************************)
LEMMA ModRange ==
  ASSUME NEW m \in Nat \ {0}, NEW a \in Int
  PROVE  a % m \in 0..(m - 1)
OBVIOUS

LEMMA ModSmall ==
  ASSUME NEW m \in Nat \ {0}, NEW a \in Int, 0 <= a, a < m
  PROVE  a % m = a
OBVIOUS

LEMMA ModNegative ==
  ASSUME NEW m \in Nat \ {0}, NEW a \in Int, -m <= a, a < 0
  PROVE  a % m = a + m
OBVIOUS

LEMMA ModQuotient ==
  ASSUME NEW m \in Nat \ {0}, NEW a \in Int
  PROVE  a \div m \in Int /\ a = m * (a \div m) + (a % m)
OBVIOUS

LEMMA SmallMultiple ==
  ASSUME NEW m \in Nat \ {0}, NEW j \in Int, -m < m * j, m * j < m
  PROVE  j = 0
<1>1. ASSUME j >= 1 PROVE m * j >= m
  BY <1>1
<1>2. ASSUME j <= -1 PROVE m * j <= -m
  BY <1>2
<1> QED BY <1>1, <1>2

LEMMA Distributes ==
  ASSUME NEW m \in Int, NEW a \in Int, NEW b \in Int
  PROVE  m * (a - b) = m * a - m * b
OBVIOUS

LEMMA ModUnique ==
  ASSUME NEW m \in Nat \ {0}, NEW a \in Int, NEW b \in Int, NEW k \in Int,
         a = b + m * k
  PROVE  a % m = b % m
<1> DEFINE qa == a \div m
           qb == b \div m
           j == (k + qb) - qa
<1>1. qa \in Int /\ qb \in Int /\ a = m * qa + (a % m) /\ b = m * qb + (b % m)
  BY ModQuotient
<1>2. a % m \in 0..(m - 1) /\ b % m \in 0..(m - 1)
  BY ModRange
<1> HIDE DEF qa, qb
<1>3. m * j = m * (k + qb) - m * qa
  BY <1>1, Distributes
<1>4. m * (k + qb) = m * k + m * qb
  BY <1>1
<1>5. m * j = (a % m) - (b % m)
  <2> DEFINE mk == m * k
             ma == m * qa
             mb == m * qb
  <2>1. mk \in Int /\ ma \in Int /\ mb \in Int /\ a % m \in Int /\ b % m \in Int
    BY <1>1, <1>2
  <2>2. m * j = (mk + mb) - ma /\ a = b + mk /\ a = ma + (a % m) /\ b = mb + (b % m)
    BY <1>1, <1>3, <1>4
  <2> HIDE DEF mk, ma, mb, j
  <2> QED BY <2>1, <2>2
<1>6. j \in Int
  BY <1>1
<1> HIDE DEF j
<1>7. j = 0
  BY <1>2, <1>5, <1>6, SmallMultiple
<1>8. (a % m) - (b % m) = 0
  BY <1>5, <1>7
<1> QED BY <1>2, <1>8

\* A difference of remainders is a remainder of the difference.
LEMMA ModDifference ==
  ASSUME NEW m \in Nat \ {0}, NEW a \in Int, NEW b \in Int
  PROVE  ((a % m) - (b % m)) % m = (a - b) % m
<1> DEFINE qa == a \div m
           qb == b \div m
           k == qb - qa
<1>1. qa \in Int /\ qb \in Int /\ a = m * qa + (a % m) /\ b = m * qb + (b % m)
  BY ModQuotient
<1>2. a % m \in Int /\ b % m \in Int
  BY ModRange
<1> HIDE DEF qa, qb
<1>3. m * k = m * qb - m * qa
  BY <1>1, Distributes
<1>4. (a % m) - (b % m) = (a - b) + m * k
  BY <1>1, <1>2, <1>3
<1>5. k \in Int /\ (a % m) - (b % m) \in Int /\ a - b \in Int
  BY <1>1, <1>2
<1> DEFINE r == (a % m) - (b % m)
<1>6. r = (a - b) + m * k /\ r \in Int
  BY <1>4, <1>5
<1> HIDE DEF k, r
<1>7. r % m = (a - b) % m
  BY <1>5, <1>6, ModUnique
<1> QED BY <1>7 DEF r

-----------------------------------------------------------------------------
(***************************************************************************)
(* What the code computes, in terms of the frames.                         *)
(***************************************************************************)

\* The 8-bit difference is the distance to the newest frame when frame n is not
\* newer, and then a bit of the mask; else it is SeqMod short of the distance, and
\* no bit.
LEMMA DiffIsExact ==
  ASSUME TypeOK, NEW e \in Entries, NEW s \in Sources, NEW top \in Nat,
         table[e].seq = Seq(top), top <= sent[s], InReach(s, top),
         NEW n \in InFlight(s)
  PROVE  /\ n \in 1..sent[s] /\ n \in Int
         /\ n <= top => Diff(e, n) = top - n /\ Diff(e, n) \in Bits
         /\ n > top => Diff(e, n) = SeqMod - (n - top) /\ Diff(e, n) \notin Bits
<1>1. SeqMod \in Nat \ {0} /\ Window \in Nat \ {0} /\ 2 * Window <= SeqMod
  BY DuplicateAssumption
<1>2. sent[s] \in Nat
  BY DuplicateAssumption DEF TypeOK
<1>3. n \in 1..sent[s] /\ n \in Int /\ sent[s] - n < Window
  BY <1>2 DEF InFlight
<1>4. Diff(e, n) = (top - n) % SeqMod
  BY <1>1, <1>3, ModDifference DEF Diff, Seq
<1>5. CASE n <= top
  <2>1. 0 <= top - n /\ top - n < Window /\ top - n \in Int
    BY <1>1, <1>2, <1>3, <1>5
  <2>2. Diff(e, n) = top - n
    BY <1>1, <1>4, <2>1, ModSmall
  <2> QED BY <1>1, <1>3, <1>5, <2>1, <2>2 DEF Bits
<1>6. CASE n > top
  <2>1. n <= sent[s] /\ sent[s] - top <= SeqMod - Window
    BY <1>3, <1>2 DEF InReach
  <2>2. n - top <= SeqMod - Window /\ n - top > 0 /\ top - n \in Int
    BY <1>1, <1>2, <1>3, <1>6, <2>1
  <2>3. -SeqMod <= top - n /\ top - n < 0
    BY <1>1, <1>3, <1>6, <2>2
  <2>4. Diff(e, n) = (top - n) + SeqMod
    BY <1>1, <1>4, <2>2, <2>3, ModNegative
  <2> QED BY <1>1, <1>3, <1>6, <2>2, <2>4 DEF Bits
<1> QED BY <1>3, <1>5, <1>6, <1>2

\* The loop of the code stops at the live entry of the source, if there is one.
LEMMA EntryFound ==
  ASSUME TypeOK, OneEntry, NEW s \in Sources
  PROVE  /\ \A e \in Entries : IsEntryOf(e, s) <=> Live(e) /\ table[e].src = s
         /\ HasEntry(s) <=> \E e \in Entries : Live(e) /\ table[e].src = s
<1>1. \A e \in Entries : table[e].ttl \in Nat
  BY DuplicateAssumption DEF TypeOK, EntryType
<1>2. ASSUME NEW e \in Entries, Live(e), table[e].src = s PROVE IsEntryOf(e, s)
  <2>1. ASSUME NEW f \in Entries, f < e, table[f].ttl # 0, table[f].src = s PROVE FALSE
    BY <1>1, <1>2, <2>1 DEF OneEntry, Live, Entries
  <2> QED BY <1>2, <2>1 DEF IsEntryOf, Live
<1> QED BY <1>2 DEF IsEntryOf, HasEntry, Live

\* The newest frame is one.
LEMMA TopIsNewest ==
  ASSUME NEW s \in Sources, NEW n, Top(s, n), heard[s] \subseteq Nat
  PROVE  Newest(s) = n
<1>1. n \in heard[s] /\ \A m \in heard[s] : m <= n
  BY DEF Top
<1>2. Newest(s) \in heard[s] /\ \A m \in heard[s] : m <= Newest(s)
  BY <1>1 DEF Newest
<1> QED BY <1>1, <1>2

-----------------------------------------------------------------------------
(***************************************************************************)
(* The invariant.                                                          *)
(***************************************************************************)
LEMMA InitInv == Init => Inv
<1> SUFFICES ASSUME Init PROVE Inv
  OBVIOUS
<1> PICK s \in Sources : table = [e \in Entries |-> [src |-> s, seq |-> 0, mask |-> {}, ttl |-> 0]]
  BY DEF Init
<1>1. TypeOK
  <2> DEFINE free == [src |-> s, seq |-> 0, mask |-> {}, ttl |-> 0]
  <2>1. 0 \in 0..(SeqMod - 1) /\ 0 \in 0..Ttl /\ 0 \in 0..MaxSent
    BY DuplicateAssumption
  <2>2. free \in EntryType
    BY <2>1 DEF EntryType
  <2>3. table = [e \in Entries |-> free]
    OBVIOUS
  <2> HIDE DEF free
  <2> QED BY <2>1, <2>2, <2>3 DEF Init, TypeOK
<1>2. \A e \in Entries : ~Live(e)
  BY DEF Live
<1>3. OneEntry /\ TimerCovers /\ Windows
  BY <1>2 DEF OneEntry, TimerCovers, Windows, Live
<1>4. HeardIsSent /\ Forgets
  BY DEF Init, HeardIsSent, Forgets
<1> QED BY <1>1, <1>3, <1>4 DEF Inv

\* What a step must say of the entry it changes, when the others keep their sources
\* and what is heard of those: the invariant is about one entry at a time.
LEMMA OthersWindowed ==
  ASSUME Inv, TypeOK', NEW e \in Entries, NEW s \in Sources,
         sent' = sent,
         \A f \in Entries \ {e} : table'[f] = table[f],
         \A t \in Sources \ {s} : heard'[t] = heard[t],
         \A f \in Entries \ {e} : Live(f) => table[f].src # s,
         table'[e].src = s, Live(e)', Windowed(e)', timer',
         heard'[s] \subseteq 1..sent[s],
         Live(e) => table[e].src = s
  PROVE  Inv'
<1>1. \A f \in Entries : table[f].src \in Sources /\ table'[f].src \in Sources
  BY DEF Inv, TypeOK, EntryType
<1>2. OneEntry'
  BY <1>1 DEF Inv, OneEntry, Live
<1>3. TimerCovers'
  BY DEF TimerCovers
<1>4. HeardIsSent'
  BY DEF Inv, HeardIsSent
<1>5. Forgets'
  <2> SUFFICES ASSUME NEW t \in Sources, \A f \in Entries : Live(f)' => table'[f].src # t
               PROVE  heard'[t] = {}
    BY DEF Forgets
  <2>1. t # s
    OBVIOUS
  <2>2. \A f \in Entries : Live(f) => table[f].src # t
    BY <2>1 DEF Live
  <2> QED BY <2>1, <2>2 DEF Inv, Forgets
<1>6. Windows'
  <2> SUFFICES ASSUME NEW f \in Entries, Live(f)' PROVE Windowed(f)'
    BY DEF Windows
  <2>1. CASE f = e
    BY <2>1
  <2>2. CASE f # e
    <3>1. Live(f) /\ table'[f] = table[f] /\ table[f].src # s /\ table[f].src \in Sources
      BY <1>1, <2>2 DEF Live
    <3>2. heard'[table[f].src] = heard[table[f].src]
      BY <3>1
    <3>3. Windowed(f)
      BY <3>1 DEF Inv, Windows
    <3> QED BY <3>1, <3>2, <3>3 DEF Windowed, Top, Tells, InReach
  <2> QED BY <2>1, <2>2
<1> QED BY <1>2, <1>3, <1>4, <1>5, <1>6 DEF Inv

\* A source that sends a frame stays in reach.
LEMMA SendInv == ASSUME Inv, NEW s \in Sources, Send(s) PROVE Inv'
<1>1. TypeOK'
  BY DuplicateAssumption DEF Inv, TypeOK, Send
<1>2. /\ sent \in [Sources -> Nat] /\ sent' = [sent EXCEPT ![s] = @ + 1]
      /\ UNCHANGED <<table, timer, heard>>
  BY DuplicateAssumption DEF Inv, TypeOK, Send
<1>3. OneEntry' /\ TimerCovers' /\ Forgets'
  BY <1>2 DEF Inv, OneEntry, TimerCovers, Forgets, Live
<1>4. HeardIsSent'
  <2> SUFFICES ASSUME NEW t \in Sources, NEW n \in heard[t] PROVE n \in 1..sent'[t]
    BY <1>2 DEF HeardIsSent
  <2>1. n \in 1..sent[t] /\ sent[t] \in Nat /\ sent'[t] \in {sent[t], sent[t] + 1}
    BY <1>2 DEF Inv, HeardIsSent
  <2> QED BY <2>1
<1>5. Windows'
  <2> SUFFICES ASSUME NEW e \in Entries, Live(e) PROVE Windowed(e)'
    BY <1>2 DEF Windows, Live
  <2>1. PICK t \in Sources : t = table[e].src
    BY DEF Inv, TypeOK, EntryType
  <2>2. PICK n \in heard[t] : Top(t, n) /\ Tells(e, t, n) /\ InReach(t, n)
    BY <2>1 DEF Inv, Windows, Windowed
  <2>3. Top(t, n)' /\ Tells(e, t, n)' /\ n \in heard'[t]
    BY <1>2, <2>2 DEF Top, Tells
  <2>4. InReach(t, n)'
    <3>1. heard[t] \subseteq Nat /\ n \in Nat /\ SeqMod \in Nat /\ Window \in Nat
      BY <2>1, DuplicateAssumption DEF Inv, TypeOK
    <3>2. CASE t # s
      BY <1>2, <2>1, <2>2, <3>2 DEF InReach
    <3>3. CASE t = s
      <4>1. sent[s] - n < SeqMod - Window
        BY <2>2, <3>1, <3>3, TopIsNewest DEF Send
      <4>2. sent'[s] = sent[s] + 1 /\ sent[s] \in Nat
        BY <1>2
      <4> QED BY <3>1, <3>3, <4>1, <4>2 DEF InReach
    <3> QED BY <3>2, <3>3
  <2> QED BY <1>2, <2>1, <2>3, <2>4 DEF Windowed
<1> QED BY <1>1, <1>3, <1>4, <1>5 DEF Inv

\* What the three ways to accept a frame have in common.
LEMMA Accepts ==
  ASSUME Inv, NEW s \in Sources, NEW n \in InFlight(s),
         heard' = [heard EXCEPT ![s] = Recent(@ \cup {n})], sent' = sent
  PROVE  /\ n \in 1..sent[s] /\ sent[s] \in Nat /\ sent[s] - n < Window
         /\ heard'[s] = Recent(heard[s] \cup {n})
         /\ heard'[s] \subseteq 1..sent[s]
         /\ \A t \in Sources \ {s} : heard'[t] = heard[t]
         /\ sent' \in [Sources -> 0..MaxSent]
         /\ heard' \in [Sources -> SUBSET (1..MaxSent)]
<1>1. sent[s] \in 0..MaxSent /\ heard \in [Sources -> SUBSET (1..MaxSent)]
  BY DEF Inv, TypeOK
<1>2. n \in 1..sent[s] /\ sent[s] - n < Window
  BY <1>1, DuplicateAssumption DEF InFlight
<1>3. heard[s] \subseteq 1..sent[s]
  BY DEF Inv, HeardIsSent
<1>4. Recent(heard[s] \cup {n}) \subseteq heard[s] \cup {n}
  BY DEF Recent
<1>5. Recent(heard[s] \cup {n}) \subseteq 1..sent[s] /\ Recent(heard[s] \cup {n}) \subseteq 1..MaxSent
  <2>1. sent[s] \in Nat /\ MaxSent \in Nat /\ sent[s] <= MaxSent
    BY <1>1, DuplicateAssumption
  <2>2. 1..sent[s] \subseteq 1..MaxSent
    BY <2>1
  <2> QED BY <1>2, <1>3, <1>4, <2>2
<1>6. heard'[s] = Recent(heard[s] \cup {n}) /\ \A t \in Sources \ {s} : heard'[t] = heard[t]
  BY <1>1
<1>7. heard' \in [Sources -> SUBSET (1..MaxSent)]
  BY <1>1, <1>5
<1>8. sent' \in [Sources -> 0..MaxSent]
  BY DEF Inv, TypeOK
<1>9. sent[s] \in Nat
  BY <1>1, DuplicateAssumption
<1> QED BY <1>2, <1>5, <1>6, <1>7, <1>8, <1>9

\* A frame within the window sets its own bit, and no other.
LEMMA AcceptInWindowInv ==
  ASSUME Inv, NEW s \in Sources, NEW n \in InFlight(s), NEW e \in Entries,
         AcceptInWindow(e, s, n),
         heard' = [heard EXCEPT ![s] = Recent(@ \cup {n})], sent' = sent
  PROVE  Inv'
<1>1. Live(e) /\ table[e].src = s /\ \A f \in Entries \ {e} : Live(f) => table[f].src # s
  BY EntryFound DEF AcceptInWindow, Inv, OneEntry, Live
<1>2. PICK top \in heard[s] : Top(s, top) /\ Tells(e, s, top) /\ InReach(s, top)
  BY <1>1 DEF Inv, Windows, Windowed
<1>3. heard[s] \subseteq 1..sent[s] /\ sent[s] \in Nat /\ top \in Nat /\ top <= sent[s]
  <2>1. heard[s] \subseteq 1..sent[s] /\ sent[s] \in Nat
    BY Accepts DEF Inv, HeardIsSent
  <2> QED BY <2>1
<1>4. n <= top /\ Diff(e, n) = top - n /\ Diff(e, n) \in Bits /\ n \in Int
  BY <1>2, <1>3, DiffIsExact DEF AcceptInWindow, Inv, Tells
<1>5. \A a, b \in heard[s] \cup {n} : b - a < Window
  <2>1. Window \in Nat
    BY DuplicateAssumption
  <2>2. \A a \in heard[s] \cup {n} : a \in Int /\ a <= top /\ top - a < Window
    BY <1>2, <1>3, <1>4, <2>1 DEF Top, Bits
  <2> QED BY <2>1, <2>2, <1>3
<1>6. heard'[s] = heard[s] \cup {n}
  BY <1>5, Accepts DEF Recent
<1> DEFINE new == [table[e] EXCEPT !.mask = @ \cup {Diff(e, n)}]
<1>7. table[e] \in EntryType /\ table' = [table EXCEPT ![e] = new] /\ timer' = timer
  BY DEF AcceptInWindow, Inv, TypeOK
<1>8. new \in EntryType
  BY <1>4, <1>7 DEF EntryType
<1>9. /\ new.src = s /\ new.seq = table[e].seq /\ new.ttl = table[e].ttl
      /\ new.mask = table[e].mask \cup {Diff(e, n)}
  BY <1>1, <1>7 DEF EntryType
<1> HIDE DEF new
<1>10. TypeOK'
  BY <1>7, <1>8, Accepts DEF Inv, TypeOK
<1>11. table'[e] = new /\ \A f \in Entries \ {e} : table'[f] = table[f]
  BY <1>7 DEF Inv, TypeOK
<1>12. Live(e)' /\ timer'
  BY <1>1, <1>7, <1>9, <1>11 DEF Live, Inv, TimerCovers
<1>13. Windowed(e)'
  <2>1. Top(s, top)'
    BY <1>2, <1>4, <1>5, <1>6 DEF Top
  <2>2. Tells(e, s, top)'
    <3>1. table'[e].seq = Seq(top)
      BY <1>2, <1>9, <1>11 DEF Tells
    <3>2. ASSUME NEW b \in Bits PROVE b \in table'[e].mask <=> top - b \in heard'[s]
      <4>1. b = Diff(e, n) <=> top - b = n
        BY <1>3, <1>4 DEF Bits
      <4>2. b \in table[e].mask <=> top - b \in heard[s]
        BY <1>2 DEF Tells
      <4> QED BY <4>1, <4>2, <1>6, <1>9, <1>11
    <3> QED BY <3>1, <3>2 DEF Tells
  <2>3. InReach(s, top)' /\ top \in heard'[s]
    BY <1>2, <1>6 DEF InReach
  <2> QED BY <1>9, <1>11, <2>1, <2>2, <2>3 DEF Windowed
<1>14. heard'[s] \subseteq 1..sent[s] /\ \A t \in Sources \ {s} : heard'[t] = heard[t]
  BY Accepts
<1> QED BY <1>1, <1>9, <1>10, <1>11, <1>12, <1>13, <1>14, OthersWindowed

LEMMA EntryRewritten ==
  ASSUME NEW entry \in EntryType, NEW q \in 0..(SeqMod - 1), NEW t \in 0..Ttl,
         NEW m \in SUBSET Bits
  PROVE  [entry EXCEPT !.seq = q, !.ttl = t, !.mask = m] \in EntryType
BY DEF EntryType

\* A frame ahead of the window shifts the mask: each bit goes on standing for its
\* frame, or leaves the window with it.
LEMMA AcceptAheadInv ==
  ASSUME Inv, NEW s \in Sources, NEW n \in InFlight(s), NEW e \in Entries,
         AcceptAhead(e, s, n),
         heard' = [heard EXCEPT ![s] = Recent(@ \cup {n})], sent' = sent
  PROVE  Inv'
<1> DEFINE shift == SeqMod - Diff(e, n)
<1>1. Live(e) /\ table[e].src = s /\ \A f \in Entries \ {e} : Live(f) => table[f].src # s
  BY EntryFound DEF AcceptAhead, Inv, OneEntry, Live
<1>2. PICK top \in heard[s] : Top(s, top) /\ Tells(e, s, top) /\ InReach(s, top)
  BY <1>1 DEF Inv, Windows, Windowed
<1>3. heard[s] \subseteq 1..sent[s] /\ sent[s] \in Nat /\ top \in Nat /\ top <= sent[s]
  <2>1. heard[s] \subseteq 1..sent[s] /\ sent[s] \in Nat
    BY Accepts DEF Inv, HeardIsSent
  <2> QED BY <2>1
<1>4. n > top /\ n \in Nat /\ n <= sent[s] /\ shift = n - top
  <2>1. n > top /\ n \in 1..sent[s] /\ Diff(e, n) = SeqMod - (n - top)
    BY <1>2, <1>3, DiffIsExact DEF AcceptAhead, Inv, Tells
  <2> QED BY <1>3, <2>1, DuplicateAssumption
<1> HIDE DEF shift
<1>5. Window \in Nat \ {0} /\ SeqMod \in Nat \ {0} /\ 2 * Window <= SeqMod /\ Ttl \in Nat \ {0}
  BY DuplicateAssumption
<1>6. heard'[s] = {m \in heard[s] \cup {n} : n - m < Window}
  <2>1. \A m \in heard[s] : m \in Nat /\ m <= top /\ m < n
    BY <1>2, <1>3, <1>4 DEF Top
  <2>2. ASSUME NEW m \in heard[s] \cup {n}, n - m < Window, NEW k \in heard[s] \cup {n}
        PROVE  k - m < Window
    BY <1>4, <1>5, <2>1, <2>2
  <2> QED BY <2>2, Accepts DEF Recent
<1>6a. n \in heard'[s] /\ \A m \in heard'[s] : m <= n /\ n - m < Window
  <2>1. \A m \in heard[s] : m \in Nat /\ m <= n
    BY <1>2, <1>3, <1>4 DEF Top
  <2>2. n - n < Window /\ n <= n
    BY <1>4, <1>5
  <2>3. \A m \in heard'[s] : m \in heard[s] \cup {n} /\ n - m < Window
    BY <1>6
  <2> QED BY <1>6, <2>1, <2>2, <2>3
<1> DEFINE new == Moved(table[e], n, shift)
<1>7. table[e] \in EntryType /\ table' = [table EXCEPT ![e] = new] /\ timer' = timer
  BY DEF AcceptAhead, Inv, TypeOK, shift
<1>8. Seq(n) \in 0..(SeqMod - 1)
  BY <1>4, <1>5, ModRange DEF Seq
<1>9. /\ new.src = s /\ new.seq = Seq(n) /\ new.ttl = Ttl
      /\ new.mask = ({b + shift : b \in table[e].mask} \cap Bits) \cup {0}
  BY <1>1, <1>7 DEF EntryType, Moved
<1>10. new \in EntryType
  <2>1. ({b + shift : b \in table[e].mask} \cap Bits) \cup {0} \in SUBSET Bits
    BY <1>5 DEF Bits
  <2>2. Ttl \in 0..Ttl
    BY <1>5
  <2> QED BY <1>7, <1>8, <2>1, <2>2, EntryRewritten DEF Moved
<1> HIDE DEF new
<1>11. TypeOK'
  BY <1>7, <1>10, Accepts DEF Inv, TypeOK
<1>12. table'[e] = new /\ \A f \in Entries \ {e} : table'[f] = table[f]
  BY <1>7 DEF Inv, TypeOK
<1>13. Live(e)' /\ timer'
  BY <1>1, <1>5, <1>7, <1>9, <1>12 DEF Live, Inv, TimerCovers
<1>14. Windowed(e)'
  <2>1. Top(s, n)'
    BY <1>6a DEF Top
  <2>2. Tells(e, s, n)'
    <3>1. table'[e].seq = Seq(n)
      BY <1>9, <1>12
    <3>2. ASSUME NEW b \in Bits PROVE b \in table'[e].mask <=> n - b \in heard'[s]
      <4>1. b \in Int /\ 0 <= b /\ b < Window
        BY <1>5 DEF Bits
      <4>2. n - b \in heard'[s] <=> b = 0 \/ n - b \in heard[s]
        <5> DEFINE x == n - b
        <5>1. n - x < Window /\ (x = n <=> b = 0)
          BY <1>4, <4>1
        <5> HIDE DEF x
        <5>2. x \in heard'[s] <=> b = 0 \/ x \in heard[s]
          BY <1>6, <5>1
        <5> QED BY <5>2 DEF x
      <4>3. CASE b < shift
        <5>1. n - b \notin heard[s]
          BY <1>2, <1>3, <1>4, <4>1, <4>3 DEF Top
        <5>2. \A c \in table[e].mask : c + shift # b
          BY <1>4, <1>3, <1>7, <4>1, <4>3, <1>5 DEF EntryType, Bits
        <5> QED BY <4>2, <5>1, <5>2, <1>9, <1>12, <1>5 DEF Bits
      <4>4. CASE b >= shift
        <5>1. b - shift \in Bits /\ b # 0
          BY <1>3, <1>4, <1>5, <4>1, <4>4 DEF Bits
        <5>2. n - b = top - (b - shift)
          BY <1>3, <1>4, <4>1
        <5>3. n - b \in heard[s] <=> b - shift \in table[e].mask
          BY <1>2, <5>1, <5>2 DEF Tells
        <5>4. (\E c \in table[e].mask : c + shift = b) <=> b - shift \in table[e].mask
          BY <1>3, <1>4, <1>5, <1>7, <4>1 DEF EntryType, Bits
        <5> QED BY <4>2, <5>1, <5>3, <5>4, <1>9, <1>12
      <4> QED BY <1>3, <1>4, <4>1, <4>3, <4>4
    <3> QED BY <3>1, <3>2 DEF Tells
  <2>3. InReach(s, n)' /\ n \in heard'[s]
    BY <1>2, <1>3, <1>4, <1>5, <1>6a DEF InReach
  <2> QED BY <1>9, <1>12, <2>1, <2>2, <2>3 DEF Windowed
<1>15. heard'[s] \subseteq 1..sent[s] /\ \A t \in Sources \ {s} : heard'[t] = heard[t]
  BY Accepts
<1> QED BY <1>1, <1>9, <1>11, <1>12, <1>13, <1>14, <1>15, OthersWindowed

\* The first frame of a source opens a window of its own.
LEMMA AcceptFirstInv ==
  ASSUME Inv, NEW s \in Sources, NEW n \in InFlight(s), NEW e \in Entries,
         AcceptFirst(e, s, n),
         heard' = [heard EXCEPT ![s] = Recent(@ \cup {n})], sent' = sent
  PROVE  Inv'
<1>1. ~Live(e) /\ \A f \in Entries : Live(f) => table[f].src # s
  BY EntryFound DEF AcceptFirst, LastFree, Inv, Live
<1>2. heard[s] = {}
  BY <1>1 DEF Inv, Forgets
<1>3. n \in Nat /\ sent[s] - n < Window /\ sent[s] \in Nat
  <2>1. n \in 1..sent[s] /\ sent[s] \in Nat /\ sent[s] - n < Window
    BY Accepts
  <2> QED BY <2>1
<1>4. Window \in Nat \ {0} /\ SeqMod \in Nat \ {0} /\ 2 * Window <= SeqMod /\ Ttl \in Nat \ {0}
  BY DuplicateAssumption
<1>5. heard'[s] = {n}
  <2>1. n - n < Window
    BY <1>3, <1>4
  <2> QED BY <1>2, <2>1, Accepts DEF Recent
<1> DEFINE new == NewEntry(s, n)
<1>6. table' = [table EXCEPT ![e] = new] /\ timer'
  BY DEF AcceptFirst, Starts
<1>7. new.src = s /\ new.seq = Seq(n) /\ new.ttl = Ttl /\ new.mask = {0}
  BY DEF NewEntry
<1>8. new \in EntryType
  <2>1. Seq(n) \in 0..(SeqMod - 1) /\ {0} \in SUBSET Bits /\ Ttl \in 0..Ttl
    BY <1>3, <1>4, ModRange DEF Seq, Bits
  <2> QED BY <2>1 DEF NewEntry, EntryType
<1> HIDE DEF new
<1>9. TypeOK'
  BY <1>6, <1>8, Accepts DEF Inv, TypeOK
<1>10. table'[e] = new /\ \A f \in Entries \ {e} : table'[f] = table[f]
  BY <1>6 DEF Inv, TypeOK
<1>11. Live(e)'
  BY <1>4, <1>7, <1>10 DEF Live
<1>12. Windowed(e)'
  <2>1. n - n < Window /\ n <= n
    BY <1>3, <1>4
  <2>2. Top(s, n)'
    BY <1>5, <2>1 DEF Top
  <2>3. \A b \in Bits : b \in {0} <=> n - b \in {n}
    BY <1>3 DEF Bits
  <2>4. Tells(e, s, n)'
    BY <1>5, <1>7, <1>10, <2>3 DEF Tells
  <2>5. InReach(s, n)'
    BY <1>3, <1>4 DEF InReach
  <2> QED BY <1>5, <1>7, <1>10, <2>2, <2>4, <2>5 DEF Windowed
<1>13. heard'[s] \subseteq 1..sent[s] /\ \A t \in Sources \ {s} : heard'[t] = heard[t]
  BY Accepts
<1> QED BY <1>1, <1>6, <1>7, <1>9, <1>10, <1>11, <1>12, <1>13, OthersWindowed

\* Entries expire with what was heard through them.
LEMMA TimerHandlerInv ==
  ASSUME Inv, nwkRxDuplicateRejectionTimerHandler
  PROVE  Inv'
<1> USE DEF nwkRxDuplicateRejectionTimerHandler
<1> DEFINE aged(e) == [table[e] EXCEPT !.ttl = IF @ > 0 THEN @ - 1 ELSE 0]
<1>1. \A e \in Entries : /\ table[e] \in EntryType /\ table[e].ttl \in 0..Ttl
                         /\ table[e].src \in Sources
  BY DEF Inv, TypeOK, EntryType
<1>2. \A e \in Entries :
        /\ table'[e].src = table[e].src /\ table'[e].seq = table[e].seq
        /\ table'[e].mask = table[e].mask
        /\ table'[e].ttl = IF table[e].ttl > 0 THEN table[e].ttl - 1 ELSE 0
  BY <1>1 DEF EntryType
<1>3. \A e \in Entries : Live(e)' => Live(e)
  <2> SUFFICES ASSUME NEW e \in Entries, Live(e)' PROVE Live(e)
    OBVIOUS
  <2>1. table'[e].ttl > 0 /\ table'[e].ttl = IF table[e].ttl > 0 THEN table[e].ttl - 1 ELSE 0
    BY <1>2 DEF Live
  <2>2. table[e].ttl > 0
    BY <2>1
  <2> QED BY <2>2 DEF Live
<1>4. ASSUME NEW s \in Sources
      PROVE  heard'[s] = heard[s] \/ heard'[s] = {}
  OBVIOUS
<1>5. TypeOK'
  <2>1. \A e \in Entries : aged(e) \in EntryType
    <3> SUFFICES ASSUME NEW e \in Entries PROVE aged(e) \in EntryType
      OBVIOUS
    <3> DEFINE t == IF table[e].ttl > 0 THEN table[e].ttl - 1 ELSE 0
    <3>1. t \in 0..Ttl
      BY <1>1, DuplicateAssumption
    <3>2. aged(e) = [table[e] EXCEPT !.ttl = t]
      OBVIOUS
    <3> HIDE DEF t, aged
    <3> QED BY <1>1, <3>1, <3>2 DEF EntryType
  <2>2. table' = [e \in Entries |-> aged(e)]
    OBVIOUS
  <2> HIDE DEF aged
  <2>3. table' \in [Entries -> EntryType]
    BY <2>1, <2>2
  <2>4. heard' \in [Sources -> SUBSET (1..MaxSent)]
    BY DEF Inv, TypeOK
  <2> QED BY <2>3, <2>4 DEF Inv, TypeOK, Restarts
<1>6. OneEntry'
  <2> SUFFICES ASSUME NEW e \in Entries, NEW f \in Entries,
                      Live(e)', Live(f)', table'[e].src = table'[f].src
               PROVE  e = f
    BY DEF OneEntry, Live
  <2>1. Live(e) /\ Live(f) /\ table[e].src = table[f].src
    BY <1>2, <1>3
  <2> QED BY <2>1 DEF Inv, OneEntry, Live
<1>7. TimerCovers'
  <2> SUFFICES ASSUME NEW e \in Entries, table'[e].ttl > 0 PROVE timer'
    BY DEF TimerCovers
  <2>1. table[e].ttl > 0
    BY <1>3 DEF Live
  <2> QED BY <2>1 DEF Restarts
<1>8. HeardIsSent'
  BY <1>4 DEF Inv, HeardIsSent
<1>9. Forgets'
  <2> SUFFICES ASSUME NEW s \in Sources, \A e \in Entries : Live(e)' => table'[e].src # s
               PROVE  heard'[s] = {}
    BY DEF Forgets
  <2>1. ~\E e \in Entries : table'[e].ttl > 0 /\ table'[e].src = s
    BY DEF Live
  <2> QED BY <2>1
<1>10. Windows'
  <2> SUFFICES ASSUME NEW e \in Entries, Live(e)' PROVE Windowed(e)'
    BY DEF Windows
  <2>1. PICK s \in Sources : s = table[e].src
    BY <1>1
  <2>2. heard'[s] = heard[s]
    BY <1>2, <2>1 DEF Live
  <2>3. Windowed(e)
    BY <1>3 DEF Inv, Windows
  <2> QED BY <1>2, <2>1, <2>2, <2>3 DEF Windowed, Top, Tells, InReach
<1> QED BY <1>5, <1>6, <1>7, <1>8, <1>9, <1>10 DEF Inv

LEMMA NextInv == Inv /\ [Next]_vars => Inv'
<1> SUFFICES ASSUME Inv, [Next]_vars PROVE Inv'
  OBVIOUS
<1>1. ASSUME NEW s \in Sources, Send(s) PROVE Inv'
  BY <1>1, SendInv
<1>2. ASSUME NEW s \in Sources, NEW n \in InFlight(s), nwkRxRejectDuplicate(s, n)
      PROVE  Inv'
  BY <1>2, AcceptInWindowInv, AcceptAheadInv, AcceptFirstInv DEF nwkRxRejectDuplicate
<1>3. CASE nwkRxDuplicateRejectionTimerHandler
  BY <1>3, TimerHandlerInv
<1>4. CASE UNCHANGED vars
  BY <1>4 DEF vars, Inv, TypeOK, OneEntry, TimerCovers, HeardIsSent, Forgets, Windows,
              Windowed, Top, Tells, InReach, Live
<1> QED BY <1>1, <1>2, <1>3, <1>4 DEF Next

-----------------------------------------------------------------------------
(***************************************************************************)
(* The theorems.                                                           *)
(***************************************************************************)
LEMMA InvAlways == Spec => []Inv
BY InitInv, NextInv, PTL DEF Spec

\* Every variable of duplicate rejection has its type: the 8-bit arithmetic on
\* numbers and masks (nwkRxRejectDuplicate) never leaves its range.
THEOREM DuplicatesTypeCorrect == Spec => []TypeOK
<1>1. Inv => TypeOK
  BY DEF Inv
<1> QED BY <1>1, InvAlways, PTL

\* A source has one entry at most, although the code stops its search at the first.
THEOREM EntryIsUnique == Spec => []OneEntry
<1>1. Inv => OneEntry
  BY DEF Inv
<1> QED BY <1>1, InvAlways, PTL

\* The one-shot timer of the table runs while an entry lives.
THEOREM TimerAlwaysCovers == Spec => []TimerCovers
<1>1. Inv => TimerCovers
  BY DEF Inv
<1> QED BY <1>1, InvAlways, PTL

\* No copy of a frame that was accepted is accepted again while its entry lives.
THEOREM DuplicatesAlwaysRejected == Spec => []DuplicatesRejected
<1>1. Inv => DuplicatesRejected
  <2> SUFFICES ASSUME Inv, NEW s \in Sources, NEW n \in InFlight(s) \cap heard[s]
               PROVE  Rejects(s, n)
    BY DEF DuplicatesRejected
  <2>1. PICK e \in Entries : Live(e) /\ table[e].src = s
    BY DEF Inv, Forgets
  <2>2. IsEntryOf(e, s) /\ HasEntry(s)
    BY <2>1, EntryFound DEF Inv
  <2>3. PICK top \in heard[s] : Top(s, top) /\ Tells(e, s, top) /\ InReach(s, top)
    BY <2>1 DEF Inv, Windows, Windowed
  <2>4. heard[s] \subseteq 1..sent[s] /\ sent[s] \in 0..MaxSent
    BY DEF Inv, HeardIsSent, TypeOK
  <2>5. top \in Nat /\ top <= sent[s] /\ n <= top
    BY <2>3, <2>4, DuplicateAssumption DEF Top
  <2>6. n \in Int /\ Diff(e, n) = top - n /\ Diff(e, n) \in Bits
    BY <2>3, <2>5, DiffIsExact DEF Inv, Tells
  <2>7. top - Diff(e, n) \in heard[s]
    BY <2>5, <2>6
  <2> QED BY <2>2, <2>3, <2>6, <2>7 DEF Rejects, Tells
<1> QED BY <1>1, InvAlways, PTL

\* No frame that is new is taken for a copy, although the numbers come round: it is
\* turned away only when its source is new and the table full.
THEOREM FreshAlwaysAccepted == Spec => []FreshAccepted
<1>1. Inv => FreshAccepted
  <2> SUFFICES ASSUME Inv, NEW s \in Sources, NEW n \in InFlight(s) \ heard[s],
                      Rejects(s, n), HasEntry(s)
               PROVE  FALSE
    BY DEF FreshAccepted, Rejects
  <2>1. PICK e \in Entries : IsEntryOf(e, s) /\ Diff(e, n) \in table[e].mask
    BY DEF Rejects
  <2>2. PICK top \in heard[s] : Top(s, top) /\ Tells(e, s, top) /\ InReach(s, top)
    BY <2>1 DEF Inv, Windows, Windowed, IsEntryOf, Live
  <2>3. heard[s] \subseteq 1..sent[s] /\ sent[s] \in 0..MaxSent
    BY DEF Inv, HeardIsSent, TypeOK
  <2>4. top \in Nat /\ top <= sent[s]
    BY <2>3, DuplicateAssumption
  <2>5. Diff(e, n) \in Bits
    BY <2>1 DEF Inv, TypeOK, EntryType
  <2>6. n \in Int /\ n <= top /\ Diff(e, n) = top - n
    BY <2>2, <2>4, <2>5, DiffIsExact DEF Inv, Tells
  <2>7. top - Diff(e, n) \in heard[s]
    BY <2>1, <2>2, <2>5 DEF Tells
  <2> QED BY <2>4, <2>6, <2>7
<1> QED BY <1>1, InvAlways, PTL
=============================================================================
