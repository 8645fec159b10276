---------------------------- MODULE BoundedFifo ----------------------------
(***************************************************************************)
(* What each direction of a UART promises: the bytes accepted come out     *)
(* once, in order. HalUart's two directions implement this specification.  *)
(***************************************************************************)
EXTENDS Integers, Sequences

CONSTANTS
  Bytes,      \* the bytes that go through
  Capacity,   \* bytes that may be on their way
  NoByte      \* nothing has come out yet

VARIABLES
  queue,      \* bytes accepted and not yet out
  out         \* the last byte that came out

vars == <<queue, out>>

Init == queue = <<>> /\ out = NoByte

Put(b) ==
  /\ Len(queue) < Capacity
  /\ queue' = Append(queue, b)
  /\ UNCHANGED out

Get ==
  /\ queue # <<>>
  /\ out' = Head(queue)
  /\ queue' = Tail(queue)

Next == Get \/ \E b \in Bytes : Put(b)

Spec == Init /\ [][Next]_vars
=============================================================================
