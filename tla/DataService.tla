---------------------------- MODULE DataService ----------------------------
(***************************************************************************)
(* What the data service promises the application (nwk/inc/nwkDataReq.h):  *)
(* a request is either turned down for want of a buffer or carried, and    *)
(* gets one answer, which does not change until it is confirmed. NwkNode   *)
(* implements this specification.                                          *)
(***************************************************************************)
CONSTANTS
  Reqs,         \* the application's NWK_DataReq_t structures
  CarriedStatuses, \* how the transmission of a request may end
  NoMemory      \* the answer to a request that was turned down

VARIABLES
  service,      \* the state of each request
  answer        \* its answer, when it has one

NoAnswer == "none"

Init ==
  /\ service = [r \in Reqs |-> "IDLE"]
  /\ answer = [r \in Reqs |-> NoAnswer]

Moves(r, from, to) == service[r] = from /\ service' = [service EXCEPT ![r] = to]

Request(r) == Moves(r, "IDLE", "QUEUED") /\ UNCHANGED answer

TurnDown(r) ==
  /\ Moves(r, "QUEUED", "ANSWERED")
  /\ answer' = [answer EXCEPT ![r] = NoMemory]

Carry(r) == Moves(r, "QUEUED", "CARRIED") /\ UNCHANGED answer

Answer(r) ==
  /\ Moves(r, "CARRIED", "ANSWERED")
  /\ \E s \in CarriedStatuses : answer' = [answer EXCEPT ![r] = s]

Confirm(r) ==
  /\ Moves(r, "ANSWERED", "IDLE")
  /\ answer' = [answer EXCEPT ![r] = NoAnswer]

Next ==
  \E r \in Reqs : Request(r) \/ TurnDown(r) \/ Carry(r) \/ Answer(r) \/ Confirm(r)

Spec == Init /\ [][Next]_<<service, answer>>
=============================================================================
