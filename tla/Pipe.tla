-------------------------------- MODULE Pipe --------------------------------
(***************************************************************************)
(* What the packet list of WNCATParser promises: the bytes enqueued for a  *)
(* socket come out for that socket, each once and in order, whatever is    *)
(* enqueued and taken for the others.  A byte is its position in the       *)
(* stream of its socket, counted from 0.                                   *)
(***************************************************************************)
EXTENDS Integers

CONSTANTS
  Ids,   \* the sockets
  Sizes  \* how many bytes may be enqueued or taken at once

VARIABLES
  arrived,  \* how many bytes have been enqueued for each socket
  taken,    \* how many of them have been taken
  out       \* the bytes the last call of _check_queue() returned, or nothing

\* The bytes from first to first + len - 1 of the stream of socket id.
Bytes(id, first, len) == [id |-> id, first |-> first, len |-> len]

Init ==
  /\ arrived = [i \in Ids |-> 0]
  /\ taken = [i \in Ids |-> 0]
  /\ out = << >>

Put(i, n) ==
  /\ arrived' = [arrived EXCEPT ![i] = arrived[i] + n]
  /\ UNCHANGED <<taken, out>>

\* With n = 0 the call returns 0: nothing to take.
Take(i, n) ==
  /\ taken[i] + n <= arrived[i]
  /\ taken' = [taken EXCEPT ![i] = taken[i] + n]
  /\ out' = IF n = 0 THEN << >> ELSE Bytes(i, taken[i], n)
  /\ UNCHANGED arrived

Next == \E i \in Ids, n \in Sizes : Put(i, n) \/ Take(i, n)

Spec == Init /\ [][Next]_<<arrived, taken, out>>
=============================================================================
