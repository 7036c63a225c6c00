---------------------------- MODULE SocketTable ----------------------------
(***************************************************************************)
(* What WNC14A2AInterface promises of its table _sockets: a slot serves    *)
(* one socket at a time.  A socket gets the lowest free slot, and gives it *)
(* back when it is closed, whatever the modem says.  A slot is lost when   *)
(* the modem does not open its socket: no handle is left to close it with. *)
(***************************************************************************)
EXTENDS Integers

CONSTANTS
  Handles,  \* the sockets of the application
  Ids       \* the slots that socket_open() considers, numbers

\* A slot that serves nobody; no socket has these names.
Free == "free"
Lost == "lost"

VARIABLE owner  \* whom each slot serves

TypeOK == owner \in [Ids -> Handles \cup {Free, Lost}]

Init == owner = [i \in Ids |-> Free]

Acquire(h, i) ==
  /\ owner[i] = Free
  /\ \A j \in Ids : owner[j] = Free => i <= j
  /\ \A j \in Ids : owner[j] # h
  /\ owner' = [owner EXCEPT ![i] = h]

Lose(h, i) == owner[i] = h /\ owner' = [owner EXCEPT ![i] = Lost]

Release(h, i) == owner[i] = h /\ owner' = [owner EXCEPT ![i] = Free]

Next == \E h \in Handles, i \in Ids : Acquire(h, i) \/ Lose(h, i) \/ Release(h, i)

Spec == Init /\ [][Next]_owner
=============================================================================
