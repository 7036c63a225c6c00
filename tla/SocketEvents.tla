---------------------------- MODULE SocketEvents ----------------------------
(***************************************************************************)
(* Who is told that something has been received: event() of                *)
(* WNC14A2AInterface, which runs in the receive interrupt, calls the       *)
(* callback of each slot with its data; socket_attach() writes the two,    *)
(* one after the other, in the thread.                                     *)
(*                                                                         *)
(* The caller of socket_attach() is mbed's Socket, which is external: it   *)
(* attaches its handler with itself as the data once its socket is open,   *)
(* and detaches both before it closes the socket.                          *)
(***************************************************************************)
EXTENDS Integers

CONSTANTS
  Handles,  \* the sockets of the application
  Ids,      \* the slots of _cbs, numbers
  Nobody    \* the null pointer, for callback, data and handle

ASSUME NobodyAssumption ==
  Nobody \notin Handles \cup [id : Ids, data : Handles \cup {Nobody}]

VARIABLES
  cbs,      \* _cbs; the callback is Nobody or the handler of a socket
  writing,  \* the socket_attach() between its two writes, or Nobody
  owner,    \* the socket that has the slot and is not deleted yet, or Nobody
  closing   \* the sockets that have detached

evvars == <<cbs, writing, owner, closing>>

EvTypeOK ==
  /\ cbs \in [Ids -> [callback : {Nobody, "handler"}, data : Handles \cup {Nobody}]]
  /\ writing \in [id : Ids, data : Handles \cup {Nobody}] \cup {Nobody}
  /\ owner \in [Ids -> Handles \cup {Nobody}]
  /\ closing \subseteq Handles

\* memset() in the constructor.
EvInit ==
  /\ cbs = [i \in Ids |-> [callback |-> Nobody, data |-> Nobody]]
  /\ writing = Nobody
  /\ owner = [i \in Ids |-> Nobody]
  /\ closing = {}

\* What event() calls, slot and data, if the interrupt comes now.  It changes
\* nothing here.
Called == {<<i, cbs[i].data>> : i \in {j \in Ids : cbs[j].callback # Nobody}}
Event == UNCHANGED evvars

\* Mutant of SocketAttach: a null callback is ignored.
SocketAttachSome(i, callback, data) ==
  /\ writing = Nobody
  /\ cbs' = IF callback = Nobody THEN cbs ELSE [cbs EXCEPT ![i].callback = callback]
  /\ writing' = [id |-> i, data |-> data]

\* The first write of socket_attach().
SocketAttach(i, callback, data) ==
  /\ writing = Nobody
  /\ cbs' = [cbs EXCEPT ![i].callback = callback]
  /\ writing' = [id |-> i, data |-> data]

\* Mutant of SocketAttachData: it always writes to the first slot.
SocketAttachDataFirst ==
  /\ writing # Nobody
  /\ cbs' = [cbs EXCEPT ![1].data = writing.data]
  /\ writing' = Nobody
  /\ UNCHANGED <<owner, closing>>

\* The second.
SocketAttachData ==
  /\ writing # Nobody
  /\ cbs' = [cbs EXCEPT ![writing.id].data = writing.data]
  /\ writing' = Nobody
  /\ UNCHANGED <<owner, closing>>

\* Socket::open(): socket_open() has found the lowest free slot, and the handler is
\* attached.
Open(h, i) ==
  /\ owner[i] = Nobody /\ \A j \in Ids : owner[j] # h /\ (j < i => owner[j] # Nobody)
  /\ SocketAttach(i, "handler", h)
  /\ owner' = [owner EXCEPT ![i] = h]
  /\ UNCHANGED closing

\* Socket::close() detaches ...
Detach(h, i) ==
  /\ owner[i] = h /\ h \notin closing
  /\ SocketAttach(i, Nobody, Nobody)
  /\ closing' = closing \cup {h}
  /\ UNCHANGED owner

\* ... and calls socket_close(), which frees the slot and leaves _cbs alone.
Close(h, i) ==
  /\ owner[i] = h /\ h \in closing /\ writing = Nobody
  /\ owner' = [owner EXCEPT ![i] = Nobody]
  /\ closing' = closing \ {h}
  /\ UNCHANGED <<cbs, writing>>

EvThread ==
  \/ SocketAttachData
  \/ \E h \in Handles, i \in Ids : Open(h, i) \/ Detach(h, i) \/ Close(h, i)

EvNext == Event \/ EvThread

EvSpec == EvInit /\ [][EvNext]_evvars

-----------------------------------------------------------------------------
(* Properties. *)

\* A handler that the interrupt calls is given the socket that has the slot and
\* has not detached, or nothing (attached, but its data not yet written): never a
\* socket that is closing, is closed, or has another slot.
OwnOrNone ==
  \A call \in Called :
    /\ owner[call[1]] # Nobody
    /\ owner[call[1]] \notin closing
    /\ call[2] \in {Nobody, owner[call[1]]}

\* Once a socket has attached, everything received until it detaches is told to it.
Informed ==
  \A i \in Ids :
    owner[i] # Nobody /\ owner[i] \notin closing /\ writing = Nobody
      => cbs[i] = [callback |-> "handler", data |-> owner[i]]
=============================================================================
