----------------------------- MODULE PacketQueue ----------------------------
(***************************************************************************)
(* The packets of WNCATParser as those who call _enqueue() and             *)
(* _check_queue() see them: a sequence, without links, blocks and walks.   *)
(* A call takes effect in one step.  Recv keeps its packets in this form,  *)
(* and PacketList implements it.                                           *)
(***************************************************************************)
EXTENDS SequencesExt

CONSTANTS
  Ids,      \* the sockets
  Packets,  \* what may be enqueued: records with an id, a first byte and a len
  Amounts   \* sizes of the callers' buffers

VARIABLES
  queue,  \* the packets, the oldest first
  out     \* the bytes the last _check_queue() returned, or nothing

Init == queue = << >> /\ out = << >>

Enqueue(p) == queue' = Append(queue, p) /\ UNCHANGED out

\* The packet at k is the oldest of socket i.
Oldest(k, i) == queue[k].id = i /\ \A j \in 1 .. k - 1 : queue[j].id # i

\* The first n bytes of a packet; the caller takes none for an empty queue.
Out(p, n) == IF n = 0 THEN << >> ELSE [p EXCEPT !.len = n]

\* The buffer has room for n bytes, enough for the oldest packet: it is removed.
TakeWhole(i, n) ==
  \E k \in 1 .. Len(queue) :
    /\ Oldest(k, i) /\ queue[k].len <= n
    /\ out' = Out(queue[k], queue[k].len)
    /\ queue' = RemoveAt(queue, k)

\* It has not: the rest of the packet stays in its place.
TakePart(i, n) ==
  \E k \in 1 .. Len(queue) :
    /\ Oldest(k, i) /\ queue[k].len > n
    /\ out' = Out(queue[k], n)
    /\ queue' = [queue EXCEPT ![k].first = @ + n, ![k].len = @ - n]

TakeNothing(i) ==
  /\ \A k \in 1 .. Len(queue) : queue[k].id # i
  /\ out' = << >>
  /\ UNCHANGED queue

Next ==
  \/ \E p \in Packets : Enqueue(p)
  \/ \E i \in Ids, n \in Amounts : TakeWhole(i, n) \/ TakePart(i, n) \/ TakeNothing(i)

Spec == Init /\ [][Next]_<<queue, out>>
=============================================================================
