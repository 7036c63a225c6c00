----------------------------- MODULE PacketList -----------------------------
(***************************************************************************)
(* The received packets of WNCATParser: a singly linked list _packets with *)
(* a pointer _packets_end to the link at which the next packet goes.       *)
(* _enqueue() appends a packet; _check_queue() walks along the links to    *)
(* the first packet of a socket and returns it, or as much of it as the    *)
(* caller has room for.  The packets live in blocks of the heap, which     *)
(* malloc() may give again as soon as they have been freed.                *)
(*                                                                         *)
(* A byte is its position in the stream of its socket: a packet holds the  *)
(* bytes first .. first + len - 1.                                         *)
(***************************************************************************)
EXTENDS SequencesExt

CONSTANTS
  Ids,       \* the sockets
  Blocks,    \* blocks of the heap
  Null,      \* the null pointer
  Root,      \* the link _packets; the others are the `next` of a block
  Lens,      \* lengths of the packets that arrive
  Amounts,   \* sizes of the callers' buffers
  MaxBytes   \* bound: bytes that arrive for a socket

ASSUME LinkAssumption == Null \notin Blocks /\ Root \notin Blocks /\ Null # Root
ASSUME LenAssumption == Lens \subseteq Nat /\ Amounts \subseteq Nat /\ MaxBytes \in Nat

Links == Blocks \cup {Root}

VARIABLES
  link,     \* what each link points to
  end,      \* _packets_end: a pointer to a link
  packet,   \* id, len and data of each block
  heap,     \* the blocks that are allocated
  at,       \* p, the link that a running _check_queue() is at; else Null
  want,     \* id and amount of that call
  out,      \* the bytes the last _check_queue() returned, or nothing
  arrived,  \* ghost: how many bytes have been enqueued for each socket
  taken,    \* ghost: how many of them have been returned
  list      \* ghost: the blocks of the list in order

vars == <<link, end, packet, heap, at, want, out, arrived, taken, list>>

Bytes(id, first, len) == [id |-> id, first |-> first, len |-> len]

TypeOK ==
  /\ link \in [Links -> Blocks \cup {Null}]
  /\ end \in Links
  /\ packet \in [Blocks -> [id : Ids, first : Nat, len : Nat]]
  /\ heap \subseteq Blocks
  /\ at \in Links \cup {Null}
  /\ want \in [id : Ids, amount : Nat]
  /\ out \in {<< >>} \cup [id : Ids, first : Nat, len : Nat]
  /\ arrived \in [Ids -> 0 .. MaxBytes]
  /\ taken \in [Ids -> 0 .. MaxBytes]
  /\ list \in Seq(Blocks)

\* What a block or a local variable holds before it is written does not matter.
Init ==
  /\ link = [l \in Links |-> Null]
  /\ end = Root
  /\ \E i \in Ids : /\ packet = [b \in Blocks |-> [id |-> i, first |-> 0, len |-> 0]]
                    /\ want = [id |-> i, amount |-> 0]
  /\ heap = {}
  /\ at = Null
  /\ out = << >>
  /\ arrived = [i \in Ids |-> 0]
  /\ taken = [i \in Ids |-> 0]
  /\ list = << >>

-----------------------------------------------------------------------------

\* Mutant of Enqueue: the packet goes to the front of the list.
EnqueueFront(i, n) ==
  /\ at = Null
  /\ arrived[i] + n <= MaxBytes
  /\ \E b \in Blocks \ heap :
       /\ heap' = heap \cup {b}
       /\ packet' = [packet EXCEPT ![b] = Bytes(i, arrived[i], n)]
       /\ link' = [link EXCEPT ![b] = link[Root], ![Root] = b]
       /\ end' = IF end = Root THEN b ELSE end
       /\ list' = <<b>> \o list
  /\ arrived' = [arrived EXCEPT ![i] = arrived[i] + n]
  /\ UNCHANGED <<at, want, out, taken>>

\* _enqueue(): `*_packets_end = packet; _packets_end = &packet->next`.  When
\* malloc() fails it returns -1 and leaves the list as it is.
Enqueue(i, n) ==
  /\ at = Null
  /\ arrived[i] + n <= MaxBytes
  /\ \E b \in Blocks \ heap :
       /\ heap' = heap \cup {b}
       /\ packet' = [packet EXCEPT ![b] = Bytes(i, arrived[i], n)]
       /\ link' = [link EXCEPT ![b] = Null, ![end] = b]
       /\ end' = b
       /\ list' = Append(list, b)
  /\ arrived' = [arrived EXCEPT ![i] = arrived[i] + n]
  /\ UNCHANGED <<at, want, out, taken>>

\* _check_queue(id, data, amount).
CheckQueue(i, n) ==
  /\ at = Null
  /\ at' = Root
  /\ want' = [id |-> i, amount |-> n]
  /\ UNCHANGED <<link, end, packet, heap, out, arrived, taken, list>>

Here == link[at]

\* `p = &(*p)->next`.
Walk ==
  /\ at # Null /\ Here # Null
  /\ packet[Here].id # want.id
  /\ at' = Here
  /\ UNCHANGED <<link, end, packet, heap, want, out, arrived, taken, list>>

Return == at' = Null /\ UNCHANGED <<want, arrived>>

\* The end of the list: 0.
ReturnNothing ==
  /\ at # Null /\ Here = Null
  /\ out' = << >>
  /\ Return
  /\ UNCHANGED <<link, end, packet, heap, taken, list>>

\* The first n bytes of a packet.  The caller takes a packet without bytes for
\* the end of the list.
Give(p, n) ==
  /\ out' = IF n = 0 THEN << >> ELSE Bytes(p.id, p.first, n)
  /\ taken' = [taken EXCEPT ![p.id] = taken[p.id] + n]

Found == at # Null /\ Here # Null /\ packet[Here].id = want.id

\* Mutant of ReturnPacket: _packets_end is left where it was.
ReturnPacketOnly ==
  /\ Found /\ packet[Here].len <= want.amount
  /\ Give(packet[Here], packet[Here].len)
  /\ link' = [link EXCEPT ![at] = link[Here]]
  /\ heap' = heap \ {Here}
  /\ list' = RemoveAt(list, CHOOSE k \in DOMAIN list : list[k] = Here)
  /\ Return
  /\ UNCHANGED <<end, packet>>

\* Return and remove the full packet; the block is free for malloc() again.
ReturnPacket ==
  /\ Found /\ packet[Here].len <= want.amount
  /\ Give(packet[Here], packet[Here].len)
  /\ end' = IF end = Here THEN at ELSE end
  /\ link' = [link EXCEPT ![at] = link[Here]]
  /\ heap' = heap \ {Here}
  /\ list' = RemoveAt(list, CHOOSE k \in DOMAIN list : list[k] = Here)
  /\ Return
  /\ UNCHANGED packet

\* Mutant of ReturnPart: the rest is not moved to the front of the packet.
ReturnPartUnmoved ==
  /\ Found /\ packet[Here].len > want.amount
  /\ Give(packet[Here], want.amount)
  /\ packet' = [packet EXCEPT ![Here].len = @ - want.amount]
  /\ Return
  /\ UNCHANGED <<link, end, heap, list>>

\* Return the first bytes of the packet, and keep the rest.
ReturnPart ==
  /\ Found /\ packet[Here].len > want.amount
  /\ Give(packet[Here], want.amount)
  /\ packet' = [packet EXCEPT ![Here].len = @ - want.amount, ![Here].first = @ + want.amount]
  /\ Return
  /\ UNCHANGED <<link, end, heap, list>>

Next ==
  \/ \E i \in Ids, n \in Lens : Enqueue(i, n)
  \/ \E i \in Ids, n \in Amounts : CheckQueue(i, n)
  \/ Walk \/ ReturnNothing \/ ReturnPacket \/ ReturnPart

Spec == Init /\ [][Next]_vars

-----------------------------------------------------------------------------
(* Properties. *)

\* Link k of the list, counted from 0, and the block it must point to.
Cell(k) == IF k = 0 THEN Root ELSE list[k]
Item(k) == IF k <= Len(list) THEN list[k] ELSE Null

\* The links connect exactly the allocated blocks, in the order in which they
\* were enqueued, and _packets_end is the last link: it never points into a
\* block that has been freed, in whatever order the packets are taken.
ListSound ==
  /\ heap = {list[k] : k \in 1 .. Len(list)}
  /\ \A j, k \in 1 .. Len(list) : list[j] = list[k] => j = k
  /\ \A k \in 0 .. Len(list) : link[Cell(k)] = Item(k + 1)
  /\ end = Cell(Len(list))

\* A walk stands at a link of the list, and has passed no packet of the socket
\* it looks for: what it returns is the oldest, and it misses none.
WalkSound ==
  at # Null =>
    \E k \in 0 .. Len(list) :
      at = Cell(k) /\ \A j \in 1 .. k : packet[list[j]].id # want.id

\* The k-th packet of the list, and which follows it in the stream of its socket.
Packet(k) == packet[list[k]]
Follows(j, k) ==
  /\ j < k /\ Packet(j).id = Packet(k).id
  /\ \A m \in j + 1 .. k - 1 : Packet(m).id # Packet(j).id
LastOfIts(k) == \A m \in k + 1 .. Len(list) : Packet(m).id # Packet(k).id
FirstOfIts(k) == \A m \in 1 .. k - 1 : Packet(m).id # Packet(k).id

\* The packets of a socket hold its stream without a gap or an overlap, from
\* the first byte not yet taken to the last that arrived, however packets of
\* several sockets are mixed and whatever has been taken in part.
Contiguous ==
  /\ \A j, k \in 1 .. Len(list) :
       Follows(j, k) => Packet(k).first = Packet(j).first + Packet(j).len
  /\ \A k \in 1 .. Len(list) :
       /\ FirstOfIts(k) => Packet(k).first = taken[Packet(k).id]
       /\ LastOfIts(k) => Packet(k).first + Packet(k).len = arrived[Packet(k).id]
       /\ Packet(k).first + Packet(k).len <= arrived[Packet(k).id]
  /\ \A i \in Ids :
       (\A k \in 1 .. Len(list) : Packet(k).id # i) => taken[i] = arrived[i]

\* The list implements a pipe of bytes for each socket.
Pipes == INSTANCE Pipe WITH Sizes <- 0 .. MaxBytes
PipeSpec == Pipes!Spec

\* It implements a sequence of packets whose operations take effect at once.
Queue == INSTANCE PacketQueue WITH queue <- [k \in 1 .. Len(list) |-> Packet(k)],
                                   Packets <- [id : Ids, first : 0 .. MaxBytes, len : Lens]
QueueSpec == Queue!Spec
=============================================================================
