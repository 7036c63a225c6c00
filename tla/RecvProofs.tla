----------------------------- MODULE RecvProofs -----------------------------
(***************************************************************************)
(* Theorems about Recv, for any number of sockets, connections, bytes and  *)
(* scans: what recv() returns of a connection is in order and never comes  *)
(* twice, whatever is late, lost or on the wire for others; and where      *)
(* everybody takes turns and nothing is late, nothing is lost.             *)
(***************************************************************************)
EXTENDS Recv, TLAPS

\* What is still to be read, whether it has arrived or not.
Due == lines \o wire

\* Bytes of a stream do not go past what a peer sends.
Sized == {b \in AllBytes : b.first + b.len <= MaxBytes}
SizedLines ==
  [kind : {"DATAIND"}, id : Ids, more : BOOLEAN]
  \cup [kind : {"SOCKREAD"}, bytes : Sized] \cup {OK, ERROR}
Packets == [to : Ids \cup {NoId}, bytes : Sized]

LoopTypes ==
  /\ pc \in {"idle", "start", "check", "ind", "data", "ok"}
  /\ want \in [id : Ids, amount : Amounts]
  /\ ind \in Ids \cup {NoId}
  /\ data \in Sized \cup {<< >>} /\ (pc = "ok" => data \in Sized)
  /\ queue \in Seq(Packets)
  /\ out \in AllBytes \cup {<< >>}
  /\ got \in [Ids -> 0 .. MaxBytes]

\* The time that the turn can have used up.
Times ==
  /\ waits \in 0 .. MaxWaits + 1
  /\ pc = "start" => waits = 0
  /\ pc = "ind" => waits < MaxWaits
  /\ pc \in {"data", "ok"} => waits <= MaxWaits

LinkTypes ==
  /\ cmds \in Seq(Ids)
  /\ wire \in Seq(SizedLines) /\ lines \in Seq(SizedLines)
  /\ faults \in 0 .. MaxFaults

\* A socket that is there has been connected.
ModemTypes ==
  /\ state \in [Ids -> {"none", "open", "ended"}]
  /\ conn \in [Ids -> 0 .. MaxConns]
  /\ sent \in [Ids -> 0 .. MaxBytes]
  /\ read \in [Ids -> 0 .. MaxBytes] /\ \A i \in Ids : read[i] <= sent[i]
  /\ \A i \in Ids : state[i] # "none" => conn[i] >= 1

Types == LoopTypes /\ Times /\ LinkTypes /\ ModemTypes

-----------------------------------------------------------------------------
(* Lines, packets and sequences of them. *)

LEMMA LineTypes ==
  /\ OK \in SizedLines /\ ERROR \in SizedLines
  /\ \A i \in Ids : \A more \in BOOLEAN : Ind(i, more) \in SizedLines
  /\ \A b \in Sized : Data(b) \in SizedLines
BY DEF SizedLines, OK, ERROR, Ind, Data

LEMMA LineFields ==
  ASSUME NEW l \in SizedLines
  PROVE  /\ l.kind = "DATAIND" => l.id \in Ids /\ l.more \in BOOLEAN /\ l = Ind(l.id, l.more)
         /\ l.kind = "SOCKREAD" => l.bytes \in Sized
         /\ l.kind \in {"DATAIND", "SOCKREAD", "OK", "ERROR"}
BY DEF SizedLines, OK, ERROR, Ind

LEMMA SizedFields ==
  ASSUME NEW b \in Sized
  PROVE  /\ b \in AllBytes /\ b.id \in Ids /\ b.conn \in 1 .. MaxConns
         /\ b.first \in 0 .. MaxBytes /\ b.len \in 0 .. MaxBytes /\ b.first + b.len <= MaxBytes
BY DEF Sized, AllBytes

LEMMA Cut ==
  ASSUME NEW b \in Sized, NEW n \in Nat, n <= b.len
  PROVE  /\ Bytes(b.id, b.conn, b.first + n, b.len - n) \in Sized
         /\ [b EXCEPT !.len = n] \in Sized
         /\ [b EXCEPT !.len = n].id = b.id /\ [b EXCEPT !.len = n].conn = b.conn
         /\ [b EXCEPT !.len = n].first = b.first /\ [b EXCEPT !.len = n].len = n
         /\ b.first + n \in 0 .. MaxBytes
<1>1. /\ b.id \in Ids /\ b.conn \in 1 .. MaxConns
      /\ b.first \in 0 .. MaxBytes /\ b.len \in 0 .. MaxBytes /\ b.first + b.len <= MaxBytes
      /\ b = [id |-> b.id, conn |-> b.conn, first |-> b.first, len |-> b.len]
  BY DEF Sized, AllBytes
<1>2. [b EXCEPT !.len = n] = Bytes(b.id, b.conn, b.first, n)
  BY <1>1 DEF Bytes
<1>3. \A m \in Nat, q \in Nat :
        m + q <= MaxBytes => Bytes(b.id, b.conn, m, q) \in Sized
  BY <1>1, BoundAssumption DEF Bytes, Sized, AllBytes
<1>4. b.first + n \in 0 .. MaxBytes /\ (b.first + n) + (b.len - n) <= MaxBytes /\ b.len - n \in Nat
  BY <1>1, BoundAssumption
<1>5. QED
  BY <1>1, <1>2, <1>3, <1>4 DEF Bytes

LEMMA SeqTypes ==
  ASSUME NEW S, NEW s \in Seq(S), NEW e \in S
  PROVE  /\ << >> \in Seq(S) /\ Append(s, e) \in Seq(S)
         /\ s # << >> => Tail(s) \in Seq(S) /\ Head(s) \in S
OBVIOUS

\* Where the elements of a concatenation come from.
LEMMA ConcatIs ==
  ASSUME NEW S, NEW s \in Seq(S), NEW t \in Seq(S)
  PROVE  /\ s \o t \in Seq(S) /\ Len(s \o t) = Len(s) + Len(t)
         /\ \A j \in 1 .. Len(s) + Len(t) :
              (s \o t)[j] = IF j <= Len(s) THEN s[j] ELSE t[j - Len(s)]
OBVIOUS

\* Removing the element at k moves the later ones forward by one place.
LEMMA RemoveAtIs ==
  ASSUME NEW S, NEW s \in Seq(S), NEW k \in 1 .. Len(s)
  PROVE  /\ RemoveAt(s, k) \in Seq(S)
         /\ Len(RemoveAt(s, k)) = Len(s) - 1
         /\ \A j \in 1 .. Len(s) - 1 :
              RemoveAt(s, k)[j] = IF j < k THEN s[j] ELSE s[j + 1]
<1>1. /\ SubSeq(s, 1, k - 1) \in Seq(S)
      /\ Len(SubSeq(s, 1, k - 1)) = k - 1
      /\ \A j \in 1 .. k - 1 : SubSeq(s, 1, k - 1)[j] = s[j]
  OBVIOUS
<1>2. /\ SubSeq(s, k + 1, Len(s)) \in Seq(S)
      /\ Len(SubSeq(s, k + 1, Len(s))) = Len(s) - k
      /\ \A j \in 1 .. Len(s) - k : SubSeq(s, k + 1, Len(s))[j] = s[k + j]
  OBVIOUS
<1> DEFINE before == SubSeq(s, 1, k - 1)
           after == SubSeq(s, k + 1, Len(s))
<1>3. /\ before \o after \in Seq(S)
      /\ Len(before \o after) = Len(s) - 1
      /\ \A j \in 1 .. Len(s) - 1 :
           (before \o after)[j] = IF j < k THEN before[j] ELSE after[j - (k - 1)]
  <2>1. before \in Seq(S) /\ after \in Seq(S) /\ Len(before) = k - 1 /\ Len(after) = Len(s) - k
    BY <1>1, <1>2
  <2> HIDE DEF before, after
  <2>2. /\ before \o after \in Seq(S)
        /\ Len(before \o after) = Len(before) + Len(after)
        /\ \A j \in 1 .. Len(before) + Len(after) :
             (before \o after)[j] = IF j <= Len(before) THEN before[j] ELSE after[j - Len(before)]
    BY <2>1, ConcatIs
  <2>3. Len(before) + Len(after) = Len(s) - 1 /\ \A j \in 1 .. Len(s) - 1 : j <= Len(before) <=> j < k
    BY <2>1
  <2>4. QED
    BY <2>1, <2>2, <2>3
<1>5. \A j \in 1 .. Len(s) - 1 : j >= k => after[j - (k - 1)] = s[j + 1]
  <2> SUFFICES ASSUME NEW j \in k .. Len(s) - 1 PROVE after[j - (k - 1)] = s[j + 1]
    OBVIOUS
  <2>1. j - (k - 1) \in 1 .. Len(s) - k /\ k + (j - (k - 1)) = j + 1
    OBVIOUS
  <2> QED
    BY <1>2, <2>1
<1>6. RemoveAt(s, k) = before \o after
  BY DEF RemoveAt
<1>7. \A j \in 1 .. Len(s) - 1 : j < k => before[j] = s[j]
  BY <1>1
<1>8. QED
  <2> HIDE DEF before, after
  <2> QED
    BY <1>3, <1>5, <1>6, <1>7

-----------------------------------------------------------------------------
(* The types. *)

LEMMA DropTypes ==
  ASSUME LinkTypes, ReadLine \/ Timeout
  PROVE  LinkTypes'
<1>1. lines' = lines \/ (lines # << >> /\ lines' = Tail(lines))
  BY DEF ReadLine, Timeout
<1>2. lines' \in Seq(SizedLines)
  BY <1>1, SeqTypes, LineTypes DEF LinkTypes
<1>3. faults' \in 0 .. MaxFaults
  BY BoundAssumption DEF ReadLine, Timeout, Trouble, LinkTypes
<1>4. QED
  BY <1>2, <1>3 DEF ReadLine, Timeout, LinkTypes

LEMMA JudgedType ==
  ASSUME LinkTypes, lines # << >>
  PROVE  Judged \in SizedLines
BY SeqTypes, LineTypes DEF LinkTypes, Judged

LEMMA ReturnTypes ==
  ASSUME LoopTypes, Times, NEW b \in AllBytes \cup {<< >>}, Return(b),
         got' \in [Ids -> 0 .. MaxBytes], queue' \in Seq(Packets)
  PROVE  LoopTypes' /\ Times'
BY BoundAssumption DEF LoopTypes, Times, Return

LEMMA GiveTypes ==
  ASSUME LoopTypes, Times, NEW b \in Sized, NEW n \in Nat, n <= b.len, Give(b, n),
         queue' \in Seq(Packets)
  PROVE  LoopTypes' /\ Times'
<1>1. [b EXCEPT !.len = n] \in AllBytes /\ b.first + n \in 0 .. MaxBytes /\ b.id \in Ids
  BY Cut, SizedFields
<1>2. got' \in [Ids -> 0 .. MaxBytes]
  BY <1>1 DEF Give, LoopTypes
<1>3. QED
  BY <1>1, <1>2, ReturnTypes DEF Give

\* The first packet of the list for the caller.
LEMMA PacketTypes ==
  ASSUME LoopTypes, NEW k \in 1 .. Len(queue)
  PROVE  /\ queue[k].to \in Ids \cup {NoId} /\ queue[k].bytes \in Sized
         /\ RemoveAt(queue, k) \in Seq(Packets)
         /\ \A b \in Sized : [queue EXCEPT ![k].bytes = b] \in Seq(Packets)
<1>1. queue \in Seq(Packets) /\ queue[k] \in Packets
  BY DEF LoopTypes
<1>2. \A b \in Sized : [queue[k] EXCEPT !.bytes = b] \in Packets
  BY <1>1 DEF Packets
<1>3. \A x \in Packets : [queue EXCEPT ![k] = x] \in Seq(Packets)
  BY <1>1
<1>4. \A b \in Sized : [queue EXCEPT ![k].bytes = b] = [queue EXCEPT ![k] = [queue[k] EXCEPT !.bytes = b]]
  BY <1>1
<1>5. QED
  BY <1>1, <1>2, <1>3, <1>4, RemoveAtIs DEF Packets

LEMMA CheckTypes ==
  ASSUME LoopTypes, Times, CheckWhole \/ CheckPart \/ CheckNone \/ TimeUp
  PROVE  LoopTypes' /\ Times'
<1>1. want.amount \in Nat
  BY BoundAssumption DEF LoopTypes
<1>2. InTime => waits < MaxWaits
  BY BoundAssumption DEF InTime, Times
<1>3. ASSUME CheckWhole PROVE LoopTypes' /\ Times'
  <2>1. PICK k \in 1 .. Len(queue) :
          LET b == queue[k].bytes
          IN /\ queue' = RemoveAt(queue, k)
             /\ IF b.len = 0
                THEN pc' = "ind" /\ UNCHANGED <<want, ind, waits, data, out, got>>
                ELSE Give(b, b.len)
    BY <1>3 DEF CheckWhole
  <2>2. /\ queue' \in Seq(Packets) /\ queue[k].bytes \in Sized /\ queue[k].bytes.len \in Nat
        /\ queue[k].bytes.len <= queue[k].bytes.len
    BY <2>1, PacketTypes, SizedFields, BoundAssumption
  <2>3. CASE pc' = "ind" /\ UNCHANGED <<want, ind, waits, data, out, got>>
    BY <1>2, <1>3, <2>2, <2>3 DEF CheckWhole, LoopTypes, Times
  <2>4. CASE Give(queue[k].bytes, queue[k].bytes.len)
    BY <2>2, <2>4, GiveTypes
  <2>5. QED
    BY <2>1, <2>3, <2>4
<1>4. ASSUME CheckPart PROVE LoopTypes' /\ Times'
  <2>1. PICK k \in 1 .. Len(queue) :
          LET b == queue[k].bytes
              n == want.amount
          IN /\ b.len > n
             /\ queue' = [queue EXCEPT ![k].bytes = Bytes(b.id, b.conn, b.first + n, b.len - n)]
             /\ Give(b, n)
    BY <1>4 DEF CheckPart
  <2> DEFINE b == queue[k].bytes
             n == want.amount
  <2>2. b \in Sized /\ n <= b.len
    BY <1>1, <2>1, PacketTypes, SizedFields
  <2>3. Bytes(b.id, b.conn, b.first + n, b.len - n) \in Sized
    BY <1>1, <2>2, Cut
  <2>4. queue' \in Seq(Packets)
    BY <2>1, <2>3, PacketTypes
  <2>5. QED
    BY <1>1, <2>1, <2>2, <2>4, GiveTypes
<1>5. ASSUME CheckNone PROVE LoopTypes' /\ Times'
  BY <1>2, <1>5 DEF CheckNone, LoopTypes, Times
<1>6. ASSUME TimeUp PROVE LoopTypes' /\ Times'
  BY <1>6, ReturnTypes DEF TimeUp, LoopTypes
<1>7. QED
  BY <1>3, <1>4, <1>5, <1>6

Reading ==
  IndMore \/ IndEnd \/ IndOther \/ IndTimeout \/ DataRead \/ DataOther \/ DataTimeout
  \/ Enqueue \/ EnqueueFails

LEMMA ReadingTypes == ASSUME Types, Reading PROVE Types'
<1> USE DEF Types
<1>0. LoopTypes /\ Times /\ LinkTypes /\ ModemTypes
  OBVIOUS
<1>1. ModemTypes'
  BY DEF Reading, IndMore, IndEnd, IndOther, IndTimeout, DataRead, DataOther, DataTimeout,
         Enqueue, EnqueueFails, Goto, NextTurn, modem, ModemTypes
<1>2. CASE IndMore
  <2>1. Judged.id \in Ids
    BY <1>2, JudgedType, LineFields DEF IndMore, IsInd
  <2>2. LinkTypes'
    BY <1>2, <2>1, SeqTypes DEF IndMore, LinkTypes
  <2>3. /\ pc = "ind" /\ pc' = "data" /\ ind' = Judged.id
        /\ UNCHANGED <<want, out, queue, got, waits, data>>
    BY <1>2 DEF IndMore, Goto
  <2>5. LoopTypes'
    BY <2>1, <2>3 DEF LoopTypes
  <2>6. Times'
    BY <2>3, BoundAssumption DEF Times
  <2>4. QED
    BY <1>1, <2>2, <2>5, <2>6
<1>3. CASE IndEnd
  BY <1>1, <1>3, DropTypes, ReturnTypes DEF IndEnd, LoopTypes
<1>4. CASE IndOther \/ DataOther
  <2>1. LinkTypes'
    BY <1>4, DropTypes DEF IndOther, DataOther
  <2>2. LoopTypes'
    BY <1>4 DEF IndOther, DataOther, Goto, NextTurn, LoopTypes
  <2>3. Times'
    BY <1>4, BoundAssumption DEF IndOther, DataOther, Goto, NextTurn, Times
  <2>4. QED
    BY <1>1, <2>1, <2>2, <2>3
<1>5. CASE IndTimeout \/ DataTimeout
  BY <1>1, <1>5, DropTypes, BoundAssumption
     DEF IndTimeout, DataTimeout, Tick, Goto, NextTurn, LoopTypes, Times
<1>6. CASE DataRead
  <2>1. Judged.bytes \in Sized
    BY <1>6, JudgedType, LineFields DEF DataRead, ReadLine
  <2>2. QED
    BY <1>1, <1>6, <2>1, DropTypes DEF DataRead, Goto, LoopTypes, Times
<1>7. CASE Enqueue
  <2>1. PICK i \in Ids \cup {NoId} : queue' = Append(queue, [to |-> i, bytes |-> data])
    BY <1>7 DEF Enqueue, Owners, LoopTypes
  <2>2. [to |-> i, bytes |-> data] \in Packets
    BY <1>7 DEF Enqueue, Packets, LoopTypes
  <2>3. queue' \in Seq(Packets)
    BY <2>1, <2>2, SeqTypes DEF LoopTypes
  <2>4. QED
    BY <1>1, <1>7, <2>3, DropTypes, BoundAssumption DEF Enqueue, LoopTypes, Times
<1>8. CASE EnqueueFails
  <2>1. LinkTypes'
    BY <1>8, SeqTypes, LineTypes, BoundAssumption DEF EnqueueFails, Trouble, LinkTypes
  <2>2. QED
    BY <1>1, <1>8, <2>1 DEF EnqueueFails, NextTurn, Goto, LoopTypes, Times
<1>9. QED
  BY <1>2, <1>3, <1>4, <1>5, <1>6, <1>7, <1>8 DEF Reading

\* The other calls, the modem and the peers leave the loop of recv() alone.
Around ==
  \/ \E i \in Ids :
       \/ Connect(i) \/ Close(i) \/ Send(i) \/ PeerClose(i)
       \/ \E n \in 1 .. MaxBytes : Arrive(i, n)
  \/ Exec \/ Deliver

LEMMA AroundTypes == ASSUME Types, Around PROVE Types'
<1> USE BoundAssumption DEF Types
<1>0. /\ wire \in Seq(SizedLines) /\ lines \in Seq(SizedLines) /\ cmds \in Seq(Ids)
      /\ << >> \in Seq(SizedLines)
  BY DEF LinkTypes
<1>1. ASSUME NEW i \in Ids, Connect(i) PROVE Types'
  <2>1. /\ UNCHANGED <<pc, want, ind, waits, data, queue, cmds, wire, faults>>
        /\ lines' = << >> /\ out' = << >> /\ got' = [got EXCEPT ![i] = 0]
    BY <1>1 DEF Connect
  <2>2. conn' = [conn EXCEPT ![i] = conn[i] + 1] /\ conn[i] + 1 \in 1 .. MaxConns
    BY <1>1 DEF Connect, ModemTypes
  <2>3. ModemTypes'
    BY <1>1, <2>2 DEF Connect, ModemTypes
  <2>4. LinkTypes' /\ LoopTypes' /\ Times'
    BY <1>0, <2>1 DEF LinkTypes, LoopTypes, Times
  <2>5. QED
    BY <2>3, <2>4
<1>2. ASSUME NEW i \in Ids, Close(i) PROVE Types'
  <2>1. wire' \in Seq(SizedLines)
    <3>1. Append(wire, OK) \in Seq(SizedLines) /\ Append(wire, OK) # << >>
      BY <1>0, LineTypes
    <3>2. QED
      BY <1>2, <3>1 DEF Close
  <2>2. LinkTypes' /\ LoopTypes' /\ Times' /\ ModemTypes'
    BY <1>0, <1>2, <2>1 DEF Close, driver, LinkTypes, LoopTypes, Times, ModemTypes
  <2>3. QED
    BY <2>2
<1>3. ASSUME NEW i \in Ids, Send(i) PROVE Types'
  BY <1>0, <1>3 DEF Send, driver, modem, LinkTypes, LoopTypes, Times, ModemTypes
<1>4. ASSUME NEW i \in Ids, PeerClose(i) PROVE Types'
  <2>1. wire' \in Seq(SizedLines)
    BY <1>0, <1>4, LineTypes, SeqTypes DEF PeerClose
  <2>2. QED
    BY <1>0, <1>4, <2>1 DEF PeerClose, driver, LinkTypes, LoopTypes, Times, ModemTypes
<1>5. ASSUME NEW i \in Ids, NEW n \in 1 .. MaxBytes, Arrive(i, n) PROVE Types'
  <2>1. wire' \in Seq(SizedLines)
    BY <1>0, <1>5, LineTypes, SeqTypes DEF Arrive
  <2>2. sent' = [sent EXCEPT ![i] = sent[i] + n] /\ sent[i] + n \in 0 .. MaxBytes
    BY <1>5 DEF Arrive, ModemTypes
  <2>3. ModemTypes'
    BY <1>5, <2>2 DEF Arrive, ModemTypes
  <2>4. QED
    BY <1>0, <1>5, <2>1, <2>3 DEF Arrive, driver, LinkTypes, LoopTypes, Times
<1>6. CASE Exec
  <2>1. Head(cmds) \in Ids /\ cmds' \in Seq(Ids) /\ UNCHANGED <<driver, lines, state, conn, sent, got, faults>>
    BY <1>0, <1>6 DEF Exec
  <2>2. CASE state[Head(cmds)] = "none"
    <3>1. wire' = Append(wire, ERROR) /\ read' = read
      BY <1>6, <2>2 DEF Exec
    <3>3. wire' \in Seq(SizedLines)
      BY <1>0, <3>1, LineTypes, SeqTypes
    <3>2. QED
      BY <2>1, <3>1, <3>3 DEF driver, LinkTypes, LoopTypes, Times, ModemTypes
  <2>3. CASE state[Head(cmds)] # "none"
    <3> DEFINE i == Head(cmds)
               b == Bytes(i, conn[i], read[i], Stock(i))
    <3>1. wire' = wire \o <<Data(b), OK>> /\ read' = [read EXCEPT ![i] = sent[i]]
      BY <1>6, <2>3 DEF Exec
    <3>2. b \in Sized
      BY <2>1, <2>3 DEF ModemTypes, Bytes, Sized, AllBytes, Stock
    <3> HIDE DEF b
    <3>3. wire' \in Seq(SizedLines)
      <4>1. \A x, y \in SizedLines : wire \o <<x, y>> \in Seq(SizedLines)
        <5> TAKE x, y \in SizedLines
        <5>1. <<x, y>> \in Seq(SizedLines)
          OBVIOUS
        <5>2. QED
          BY <1>0, <5>1
      <4>2. QED
        BY <3>1, <3>2, <4>1, LineTypes
    <3>4. ModemTypes'
      BY <2>1, <3>1 DEF ModemTypes
    <3>5. QED
      BY <2>1, <3>3, <3>4 DEF driver, LinkTypes, LoopTypes, Times
  <2>4. QED
    BY <2>2, <2>3
<1>7. CASE Deliver
  <2>1. wire' \in Seq(SizedLines) /\ lines' \in Seq(SizedLines)
    BY <1>0, <1>7, SeqTypes DEF Deliver
  <2>2. QED
    BY <1>7, <2>1 DEF Deliver, driver, modem, LinkTypes, LoopTypes, Times, ModemTypes
<1>8. QED
  BY <1>1, <1>2, <1>3, <1>4, <1>5, <1>6, <1>7 DEF Around

LEMMA TypesStep == ASSUME Types, [Next]_vars PROVE Types'
<1>1. CASE CheckWhole \/ CheckPart \/ CheckNone \/ TimeUp
  <2>1. LoopTypes' /\ Times'
    BY <1>1, CheckTypes DEF Types
  <2>2. UNCHANGED <<cmds, wire, lines, modem, faults>>
    BY <1>1 DEF CheckWhole, CheckPart, CheckNone, TimeUp, Look
  <2>3. QED
    BY <2>1, <2>2 DEF Types, LinkTypes, ModemTypes, modem
<1>2. CASE Reading
  BY <1>2, ReadingTypes
<1>3. CASE Around
  BY <1>3, AroundTypes
<1>4. ASSUME NEW i \in Ids, NEW n \in Amounts, Recv(i, n) PROVE Types'
  <2>1. /\ pc' = "start" /\ waits' = 0 /\ out' = << >> /\ want' = [id |-> i, amount |-> n]
        /\ UNCHANGED <<ind, data, queue, got>>
    BY <1>4 DEF Recv
  <2>2. LoopTypes'
    BY <2>1 DEF Types, LoopTypes
  <2>3. Times'
    BY <2>1, BoundAssumption DEF Times
  <2>4. LinkTypes' /\ ModemTypes'
    BY <1>4 DEF Recv, modem, Types, LinkTypes, ModemTypes
  <2>5. QED
    BY <2>2, <2>3, <2>4 DEF Types
<1>5. CASE UNCHANGED vars
  BY <1>5 DEF vars, driver, modem, Types, LinkTypes, LoopTypes, Times, ModemTypes
<1>6. QED
  BY <1>1, <1>2, <1>3, <1>4, <1>5, Zenon DEF Next, Loop, Reading, Around

-----------------------------------------------------------------------------
(* The order of the bytes, from the list over the line just read to the lines  *)
(* that are still to be read.                                                  *)

\* Bytes of one connection: b begins where a ends, or later.
Before(a, b) == a.id = b.id /\ a.conn = b.conn => a.first + a.len <= b.first

\* The bytes come from a stream there has been, and if it is the present one,
\* from the part that the modem has given.
Given(b) == b.conn <= conn[b.id] /\ (b.conn = conn[b.id] => b.first + b.len <= read[b.id])

\* recv() has not yet returned them.
New(b) == b.conn = conn[b.id] => got[b.id] <= b.first

\* What is in the list is given out in order; a packet under a wrong socket is never
\* returned to its own.
ListOrder ==
  \A k \in 1 .. Len(queue) :
    /\ Given(queue[k].bytes)
    /\ queue[k].to = queue[k].bytes.id => New(queue[k].bytes)
    /\ \A j \in 1 .. k - 1 : Before(queue[j].bytes, queue[k].bytes)

\* These bytes follow all in the list.
Follows(b) ==
  Given(b) /\ New(b) /\ \A k \in 1 .. Len(queue) : Before(queue[k].bytes, b)

Carries(m) == Due[m].kind = "SOCKREAD"

LineOrder ==
  \A m \in 1 .. Len(Due) : Carries(m) =>
    /\ Follows(Due[m].bytes)
    /\ pc = "ok" => Before(data, Due[m].bytes)
    /\ \A n \in 1 .. m - 1 : Carries(n) => Before(Due[n].bytes, Due[m].bytes)

Order ==
  /\ ListOrder
  /\ pc = "ok" => Follows(data)
  /\ LineOrder
  /\ \A i \in Ids : got[i] <= read[i]

-----------------------------------------------------------------------------
(* What is due after a step. *)

LEMMA DueRead ==
  ASSUME NEW S, NEW r \in Seq(S), NEW w \in Seq(S), r # << >>
  PROVE  Head(r \o w) = Head(r) /\ Tail(r) \o w = Tail(r \o w)
  <1>1. Len(r) \in Nat /\ Len(r) > 0 /\ Len(w) \in Nat OBVIOUS
  <1>2. r \o w \in Seq(S) /\ Len(r \o w) = Len(r) + Len(w) OBVIOUS
  <1>3. Tail(r) \in Seq(S) /\ Len(Tail(r)) = Len(r) - 1 OBVIOUS
  <1>4. Tail(r) \o w \in Seq(S) /\ Len(Tail(r) \o w) = Len(r) - 1 + Len(w) BY <1>1, <1>3
  <1>5. Tail(r \o w) \in Seq(S) /\ Len(Tail(r \o w)) = Len(r) + Len(w) - 1 BY <1>1, <1>2
  <1>6. ASSUME NEW i \in 1 .. Len(r) - 1 + Len(w)
        PROVE  (Tail(r) \o w)[i] = Tail(r \o w)[i]
    <2>1. Tail(r \o w)[i] = (r \o w)[i + 1] BY <1>1, <1>2
    <2>2. CASE i <= Len(r) - 1
      BY <1>1, <1>3, <2>1, <2>2
    <2>3. CASE i > Len(r) - 1
      <3>1. (Tail(r) \o w)[i] = w[i - (Len(r) - 1)] BY <1>1, <1>3, <2>3
      <3>2. (r \o w)[i + 1] = w[i + 1 - Len(r)] BY <1>1, <2>3
      <3>. QED BY <1>1, <2>1, <3>1, <3>2
    <2>. QED BY <1>1, <2>2, <2>3
  <1>7. Tail(r) \o w = Tail(r \o w) BY <1>1, <1>4, <1>5, <1>6
  <1>8. Head(r \o w) = Head(r) BY <1>1, <1>2
  <1>. QED BY <1>7, <1>8

LEMMA DueDeliver ==
  ASSUME NEW S, NEW r \in Seq(S), NEW w \in Seq(S), w # << >>
  PROVE  Append(r, Head(w)) \o Tail(w) = r \o w
  <1>1. Len(r) \in Nat /\ Len(w) \in Nat /\ Len(w) > 0 OBVIOUS
  <1>2. Head(w) \in S /\ Tail(w) \in Seq(S) /\ Len(Tail(w)) = Len(w) - 1 OBVIOUS
  <1>3. Append(r, Head(w)) \in Seq(S) /\ Len(Append(r, Head(w))) = Len(r) + 1 BY <1>2
  <1>4. /\ Append(r, Head(w)) \o Tail(w) \in Seq(S) /\ r \o w \in Seq(S)
        /\ Len(Append(r, Head(w)) \o Tail(w)) = Len(r) + Len(w) /\ Len(r \o w) = Len(r) + Len(w)
    BY <1>1, <1>2, <1>3
  <1>5. ASSUME NEW i \in 1 .. Len(r) + Len(w)
        PROVE  (Append(r, Head(w)) \o Tail(w))[i] = (r \o w)[i]
    <2>1. CASE i <= Len(r) BY <1>1, <1>2, <1>3, <2>1
    <2>2. CASE i = Len(r) + 1 BY <1>1, <1>2, <1>3, <2>2
    <2>3. CASE i > Len(r) + 1
      <3>1. (Append(r, Head(w)) \o Tail(w))[i] = Tail(w)[i - (Len(r) + 1)] BY <1>1, <1>2, <1>3, <2>3
      <3>2. Tail(w)[i - (Len(r) + 1)] = w[i - Len(r)] BY <1>1, <2>3
      <3>. QED BY <1>1, <2>3, <3>1, <3>2
    <2>. QED BY <1>1, <2>1, <2>2, <2>3
  <1>. QED BY <1>1, <1>4, <1>5

LEMMA ConcatAssoc ==
  ASSUME NEW S, NEW r \in Seq(S), NEW w \in Seq(S), NEW t \in Seq(S)
  PROVE  r \o (w \o t) = (r \o w) \o t
<1>1. Len(r) \in Nat /\ Len(w) \in Nat /\ Len(t) \in Nat
  OBVIOUS
<1>2. /\ w \o t \in Seq(S) /\ Len(w \o t) = Len(w) + Len(t)
      /\ \A j \in 1 .. Len(w) + Len(t) : (w \o t)[j] = IF j <= Len(w) THEN w[j] ELSE t[j - Len(w)]
  BY ConcatIs
<1>3. /\ r \o w \in Seq(S) /\ Len(r \o w) = Len(r) + Len(w)
      /\ \A j \in 1 .. Len(r) + Len(w) : (r \o w)[j] = IF j <= Len(r) THEN r[j] ELSE w[j - Len(r)]
  BY ConcatIs
<1> DEFINE wt == w \o t
           rw == r \o w
           all == Len(r) + Len(w) + Len(t)
<1>4. wt \in Seq(S) /\ rw \in Seq(S)
  BY <1>2, <1>3
<1>5. /\ r \o wt \in Seq(S) /\ Len(r \o wt) = all
      /\ \A j \in 1 .. all : (r \o wt)[j] = IF j <= Len(r) THEN r[j] ELSE wt[j - Len(r)]
  <2> HIDE DEF wt
  <2>1. Len(wt) = Len(w) + Len(t)
    BY <1>2 DEF wt
  <2>2. /\ r \o wt \in Seq(S) /\ Len(r \o wt) = Len(r) + Len(wt)
        /\ \A j \in 1 .. Len(r) + Len(wt) : (r \o wt)[j] = IF j <= Len(r) THEN r[j] ELSE wt[j - Len(r)]
    BY <1>4, ConcatIs
  <2>3. Len(r) + Len(wt) = all
    BY <1>1, <2>1
  <2>4. QED
    BY <2>2, <2>3
<1>6. /\ rw \o t \in Seq(S) /\ Len(rw \o t) = all
      /\ \A j \in 1 .. all : (rw \o t)[j] = IF j <= Len(r) + Len(w) THEN rw[j] ELSE t[j - (Len(r) + Len(w))]
  <2> HIDE DEF rw
  <2>1. Len(rw) = Len(r) + Len(w)
    BY <1>3 DEF rw
  <2>2. /\ rw \o t \in Seq(S) /\ Len(rw \o t) = Len(rw) + Len(t)
        /\ \A j \in 1 .. Len(rw) + Len(t) : (rw \o t)[j] = IF j <= Len(rw) THEN rw[j] ELSE t[j - Len(rw)]
    BY <1>4, ConcatIs
  <2>3. QED
    BY <2>1, <2>2
<1>7. ASSUME NEW j \in 1 .. all PROVE (r \o wt)[j] = (rw \o t)[j]
  <2>1. CASE j <= Len(r)
    BY <1>1, <1>3, <1>5, <1>6, <2>1
  <2>2. CASE j > Len(r) /\ j <= Len(r) + Len(w)
    BY <1>1, <1>2, <1>3, <1>5, <1>6, <2>2
  <2>3. CASE j > Len(r) + Len(w)
    <3>1. wt[j - Len(r)] = t[(j - Len(r)) - Len(w)]
      BY <1>1, <1>2, <2>3
    <3>2. (j - Len(r)) - Len(w) = j - (Len(r) + Len(w))
      BY <1>1
    <3>3. QED
      BY <1>1, <1>5, <1>6, <2>3, <3>1, <3>2
  <2>4. QED
    BY <1>1, <2>1, <2>2, <2>3
<1>8. QED
  BY <1>5, <1>6, <1>7

LEMMA DueIs ==
  ASSUME Types
  PROVE  /\ lines \in Seq(SizedLines) /\ wire \in Seq(SizedLines) /\ Due \in Seq(SizedLines)
         /\ Len(lines) \in Nat /\ Len(wire) \in Nat /\ Len(Due) = Len(lines) + Len(wire)
         /\ \A m \in 1 .. Len(Due) :
              /\ Due[m] = IF m <= Len(lines) THEN lines[m] ELSE wire[m - Len(lines)]
              /\ Due[m] \in SizedLines
              /\ Carries(m) => Due[m].bytes \in Sized
<1>1. lines \in Seq(SizedLines) /\ wire \in Seq(SizedLines)
  BY DEF Types, LinkTypes
<1>2. /\ Due \in Seq(SizedLines) /\ Len(Due) = Len(lines) + Len(wire)
      /\ \A m \in 1 .. Len(lines) + Len(wire) :
           Due[m] = IF m <= Len(lines) THEN lines[m] ELSE wire[m - Len(lines)]
  BY <1>1, ConcatIs DEF Due
<1>3. Len(lines) \in Nat /\ Len(wire) \in Nat
  BY <1>1
<1>4. \A m \in 1 .. Len(Due) : Due[m] \in SizedLines
  BY <1>2
<1>5. QED
  BY <1>1, <1>2, <1>3, <1>4, LineFields DEF Carries

\* The first d lines are gone, and no data has been added.
Later(d) == \A m \in 1 .. Len(Due') : Carries(m)' => m + d <= Len(Due) /\ Due'[m] = Due[m + d]

LEMMA SameDue == ASSUME Types, UNCHANGED <<lines, wire>> PROVE Later(0)
BY DueIs DEF Later, Due

LEMMA TailIs ==
  ASSUME NEW S, NEW s \in Seq(S), s # << >>
  PROVE  Len(Tail(s)) = Len(s) - 1 /\ \A m \in 1 .. Len(s) - 1 : Tail(s)[m] = s[m + 1]
OBVIOUS

LEMMA DropDue ==
  ASSUME Types, lines # << >>, lines' = Tail(lines), wire' = wire
  PROVE  Due' = Tail(Due) /\ Judged = Due[1] /\ Len(Due) > 0 /\ Later(1)
<1>1. /\ lines \in Seq(SizedLines) /\ wire \in Seq(SizedLines) /\ Due \in Seq(SizedLines)
      /\ Len(Due) = Len(lines) + Len(wire) /\ Len(lines) > 0
  BY DueIs
<1>2. Due' = Tail(Due) /\ Judged = Head(Due)
  BY <1>1, DueRead DEF Due, Judged
<1>3. Len(Due) \in Nat /\ Len(Due) > 0
  BY <1>1, DueIs
<1>4. Judged = Due[1]
  BY <1>1, <1>2, <1>3
<1>5. Len(Tail(Due)) = Len(Due) - 1 /\ \A m \in 1 .. Len(Due) - 1 : Tail(Due)[m] = Due[m + 1]
  <2>1. Due # << >>
    BY <1>3
  <2>2. QED
    BY <1>1, <2>1, TailIs
<1>6. QED
  BY <1>2, <1>3, <1>4, <1>5 DEF Later

LEMMA TimeoutDue == ASSUME Types, ReadLine \/ Timeout PROVE \E d \in Nat : Later(d)
<1>1. (lines # << >> /\ lines' = Tail(lines) /\ wire' = wire) \/ UNCHANGED <<lines, wire>>
  BY DEF ReadLine, Timeout
<1>2. QED
  BY <1>1, SameDue, DropDue

LEMMA ClearDue ==
  ASSUME Types, Types', lines' = << >>, wire' = wire
  PROVE  Due' = wire /\ \E d \in Nat : Later(d)
<1>1. << >> \o wire = wire
  BY DueIs
<1>2. Due' = wire
  BY <1>1 DEF Due
<1>3. \A m \in 1 .. Len(wire) : m + Len(lines) <= Len(Due) /\ Due[m + Len(lines)] = wire[m]
  BY DueIs
<1>4. QED
  BY <1>2, <1>3, DueIs DEF Later

\* The line of close(), and what the modem says of its own accord, is no data.
LEMMA SayDue ==
  ASSUME Types, NEW l \in SizedLines, l.kind # "SOCKREAD", wire' = Append(wire, l), lines' = lines
  PROVE  Due' = Append(Due, l) /\ Later(0)
<1>1. lines \in Seq(SizedLines) /\ wire \in Seq(SizedLines) /\ Due \in Seq(SizedLines)
  BY DueIs
<1>2. lines \o Append(wire, l) = Append(lines \o wire, l)
  BY <1>1
<1>3. Due' = Append(Due, l)
  BY <1>2 DEF Due
<1>4. Len(Due) \in Nat /\ Len(Append(Due, l)) = Len(Due) + 1 /\ Append(Due, l)[Len(Due) + 1] = l
      /\ \A m \in 1 .. Len(Due) : Append(Due, l)[m] = Due[m]
  BY <1>1
<1>5. QED
  BY <1>3, <1>4 DEF Later, Carries

LEMMA CloseDue ==
  ASSUME Types, Types', lines' = << >>, wire' = Tail(Append(wire, OK))
  PROVE  \E d \in Nat : Later(d)
<1>1. wire \in Seq(SizedLines) /\ Len(wire) \in Nat /\ OK \in SizedLines
  BY DueIs, LineTypes
<1>2. /\ Len(wire') = Len(wire) /\ wire' \in Seq(SizedLines)
      /\ \A m \in 1 .. Len(wire) : wire'[m] = IF m < Len(wire) THEN wire[m + 1] ELSE OK
  <2>1. Append(wire, OK) \in Seq(SizedLines) /\ Len(Append(wire, OK)) = Len(wire) + 1
        /\ \A m \in 1 .. Len(wire) + 1 : Append(wire, OK)[m] = IF m <= Len(wire) THEN wire[m] ELSE OK
    BY <1>1
  <2> DEFINE w == Append(wire, OK)
  <2> HIDE DEF w
  <2>2. w \in Seq(SizedLines) /\ Len(w) = Len(wire) + 1 /\ w # << >>
    BY <1>1, <2>1 DEF w
  <2>3. Tail(w) \in Seq(SizedLines) /\ Len(Tail(w)) = Len(wire)
        /\ \A m \in 1 .. Len(wire) : Tail(w)[m] = w[m + 1]
    BY <1>1, <2>2
  <2>4. \A m \in 1 .. Len(wire) : w[m + 1] = IF m < Len(wire) THEN wire[m + 1] ELSE OK
    BY <1>1, <2>1 DEF w
  <2>5. QED
    BY <2>3, <2>4 DEF w
<1>3. << >> \o wire' = wire'
  BY <1>2
<1>4. Due' = wire'
  BY <1>3 DEF Due
<1>5. OK.kind # "SOCKREAD"
  BY DEF OK
<1>6. \A m \in 1 .. Len(wire) :
        m < Len(wire) => m + (Len(lines) + 1) <= Len(Due) /\ Due[m + (Len(lines) + 1)] = wire[m + 1]
  BY DueIs
<1>7. Later(Len(lines) + 1)
  BY <1>1, <1>2, <1>4, <1>5, <1>6 DEF Later, Carries
<1>8. QED
  BY <1>7, DueIs

LEMMA DeliverDue == ASSUME Types, Deliver PROVE Due' = Due /\ Later(0)
<1>1. Due' = Due
  BY DueIs, DueDeliver DEF Deliver, Due
<1>2. QED
  BY <1>1, DueIs DEF Later

-----------------------------------------------------------------------------
(* The order is kept. *)

LEMMA OrderTypes ==
  ASSUME Types
  PROVE  /\ conn \in [Ids -> 0 .. MaxConns] /\ read \in [Ids -> 0 .. MaxBytes]
         /\ got \in [Ids -> 0 .. MaxBytes]
         /\ queue \in Seq(Packets) /\ Len(queue) \in Nat
         /\ \A k \in 1 .. Len(queue) :
              /\ queue[k] \in Packets /\ queue[k].bytes \in Sized
              /\ queue[k].to \in Ids \cup {NoId}
         /\ want.id \in Ids /\ want.amount \in Nat
<1>1. queue \in Seq(Packets)
  BY DEF Types, LoopTypes
<1>2. \A k \in 1 .. Len(queue) : queue[k] \in Packets
  BY <1>1
<1>3. want.id \in Ids /\ want.amount \in Nat
  BY BoundAssumption DEF Types, LoopTypes
<1>4. Len(queue) \in Nat
  BY <1>1
<1>5. \A x \in Packets : x.bytes \in Sized /\ x.to \in Ids \cup {NoId}
  BY DEF Packets
<1>6. QED
  BY <1>1, <1>2, <1>3, <1>4, <1>5 DEF Types, LoopTypes, ModemTypes

\* The lines are still in order after a step that adds no data to them.
LEMMA LineKeep ==
  ASSUME Types, LineOrder, NEW d \in Nat, Later(d),
         \A b \in Sized : Follows(b) /\ (pc = "ok" => Before(data, b)) => Follows(b)',
         pc' = "ok" => \/ pc = "ok" /\ data' = data
                       \/ d = 1 /\ Len(Due) > 0 /\ Carries(1) /\ data' = Due[1].bytes
  PROVE  LineOrder'
<1> SUFFICES ASSUME NEW m \in 1 .. Len(Due'), Carries(m)'
             PROVE  /\ Follows(Due[m].bytes)'
                    /\ pc' = "ok" => Before(data', Due'[m].bytes)
                    /\ \A n \in 1 .. m - 1 : Carries(n)' => Before(Due'[n].bytes, Due'[m].bytes)
  BY DEF LineOrder
<1>0. m + d <= Len(Due) /\ Due'[m] = Due[m + d]
  BY Zenon DEF Later
<1>1. m + d \in 1 .. Len(Due) /\ Due'[m] = Due[m + d] /\ Carries(m + d)
  <2>1. Len(Due) \in Nat
    BY DueIs
  <2>2. m + d \in 1 .. Len(Due)
    BY <1>0, <2>1
  <2>3. Carries(m + d)
    BY <1>0, Zenon DEF Carries
  <2>4. QED
    BY <1>0, <2>2, <2>3
<1>2. Due[m + d].bytes \in Sized
  BY <1>1, DueIs
<1>3. Follows(Due[m].bytes)'
  <2>1. PICK b \in Sized : b = Due[m + d].bytes
    BY <1>2
  <2>2. Follows(b)'
    BY <1>1, <2>1 DEF LineOrder
  <2>3. QED
    BY <1>1, <2>1, <2>2 DEF Follows, Given, New
<1>4. ASSUME pc' = "ok" PROVE Before(data', Due'[m].bytes)
  <2>1. CASE pc = "ok" /\ data' = data
    BY <1>1, <2>1 DEF LineOrder
  <2>2. CASE d = 1 /\ Len(Due) > 0 /\ Carries(1) /\ data' = Due[1].bytes
    <3>1. 1 \in 1 .. (m + d) - 1
      BY <2>2
    <3>2. QED
      BY <1>1, <2>2, <3>1 DEF LineOrder
  <2>3. QED
    BY <1>4, <2>1, <2>2
<1>5. ASSUME NEW n \in 1 .. m - 1, Carries(n)' PROVE Before(Due'[n].bytes, Due'[m].bytes)
  <2>1. n \in 1 .. Len(Due')
    BY <1>5, DueIs
  <2>2. n + d \in 1 .. (m + d) - 1 /\ Due'[n] = Due[n + d] /\ Carries(n + d)
    BY <1>5, <2>1, DueIs DEF Later, Carries
  <2>3. QED
    BY <1>1, <2>2 DEF LineOrder
<1>6. QED
  BY <1>3, <1>4, <1>5

\* Steps that change nothing in the list, and what is read or got of no stream.
LEMMA SameOrder ==
  ASSUME Types, Order, UNCHANGED <<queue, conn, read, got>>, NEW d \in Nat, Later(d),
         pc' = "ok" => \/ pc = "ok" /\ data' = data
                       \/ d = 1 /\ Len(Due) > 0 /\ Carries(1) /\ data' = Due[1].bytes
  PROVE  Order'
<1>1. \A b : Follows(b)' <=> Follows(b)
  BY DEF Follows, Given, New
<1>2. ListOrder'
  BY DEF Order, ListOrder, Given, New
<1>3. LineOrder'
  BY <1>1, LineKeep DEF Order
<1>4. ASSUME pc' = "ok" PROVE Follows(data)'
  <2>1. CASE pc = "ok" /\ data' = data
    <3>1. Follows(data)
      BY <2>1 DEF Order
    <3>2. QED
      BY <2>1, <3>1 DEF Follows, Given, New
  <2>2. CASE Len(Due) > 0 /\ Carries(1) /\ data' = Due[1].bytes
    <3>1. Follows(Due[1].bytes)
      BY <2>2, DueIs DEF Order, LineOrder
    <3>2. QED
      BY <2>2, <3>1 DEF Follows, Given, New
  <2>3. QED
    BY <1>4, <2>1, <2>2
<1>5. QED
  BY <1>2, <1>3, <1>4 DEF Order

\* Connecting begins a new stream; what is left of the earlier ones is old.
LEMMA ConnectOrder == ASSUME Types, Types', Order, NEW i \in Ids, Connect(i) PROVE Order'
<1>1. /\ conn' = [conn EXCEPT ![i] = conn[i] + 1] /\ read' = [read EXCEPT ![i] = 0]
      /\ got' = [got EXCEPT ![i] = 0] /\ queue' = queue /\ pc' = "idle" /\ lines' = << >>
      /\ wire' = << >>
  BY DEF Connect
<1>2. Len(Due') = 0
  BY <1>1, DueIs, ClearDue DEF Connect
<1>3. \A b \in Sized : Given(b) => Given(b)' /\ (New(b) => New(b)')
  <2> SUFFICES ASSUME NEW b \in Sized, Given(b) PROVE Given(b)' /\ (New(b) => New(b)')
    OBVIOUS
  <2>1. b.id \in Ids /\ b.conn \in Nat
    BY SizedFields
  <2>2. CASE b.id = i
    BY <1>1, <2>1, <2>2, OrderTypes DEF Given, New
  <2>3. CASE b.id # i
    BY <1>1, <2>1, <2>3, OrderTypes DEF Given, New
  <2>4. QED
    BY <2>2, <2>3
<1>4. ListOrder'
  BY <1>1, <1>3, OrderTypes DEF Order, ListOrder
<1>5. LineOrder'
  BY <1>2 DEF LineOrder
<1>6. \A j \in Ids : got'[j] <= read'[j]
  BY <1>1, OrderTypes DEF Order
<1>7. QED
  BY <1>1, <1>4, <1>5, <1>6 DEF Order

\* The modem gives what follows all that it has given.
LEMMA ExecOrder == ASSUME Types, Types', Order, Exec PROVE Order'
<1>1. Head(cmds) \in Ids /\ UNCHANGED <<pc, data, queue, lines, conn, got, sent>>
  BY SeqTypes DEF Exec, driver, Types, LinkTypes
<1>2. CASE state[Head(cmds)] = "none"
  <2>1. wire' = Append(wire, ERROR) /\ read' = read /\ ERROR \in SizedLines /\ ERROR.kind # "SOCKREAD"
    BY <1>2, LineTypes DEF Exec, ERROR
  <2>2. QED
    BY <1>1, <2>1, SayDue, SameOrder
<1>3. CASE state[Head(cmds)] # "none"
  <2>12. PICK i \in Ids : i = Head(cmds) /\ state[i] # "none"
    BY <1>1, <1>3
  <2>13. /\ conn[i] \in 1 .. MaxConns /\ read[i] \in 0 .. MaxBytes /\ sent[i] \in 0 .. MaxBytes
         /\ read[i] <= sent[i]
    BY <2>12, BoundAssumption DEF Types, ModemTypes
  <2>14. Bytes(i, conn[i], read[i], Stock(i)) \in Sized
    BY <2>12, <2>13, BoundAssumption DEF Bytes, Sized, AllBytes, Stock
  <2>15. PICK b \in Sized : b = Bytes(i, conn[i], read[i], Stock(i))
    BY <2>14
  <2>1. wire' = wire \o <<Data(b), OK>> /\ read' = [read EXCEPT ![i] = sent[i]]
    BY <2>12, <2>15 DEF Exec
  <2>2. /\ b.id = i /\ b.conn = conn[i] /\ b.first = read[i] /\ b.first + b.len = sent[i]
        /\ read[i] <= sent[i]
    BY <2>13, <2>15 DEF Bytes, Stock
  <2>16. /\ conn' = conn /\ conn[i] \in Nat /\ read'[i] = sent[i] /\ sent[i] \in Nat /\ read[i] \in Nat
         /\ \A j \in Ids \ {i} : read'[j] = read[j]
    BY <1>1, <2>1, <2>13, OrderTypes
  <2>3. \A c \in Sized : Given(c) => Given(c)' /\ Before(c, b)
    <3> SUFFICES ASSUME NEW c \in Sized, Given(c) PROVE Given(c)' /\ Before(c, b)
      OBVIOUS
    <3>1. c.id \in Ids /\ c.conn \in Nat /\ c.first \in Nat /\ c.len \in Nat
      BY SizedFields
    <3>2. CASE c.id = i
      BY <2>2, <2>16, <3>1, <3>2 DEF Given, Before
    <3>3. CASE c.id # i
      BY <2>2, <2>16, <3>1, <3>3 DEF Given, Before
    <3>4. QED
      BY <3>2, <3>3
  <2>4. \A c \in Sized : Follows(c) => Follows(c)'
    BY <1>1, <2>3 DEF Follows, New
  <2>5. Follows(b)'
    <3>1. Given(b)'
      BY <2>2, <2>16 DEF Given
    <3>2. New(b)'
      BY <1>1, <2>2 DEF New, Order
    <3>3. \A k \in 1 .. Len(queue) : Before(queue[k].bytes, b)
      BY <2>3, OrderTypes DEF Order, ListOrder
    <3>4. QED
      BY <1>1, <3>1, <3>2, <3>3 DEF Follows
  <2>6. ListOrder'
    BY <1>1, <2>3, OrderTypes DEF Order, ListOrder, New
  <2>7. /\ Len(Due') = Len(Due) + 2 /\ Len(Due) \in Nat
        /\ \A m \in 1 .. Len(Due) : Due'[m] = Due[m]
        /\ Due'[Len(Due) + 1] = Data(b) /\ Due'[Len(Due) + 2] = OK
    <3>1. lines \in Seq(SizedLines) /\ wire \in Seq(SizedLines) /\ Due \in Seq(SizedLines)
      BY DueIs
    <3>2. Data(b) \in SizedLines /\ OK \in SizedLines
      BY <2>15, LineTypes
    <3> DEFINE t == <<Data(b), OK>>
    <3>3. t \in Seq(SizedLines) /\ Len(t) = 2 /\ t[1] = Data(b) /\ t[2] = OK
      BY <3>2
    <3> HIDE DEF t
    <3>9. \A r, w, u \in Seq(SizedLines) : r \o (w \o u) = (r \o w) \o u
      BY ConcatAssoc
    <3>4. lines \o (wire \o t) = (lines \o wire) \o t
      <4>1. t \in Seq(SizedLines)
        BY <3>3
      <4>2. QED
        BY <3>1, <3>9, <4>1, Zenon
    <3>5. Due' = Due \o t
      BY <1>1, <2>1, <3>4 DEF Due, t
    <3>6. Len(Due \o t) = Len(Due) + Len(t)
          /\ \A m \in 1 .. Len(Due) + Len(t) :
               (Due \o t)[m] = IF m <= Len(Due) THEN Due[m] ELSE t[m - Len(Due)]
      BY <3>1, <3>3, ConcatIs
    <3>7. Len(Due) \in Nat
      BY <3>1
    <3>8. QED
      BY <3>3, <3>5, <3>6, <3>7
  <2>8. LineOrder'
    <3> SUFFICES ASSUME NEW m \in 1 .. Len(Due'), Carries(m)'
                 PROVE  /\ Follows(Due[m].bytes)'
                        /\ pc' = "ok" => Before(data', Due'[m].bytes)
                        /\ \A n \in 1 .. m - 1 : Carries(n)' => Before(Due'[n].bytes, Due'[m].bytes)
      BY DEF LineOrder
    <3>1. OK.kind # "SOCKREAD" /\ Data(b).bytes = b
      BY DEF OK, Data
    <3>2. CASE m <= Len(Due)
      <4>1. m \in 1 .. Len(Due) /\ Due'[m] = Due[m] /\ Carries(m) /\ Due[m].bytes \in Sized
        BY <2>7, <3>2, DueIs DEF Carries
      <4>2. Follows(Due[m].bytes)'
        BY <2>4, <4>1 DEF Order, LineOrder, Follows, Given, New
      <4>3. \A n \in 1 .. m - 1 : Carries(n)' => Carries(n) /\ Due'[n] = Due[n]
        BY <2>7, <4>1 DEF Carries
      <4>4. QED
        BY <1>1, <4>1, <4>2, <4>3 DEF Order, LineOrder
    <3>3. CASE m > Len(Due)
      <4>1. m = Len(Due) + 1 /\ Due'[m].bytes = b
        BY <2>7, <3>1, <3>3 DEF Carries
      <4>2. Follows(Due[m].bytes)'
        BY <2>5, <4>1 DEF Follows, Given, New
      <4>3. pc = "ok" => Before(data, b)
        BY <2>3 DEF Order, Follows, Types, LoopTypes
      <4>4. ASSUME NEW n \in 1 .. m - 1, Carries(n)' PROVE Before(Due'[n].bytes, b)
        <5>1. n \in 1 .. Len(Due) /\ Due'[n] = Due[n] /\ Carries(n) /\ Due[n].bytes \in Sized
          BY <2>7, <4>1, <4>4, DueIs DEF Carries
        <5>2. QED
          BY <2>3, <5>1 DEF Order, LineOrder, Follows
      <4>5. QED
        BY <1>1, <4>1, <4>2, <4>3, <4>4
    <3>4. QED
      BY <2>7, <3>2, <3>3
  <2>9. \A j \in Ids : got'[j] <= read'[j]
    BY <1>1, <2>1, <2>2, OrderTypes DEF Order, Types, ModemTypes
  <2>10. ASSUME pc = "ok" PROVE Follows(data)'
    <3>1. data \in Sized /\ Follows(data)
      BY <2>10 DEF Order, Types, LoopTypes
    <3>2. QED
      BY <1>1, <2>4, <3>1 DEF Follows, Given, New
  <2>11. QED
    BY <1>1, <2>6, <2>8, <2>9, <2>10 DEF Order
<1>4. QED
  BY <1>2, <1>3

\* What is left of b when its beginning is gone; or b itself.
LeftOf(d, b) ==
  d.id = b.id /\ d.conn = b.conn /\ b.first <= d.first /\ d.first + d.len = b.first + b.len

\* What is left of two packets is in the order of the packets.
LEMMA LeftBefore ==
  ASSUME NEW c \in Sized, NEW d \in Sized, NEW e \in Sized, NEW f \in Sized,
         LeftOf(d, c), LeftOf(f, e), Before(e, c)
  PROVE  Before(f, d)
<1>1. c.first \in Nat /\ d.first \in Nat /\ e.first \in Nat /\ e.len \in Nat
      /\ f.first \in Nat /\ f.len \in Nat
  BY SizedFields
<1>2. QED
  BY <1>1 DEF LeftOf, Before

LEMMA Chain ==
  ASSUME NEW x \in Nat, NEW l \in Nat, NEW n \in Nat, NEW y \in Nat, NEW z \in Nat,
         n <= l, x + l <= y, y <= z
  PROVE  x + n <= z /\ x + n <= y
OBVIOUS

\* A check of the list takes the first n bytes of packet k, the first one for the
\* caller.  Packet q of the list that is left was packet at[q].
LEMMA TakeOrder ==
  ASSUME Types, Types', Order, UNCHANGED <<conn, read, lines, wire>>, pc' # "ok",
         NEW k \in 1 .. Len(queue), Mine(k),
         NEW n \in Nat, n <= queue[k].bytes.len,
         NEW at \in [1 .. Len(queue') -> 1 .. Len(queue)],
         \A q \in 1 .. Len(queue') :
           /\ queue'[q].to = queue[at[q]].to
           /\ LeftOf(queue'[q].bytes, queue[at[q]].bytes)
           /\ at[q] = k => queue'[q].bytes.first = queue[k].bytes.first + n
           /\ \A p \in 1 .. q - 1 : at[p] < at[q],
         \/ got' = got
         \/ got' = IF queue[k].bytes.id = want.id /\ queue[k].bytes.conn = conn[queue[k].bytes.id]
                   THEN [got EXCEPT ![queue[k].bytes.id] = queue[k].bytes.first + n] ELSE got
  PROVE  Order'
<1>1. PICK b \in Sized : b = queue[k].bytes
  BY OrderTypes
<1>2. /\ b.id \in Ids /\ b.conn \in Nat /\ b.first \in Nat /\ b.len \in Nat
      /\ b.first + b.len <= MaxBytes
  BY SizedFields
<1>3. Given(b) /\ n <= b.len
  BY <1>1 DEF Order, ListOrder
<1>4. /\ conn' = conn /\ read' = read
      /\ \A i \in Ids : conn[i] \in Nat /\ read[i] \in Nat /\ got[i] \in Nat
  BY OrderTypes, BoundAssumption
<1>7. Len(queue') \in Nat /\ \A q \in 1 .. Len(queue') : queue'[q].bytes \in Sized
  <2>1. queue' \in Seq(Packets)
    BY DEF Types, LoopTypes
  <2>2. \A q \in 1 .. Len(queue') : queue'[q] \in Packets
    BY <2>1
  <2>3. \A x \in Packets : x.bytes \in Sized
    BY DEF Packets
  <2>4. QED
    BY <2>1, <2>2, <2>3
<1>5. \A i \in Ids :
        \/ got'[i] = got[i]
        \/ i = b.id /\ b.id = want.id /\ b.conn = conn[i] /\ got'[i] = b.first + n
  BY <1>1, <1>2, <1>4, OrderTypes
<1>6. ASSUME NEW q \in 1 .. Len(queue'), NEW c \in Sized, c = queue[at[q]].bytes,
             NEW d \in Sized, d = queue'[q].bytes
      PROVE  /\ Given(d)'
             /\ queue'[q].to = d.id => New(d)'
             /\ \A p \in 1 .. q - 1 : Before(queue'[p].bytes, d)
  <2>1. /\ d.id = c.id /\ d.conn = c.conn /\ c.first <= d.first /\ d.first + d.len = c.first + c.len
        /\ at[q] \in 1 .. Len(queue) /\ at[q] = k => d.first = b.first + n
    BY <1>1, <1>6 DEF LeftOf
  <2>2. /\ c.id \in Ids /\ c.conn \in Nat /\ c.first \in Nat /\ c.len \in Nat
        /\ d.first \in Nat /\ d.len \in Nat
    BY SizedFields
  <2>3. Given(d)'
    <3>1. Given(c)
      BY <1>6, <2>1 DEF Order, ListOrder
    <3>2. QED
      BY <1>4, <2>1, <3>1 DEF Given
  <2>4. ASSUME queue'[q].to = d.id, d.conn = conn[d.id] PROVE got'[d.id] <= d.first
    <3>1. queue[at[q]].to = c.id /\ New(c) /\ c.conn = conn[c.id]
      BY <1>6, <2>1, <2>4 DEF Order, ListOrder
    <3>2. CASE got'[c.id] = got[c.id]
      BY <1>4, <2>1, <2>2, <3>1, <3>2 DEF New
    <3>3. CASE c.id = b.id /\ b.id = want.id /\ b.conn = conn[c.id] /\ got'[c.id] = b.first + n
      <4>1. CASE at[q] = k
        BY <1>2, <2>1, <3>3, <4>1
      <4>2. CASE at[q] > k
        <5>1. Before(b, c)
          BY <1>1, <1>6, <2>1, <4>2 DEF Order, ListOrder
        <5>2. QED
          <6>1. b.first + b.len <= c.first
            BY <3>1, <3>3, <5>1 DEF Before
          <6>2. b.first + n <= d.first
            BY <1>2, <1>3, <2>1, <2>2, <6>1, Chain
          <6>3. QED
            BY <2>1, <3>3, <6>2
      <4>3. CASE at[q] < k
        BY <2>1, <3>1, <3>3, <4>3 DEF Mine
      <4>4. QED
        BY <2>1, <4>1, <4>2, <4>3
    <3>4. QED
      BY <1>5, <2>1, <2>2, <3>2, <3>3
  <2>5. ASSUME NEW p \in 1 .. q - 1 PROVE Before(queue'[p].bytes, d)
    <3>9. p \in 1 .. Len(queue')
      BY <1>7
    <3>1. /\ at[p] \in 1 .. Len(queue) /\ at[p] \in 1 .. at[q] - 1
          /\ LeftOf(queue'[p].bytes, queue[at[p]].bytes)
      BY <2>1, <3>9
    <3>2. PICK e \in Sized : e = queue[at[p]].bytes
      BY <2>1, <3>1, OrderTypes
    <3>3. PICK f \in Sized : f = queue'[p].bytes
      BY <1>7, <3>9
    <3>4. Before(e, c)
      BY <1>6, <2>1, <3>1, <3>2 DEF Order, ListOrder
    <3>5. LeftOf(f, e)
      BY <3>1, <3>2, <3>3
    <3>6. LeftOf(d, c)
      BY <1>6
    <3>7. Before(f, d)
      BY <3>4, <3>5, <3>6, LeftBefore
    <3>8. QED
      BY <3>3, <3>7
  <2>6. QED
    BY <2>3, <2>4, <2>5 DEF New
<1>8. ListOrder'
  <2>1. \A q \in 1 .. Len(queue') : queue[at[q]].bytes \in Sized
    BY OrderTypes
  <2>2. QED
    BY <1>6, <1>7, <2>1 DEF ListOrder, Given, New
<1>9. \A c \in Sized : Follows(c) => Follows(c)'
  <2> SUFFICES ASSUME NEW c \in Sized, Follows(c) PROVE Follows(c)'
    OBVIOUS
  <2>1. c.id \in Ids /\ c.conn \in Nat /\ c.first \in Nat
    BY SizedFields
  <2>2. Given(c)'
    BY <1>4 DEF Follows, Given
  <2>3. New(c)'
    <3>1. New(c) /\ Before(b, c)
      BY <1>1 DEF Follows
    <3>2. ASSUME c.conn = conn[c.id] PROVE got'[c.id] <= c.first
      <4>1. CASE got'[c.id] = got[c.id]
        BY <3>1, <3>2, <4>1 DEF New
      <4>2. CASE c.id = b.id /\ b.id = want.id /\ b.conn = conn[c.id] /\ got'[c.id] = b.first + n
        <5>1. b.first + b.len <= c.first
          BY <3>1, <3>2, <4>2 DEF Before
        <5>2. QED
          BY <1>2, <1>3, <2>1, <4>2, <5>1, Chain
      <4>3. QED
        BY <1>5, <2>1, <4>1, <4>2
    <3>3. QED
      BY <1>4, <3>2 DEF New
  <2>4. ASSUME NEW q \in 1 .. Len(queue') PROVE Before(queue'[q].bytes, c)
    <3>1. /\ at[q] \in 1 .. Len(queue) /\ Before(queue[at[q]].bytes, c)
          /\ LeftOf(queue'[q].bytes, queue[at[q]].bytes)
      BY DEF Follows
    <3>2. QED
      BY <3>1 DEF Before, LeftOf
  <2>5. QED
    BY <2>2, <2>3, <2>4 DEF Follows
<1>10. LineOrder'
  BY <1>9, LineKeep, SameDue DEF Order
<1>11. ASSUME NEW i \in Ids PROVE got'[i] <= read'[i]
  <2>1. CASE got'[i] = got[i]
    BY <1>4, <2>1 DEF Order
  <2>2. CASE i = b.id /\ b.conn = conn[i] /\ got'[i] = b.first + n
    <3>1. b.first + b.len <= read[i]
      BY <1>3, <2>2 DEF Given
    <3>2. QED
      BY <1>2, <1>3, <1>4, <2>2, <3>1
  <2>3. QED
    BY <1>5, <2>1, <2>2
<1>12. QED
  BY <1>8, <1>10, <1>11 DEF Order

LEMMA CheckOrder ==
  ASSUME Types, Types', Order, CheckWhole \/ CheckPart \/ CheckNone \/ TimeUp
  PROVE  Order'
<1>1. UNCHANGED <<conn, read, lines, wire>> /\ pc' # "ok"
  BY DEF CheckWhole, CheckPart, CheckNone, TimeUp, Look, modem, Give, Return
<1>2. CASE CheckWhole
  <2>1. PICK k \in 1 .. Len(queue) :
          /\ Mine(k) /\ queue' = RemoveAt(queue, k)
          /\ got' = got \/ Give(queue[k].bytes, queue[k].bytes.len)
    BY <1>2 DEF CheckWhole
  <2>2. PICK n \in Nat : n = queue[k].bytes.len
    BY OrderTypes, SizedFields, BoundAssumption
  <2>3. /\ Len(queue) \in Nat /\ Len(queue') = Len(queue) - 1
        /\ \A q \in 1 .. Len(queue) - 1 : queue'[q] = IF q < k THEN queue[q] ELSE queue[q + 1]
    BY <2>1, OrderTypes, RemoveAtIs
  <2> DEFINE f == [q \in 1 .. Len(queue') |-> IF q < k THEN q ELSE q + 1]
  <2>4. f \in [1 .. Len(queue') -> 1 .. Len(queue)]
    BY <2>3
  <2>5. PICK at \in [1 .. Len(queue') -> 1 .. Len(queue)] :
          \A q \in 1 .. Len(queue') : at[q] = IF q < k THEN q ELSE q + 1
    BY <2>4
  <2>6. \A q \in 1 .. Len(queue') :
          queue'[q] = queue[at[q]] /\ at[q] # k /\ \A p \in 1 .. q - 1 : at[p] < at[q]
    <3> SUFFICES ASSUME NEW q \in 1 .. Len(queue')
                 PROVE  /\ queue'[q] = queue[at[q]] /\ at[q] # k
                        /\ \A p \in 1 .. q - 1 : at[p] < at[q]
      OBVIOUS
    <3>1. q \in 1 .. Len(queue) - 1 /\ at[q] = IF q < k THEN q ELSE q + 1
      BY <2>3, <2>5
    <3>2. queue'[q] = queue[at[q]] /\ at[q] # k
      BY <2>3, <3>1
    <3>3. ASSUME NEW p \in 1 .. q - 1 PROVE at[p] < at[q]
      <4>1. p \in 1 .. Len(queue') /\ p < q
        BY <2>3
      <4>2. at[p] = IF p < k THEN p ELSE p + 1
        BY <2>5, <4>1
      <4>3. QED
        BY <3>1, <4>1, <4>2
    <3>4. QED
      BY <3>2, <3>3
  <2>7. \A q \in 1 .. Len(queue') : LeftOf(queue'[q].bytes, queue[at[q]].bytes)
    <3> SUFFICES ASSUME NEW q \in 1 .. Len(queue') PROVE LeftOf(queue'[q].bytes, queue[at[q]].bytes)
      OBVIOUS
    <3>1. PICK b \in Sized : b = queue[at[q]].bytes
      BY OrderTypes
    <3>2. LeftOf(b, b)
      BY SizedFields DEF LeftOf
    <3>3. QED
      BY <2>6, <3>1, <3>2
  <2>8. n <= queue[k].bytes.len
    BY <2>2
  <2>9. \A q \in 1 .. Len(queue') :
          /\ queue'[q].to = queue[at[q]].to
          /\ LeftOf(queue'[q].bytes, queue[at[q]].bytes)
          /\ at[q] = k => queue'[q].bytes.first = queue[k].bytes.first + n
          /\ \A p \in 1 .. q - 1 : at[p] < at[q]
    BY <2>6, <2>7
  <2>10. \/ got' = got
         \/ got' = IF queue[k].bytes.id = want.id /\ queue[k].bytes.conn = conn[queue[k].bytes.id]
                   THEN [got EXCEPT ![queue[k].bytes.id] = queue[k].bytes.first + n] ELSE got
    BY <2>1, <2>2, Zenon DEF Give
  <2>11. QED
    BY <1>1, <2>1, <2>8, <2>9, <2>10, TakeOrder, Zenon
<1>3. CASE CheckPart
  <2>1. PICK k \in 1 .. Len(queue) :
          LET b == queue[k].bytes
              n == want.amount
          IN /\ Mine(k) /\ b.len > n
             /\ queue' = [queue EXCEPT ![k].bytes = Bytes(b.id, b.conn, b.first + n, b.len - n)]
             /\ Give(b, n)
    BY <1>3 DEF CheckPart
  <2>2. PICK n \in Nat : n = want.amount
    BY OrderTypes
  <2>3. PICK b \in Sized : b = queue[k].bytes
    BY OrderTypes
  <2>4. b.first \in Nat /\ b.len \in Nat /\ n <= b.len
    BY <2>1, <2>2, <2>3, SizedFields
  <2>5. LeftOf(Bytes(b.id, b.conn, b.first + n, b.len - n), b)
    BY <2>4 DEF LeftOf, Bytes
  <2>6. /\ Len(queue') = Len(queue) /\ Len(queue) \in Nat
        /\ \A q \in 1 .. Len(queue) : q # k => queue'[q] = queue[q]
        /\ queue'[k].to = queue[k].to
        /\ queue'[k].bytes = Bytes(b.id, b.conn, b.first + n, b.len - n)
    <3>1. queue \in Seq(Packets) /\ queue[k] \in Packets
      BY OrderTypes
    <3>2. queue' = [queue EXCEPT ![k] = [queue[k] EXCEPT !.bytes = Bytes(b.id, b.conn, b.first + n, b.len - n)]]
      BY <2>1, <2>2, <2>3
    <3>3. [queue[k] EXCEPT !.bytes = Bytes(b.id, b.conn, b.first + n, b.len - n)]
            = [to |-> queue[k].to, bytes |-> Bytes(b.id, b.conn, b.first + n, b.len - n)]
      BY <3>1 DEF Packets
    <3>4. QED
      BY <3>1, <3>2, <3>3
  <2> DEFINE f == [q \in 1 .. Len(queue') |-> q]
  <2>7. f \in [1 .. Len(queue') -> 1 .. Len(queue)]
    BY <2>6
  <2>8. PICK at \in [1 .. Len(queue') -> 1 .. Len(queue)] : \A q \in 1 .. Len(queue') : at[q] = q
    BY <2>7
  <2>9. \A q \in 1 .. Len(queue') :
          /\ queue'[q].to = queue[at[q]].to
          /\ at[q] = k => queue'[q].bytes.first = queue[k].bytes.first + n
          /\ \A p \in 1 .. q - 1 : at[p] < at[q]
    BY <2>3, <2>6, <2>8 DEF Bytes
  <2>10. \A q \in 1 .. Len(queue') : LeftOf(queue'[q].bytes, queue[at[q]].bytes)
    <3> SUFFICES ASSUME NEW q \in 1 .. Len(queue') PROVE LeftOf(queue'[q].bytes, queue[at[q]].bytes)
      OBVIOUS
    <3>1. CASE q = k
      BY <2>3, <2>5, <2>6, <2>8, <3>1
    <3>2. CASE q # k
      <4>1. PICK c \in Sized : c = queue[at[q]].bytes
        BY OrderTypes
      <4>2. LeftOf(c, c)
        BY SizedFields DEF LeftOf
      <4>3. QED
        BY <2>6, <2>8, <3>2, <4>1, <4>2
    <3>3. QED
      BY <3>1, <3>2
  <2>11. Mine(k) /\ n <= queue[k].bytes.len
    BY <2>1, <2>3, <2>4
  <2>12. \A q \in 1 .. Len(queue') :
          /\ queue'[q].to = queue[at[q]].to
          /\ LeftOf(queue'[q].bytes, queue[at[q]].bytes)
          /\ at[q] = k => queue'[q].bytes.first = queue[k].bytes.first + n
          /\ \A p \in 1 .. q - 1 : at[p] < at[q]
    BY <2>9, <2>10
  <2>13. got' = IF queue[k].bytes.id = want.id /\ queue[k].bytes.conn = conn[queue[k].bytes.id]
                THEN [got EXCEPT ![queue[k].bytes.id] = queue[k].bytes.first + n] ELSE got
    BY <2>1, <2>2, Zenon DEF Give
  <2>14. QED
    BY <1>1, <2>11, <2>12, <2>13, TakeOrder, Zenon
<1>4. CASE CheckNone \/ TimeUp
  <2>1. UNCHANGED <<queue, got>>
    BY <1>4 DEF CheckNone, TimeUp
  <2>2. QED
    BY <1>1, <2>1, SameOrder, SameDue
<1>5. QED
  BY <1>2, <1>3, <1>4

\* The data of the line read last goes to the end of the list, and what is still
\* to be read follows it.
LEMMA EnqueueOrder == ASSUME Types, Types', Order, Enqueue PROVE Order'
<1>1. /\ pc = "ok" /\ pc' = "check" /\ (ReadLine \/ Timeout)
      /\ UNCHANGED <<got, conn, read>>
  BY DEF Enqueue, modem
<1>2. PICK i \in Ids \cup {NoId} : queue' = Append(queue, [to |-> i, bytes |-> data])
  BY DEF Enqueue, Owners, Types, LoopTypes
<1>3. Follows(data) /\ data \in Sized
  BY <1>1 DEF Order, Types, LoopTypes
<1>4. /\ Len(queue) \in Nat /\ Len(queue') = Len(queue) + 1
      /\ \A k \in 1 .. Len(queue) : queue'[k] = queue[k]
      /\ queue'[Len(queue) + 1] = [to |-> i, bytes |-> data]
  BY <1>2, OrderTypes
<1>5. \A b : (Given(b)' <=> Given(b)) /\ (New(b)' <=> New(b))
  BY <1>1 DEF Given, New
<1>6. ListOrder'
  <2> SUFFICES ASSUME NEW k \in 1 .. Len(queue')
               PROVE  /\ Given(queue[k].bytes)'
                      /\ queue'[k].to = queue'[k].bytes.id => New(queue[k].bytes)'
                      /\ \A j \in 1 .. k - 1 : Before(queue'[j].bytes, queue'[k].bytes)
    BY DEF ListOrder
  <2>1. CASE k <= Len(queue)
    <3>1. k \in 1 .. Len(queue) /\ queue'[k] = queue[k] /\ \A j \in 1 .. k - 1 : queue'[j] = queue[j]
      BY <1>4, <2>1
    <3>2. QED
      BY <1>1, <3>1 DEF Order, ListOrder, Given, New
  <2>2. CASE k = Len(queue) + 1
    BY <1>1, <1>3, <1>4, <2>2 DEF Follows, Given, New
  <2>3. QED
    BY <1>4, <2>1, <2>2
<1>7. \A b \in Sized : Follows(b) /\ Before(data, b) => Follows(b)'
  BY <1>4, <1>5 DEF Follows
<1>8. PICK d \in Nat : Later(d)
  BY <1>1, TimeoutDue
<1>9. LineOrder'
  BY <1>1, <1>7, <1>8, LineKeep DEF Order
<1>10. QED
  BY <1>1, <1>6, <1>9 DEF Order

LEMMA ReadingOrder == ASSUME Types, Types', Order, Reading PROVE Order'
<1>1. CASE IndMore
  <2>1. /\ lines' = << >> /\ wire' = wire /\ pc' = "data" /\ UNCHANGED <<queue, conn, read, got>>
    BY <1>1 DEF IndMore, Goto, modem
  <2>2. QED
    BY <2>1, ClearDue, SameOrder
<1>2. CASE IndEnd \/ IndOther \/ IndTimeout \/ DataOther \/ DataTimeout
  <2>1. pc' # "ok" /\ UNCHANGED <<queue, conn, read, got>>
    BY <1>2 DEF IndEnd, IndOther, IndTimeout, DataOther, DataTimeout, NextTurn, Goto, Return, modem
  <2>2. ReadLine \/ Timeout
    BY <1>2 DEF IndEnd, IndOther, IndTimeout, DataOther, DataTimeout
  <2>3. QED
    BY <2>1, <2>2, TimeoutDue, SameOrder
<1>3. CASE DataRead
  <2>1. /\ lines # << >> /\ lines' = Tail(lines) /\ wire' = wire /\ Judged.kind = "SOCKREAD"
        /\ data' = Judged.bytes /\ UNCHANGED <<queue, conn, read, got>>
    BY <1>3 DEF DataRead, ReadLine, Goto, modem
  <2>2. Later(1) /\ Len(Due) > 0 /\ Carries(1) /\ data' = Due[1].bytes
    BY <2>1, DropDue DEF Carries
  <2>3. QED
    BY <2>1, <2>2, SameOrder
<1>4. CASE Enqueue
  BY <1>4, EnqueueOrder
<1>5. CASE EnqueueFails
  <2>1. /\ lines # << >> /\ lines' = Tail(lines) /\ wire' = wire /\ pc' = "check"
        /\ UNCHANGED <<queue, conn, read, got>>
    BY <1>5 DEF EnqueueFails, NextTurn, Goto, modem
  <2>2. QED
    BY <2>1, DropDue, SameOrder
<1>6. QED
  BY <1>1, <1>2, <1>3, <1>4, <1>5 DEF Reading

LEMMA AroundOrder == ASSUME Types, Types', Order, Around PROVE Order'
<1>1. ASSUME NEW i \in Ids, Close(i) PROVE Order'
  <2>1. pc' = pc /\ data' = data /\ UNCHANGED <<queue, conn, read, got>>
    BY <1>1 DEF Close, driver
  <2>2. PICK d \in Nat : Later(d)
    BY <1>1, CloseDue DEF Close
  <2>3. QED
    BY <2>1, <2>2, SameOrder
<1>2. ASSUME NEW i \in Ids, Send(i) PROVE Order'
  <2>1. pc' = pc /\ data' = data /\ UNCHANGED <<queue, conn, read, got>>
    BY <1>2 DEF Send, driver, modem
  <2>2. PICK d \in Nat : Later(d)
    BY <1>2, ClearDue DEF Send
  <2>3. QED
    BY <2>1, <2>2, SameOrder
<1>3. ASSUME NEW i \in Ids, PeerClose(i) \/ \E n \in 1 .. MaxBytes : Arrive(i, n) PROVE Order'
  <2>1. pc' = pc /\ data' = data /\ UNCHANGED <<queue, conn, read, got, lines>>
    BY <1>3 DEF PeerClose, Arrive, driver
  <2>2. PICK l \in SizedLines : l.kind # "SOCKREAD" /\ wire' = Append(wire, l)
    <3>1. \A more \in BOOLEAN : Ind(i, more) \in SizedLines /\ Ind(i, more).kind # "SOCKREAD"
      BY LineTypes DEF Ind
    <3>2. QED
      BY <1>3, <3>1 DEF PeerClose, Arrive
  <2>3. Later(0)
    BY <2>1, <2>2, SayDue
  <2>4. QED
    BY <2>1, <2>3, SameOrder
<1>4. CASE Deliver
  <2>1. pc' = pc /\ data' = data /\ UNCHANGED <<queue, conn, read, got>>
    BY <1>4 DEF Deliver, driver, modem
  <2>2. QED
    BY <1>4, <2>1, DeliverDue, SameOrder
<1>5. QED
  BY <1>1, <1>2, <1>3, <1>4, ConnectOrder, ExecOrder DEF Around

LEMMA OrderStep == ASSUME Types, Types', Order, [Next]_vars PROVE Order'
<1>1. CASE CheckWhole \/ CheckPart \/ CheckNone \/ TimeUp
  BY <1>1, CheckOrder
<1>2. CASE Reading
  BY <1>2, ReadingOrder
<1>3. CASE Around
  BY <1>3, AroundOrder
<1>4. ASSUME NEW i \in Ids, NEW n \in Amounts, Recv(i, n) PROVE Order'
  <2>1. pc' = "start" /\ UNCHANGED <<queue, conn, read, got, lines, wire>>
    BY <1>4 DEF Recv, modem
  <2>2. QED
    BY <2>1, SameDue, SameOrder
<1>5. CASE UNCHANGED vars
  <2>1. pc' = pc /\ data' = data /\ UNCHANGED <<queue, conn, read, got, lines, wire>>
    BY <1>5 DEF vars, driver, modem
  <2>2. QED
    BY <2>1, SameDue, SameOrder
<1>6. QED
  BY <1>1, <1>2, <1>3, <1>4, <1>5, Zenon DEF Next, Loop, Reading, Around

-----------------------------------------------------------------------------
(* Turns.  While the polite wait and nothing is late, at most one announcement *)
(* of data is under way, and its data follow it one step at a time.            *)

\* All that was sent has been returned.
Even(i) == state[i] # "none" => got[i] = read[i] /\ read[i] = sent[i]

\* Nothing is to be read but announcements of the end of the data.
Ends(s) == \A m \in 1 .. Len(s) : s[m].kind = "DATAIND" /\ ~s[m].more

\* Nothing is on the way.
Idle ==
  /\ queue = << >> /\ cmds = << >> /\ Ends(Due)
  /\ pc = "data" => Due = << >>
  /\ pc # "ok"

\* The bytes that the modem has given and recv() has not returned.
Batch(i) == Bytes(i, conn[i], got[i], read[i] - got[i])

\* The announcement of data for socket i is to be read.
Told(i) ==
  /\ queue = << >> /\ cmds = << >> /\ pc \notin {"data", "ok"} /\ got[i] = read[i]
  /\ \E s \in Seq(SizedLines) : Ends(s) /\ Due = Append(s, Ind(i, TRUE))

\* Its data have been asked for.
Asked(i) ==
  /\ queue = << >> /\ cmds = <<i>> /\ Due = << >> /\ pc = "data" /\ ind = i
  /\ got[i] = read[i]

\* They have been given and are to be read, or just have been.
Answered(i) ==
  /\ queue = << >> /\ cmds = << >> /\ ind = i /\ read[i] = sent[i]
  /\ \/ pc = "data" /\ Due = <<Data(Batch(i)), OK>>
     \/ pc = "ok" /\ data = Batch(i) /\ Due = <<OK>>

\* They are in the list.
Stored(i) ==
  /\ queue = <<[to |-> i, bytes |-> Batch(i)]>> /\ cmds = << >> /\ Due = << >>
  /\ pc # "ok" /\ read[i] = sent[i]

Served(i) ==
  /\ state[i] # "none" /\ got[i] < sent[i]
  /\ \A j \in Ids \ {i} : Even(j)
  /\ Told(i) \/ Asked(i) \/ Answered(i) \/ Stored(i)

AllEven == Idle /\ \A i \in Ids : Even(i)
Turn == AllEven \/ \E i \in Ids : Served(i)

\* Nothing goes wrong in a step of polite company.
Smooth == Polite /\ faults = 0 /\ faults' = 0

LEMMA SmoothTimeout ==
  ASSUME Types, Smooth
  PROVE  /\ Timeout => Due = << >> /\ cmds = << >> /\ lines = << >> /\ UNCHANGED <<lines, wire, cmds>>
         /\ ~EnqueueFails
<1>1. ~Trouble
  BY DEF Smooth, Trouble
<1>2. lines = << >> /\ wire = << >> => Due = << >>
  BY DEF Due
<1>3. QED
  BY <1>1, <1>2 DEF Timeout, Quiet, EnqueueFails

LEMMA SmoothRead ==
  ASSUME Types, ReadLine
  PROVE  /\ Due # << >> /\ Len(Due) > 0 /\ Due' = Tail(Due) /\ Judged = Due[1] /\ Due[1] \in SizedLines
         /\ cmds' = cmds
<1>1. lines # << >> /\ lines' = Tail(lines) /\ wire' = wire /\ cmds' = cmds
  BY DEF ReadLine
<1>2. Due' = Tail(Due) /\ Judged = Due[1] /\ Len(Due) > 0
  BY <1>1, DropDue
<1>3. QED
  BY <1>1, <1>2, DueIs

LEMMA FirstDue ==
  ASSUME Types, lines # << >>
  PROVE  Judged = Due[1] /\ Len(Due) > 0 /\ Due[1] \in SizedLines
<1>1. /\ lines \in Seq(SizedLines) /\ Len(lines) > 0 /\ Len(wire) \in Nat
      /\ Len(Due) = Len(lines) + Len(wire)
  BY DueIs
<1>2. Due[1] = lines[1] /\ Due[1] \in SizedLines
  BY <1>1, DueIs
<1>3. QED
  BY <1>1, <1>2 DEF Judged

LEMMA AppendIs ==
  ASSUME NEW S, NEW s \in Seq(S), NEW e \in S
  PROVE  /\ Append(s, e) \in Seq(S) /\ Len(Append(s, e)) = Len(s) + 1 /\ Len(s) \in Nat
         /\ \A m \in 1 .. Len(s) + 1 : Append(s, e)[m] = IF m <= Len(s) THEN s[m] ELSE e
         /\ Append(s, e) # << >>
         /\ s = << >> => Append(s, e)[1] = e
         /\ s # << >> => Append(s, e)[1] = s[1] /\ Tail(Append(s, e)) = Append(Tail(s), e)
OBVIOUS

LEMMA KeepEven ==
  ASSUME UNCHANGED <<state, got, read, sent>>
  PROVE  \A i : Even(i)' <=> Even(i)
BY DEF Even

LEMMA EndsRest ==
  ASSUME NEW s \in Seq(SizedLines), Ends(s), s # << >>
  PROVE  Ends(Tail(s)) /\ Tail(s) \in Seq(SizedLines)
<1>1. Tail(s) \in Seq(SizedLines) /\ \A m \in 1 .. Len(Tail(s)) : m + 1 \in 1 .. Len(s) /\ Tail(s)[m] = s[m + 1]
  OBVIOUS
<1>2. QED
  BY <1>1 DEF Ends

LEMMA SameBatch ==
  ASSUME UNCHANGED <<conn, got, read>>, NEW i
  PROVE  Batch(i)' = Batch(i)
BY DEF Batch, Bytes

\* Nobody speaks while data are under way.
LEMMA ServedSilent ==
  ASSUME Types, Polite, NEW i \in Ids, Served(i)
  PROVE  ~MaySpeak
<1>1. got[i] \in Nat /\ sent[i] \in Nat
  BY OrderTypes, BoundAssumption DEF Types, ModemTypes
<1>2. ~AllReceived
  BY <1>1 DEF Served, AllReceived
<1>3. QED
  BY <1>2 DEF MaySpeak

Speaks(i) ==
  Connect(i) \/ Close(i) \/ Send(i) \/ PeerClose(i) \/ \E n \in 1 .. MaxBytes : Arrive(i, n)

LEMMA SpeakTurn ==
  ASSUME Types, Types', Smooth, Turn, NEW i \in Ids, Speaks(i)
  PROVE  Turn'
<1>1. MaySpeak /\ Polite
  BY DEF Smooth, Speaks, Connect, Close, Send, PeerClose, Arrive
<1>2. cmds = << >> /\ wire = << >> /\ pc \notin {"data", "ok"}
  BY <1>1 DEF MaySpeak
<1>3. AllEven
  BY <1>1, ServedSilent DEF Turn
<1>4. queue = << >> /\ Ends(Due) /\ \A j \in Ids : Even(j)
  BY <1>3 DEF AllEven, Idle
<1>5. queue' = queue /\ cmds' = cmds /\ pc' = pc
  BY DEF Speaks, Connect, Close, Send, PeerClose, Arrive, driver
<1>6. /\ state \in [Ids -> {"none", "open", "ended"}]
      /\ sent \in [Ids -> 0 .. MaxBytes] /\ read \in [Ids -> 0 .. MaxBytes] /\ got \in [Ids -> 0 .. MaxBytes]
  BY OrderTypes DEF Types, ModemTypes
<1>7. CASE Connect(i) \/ Close(i) \/ Send(i)
  <2>1. lines' = << >> /\ wire' = << >>
    <3>1. Tail(Append(<< >>, OK)) = << >>
      OBVIOUS
    <3>2. QED
      BY <1>2, <1>7, <3>1 DEF Connect, Close, Send
  <2>2. Due' = << >>
    BY <2>1 DEF Due
  <2>3. \A j \in Ids : Even(j)'
    <3>1. CASE Connect(i)
      BY <1>4, <1>6, <3>1 DEF Connect, Even
    <3>2. CASE Close(i)
      BY <1>4, <1>6, <3>2 DEF Close, Even
    <3>3. CASE Send(i)
      BY <1>4, <1>6, <3>3 DEF Send, modem, Even
    <3>4. QED
      BY <1>7, <3>1, <3>2, <3>3
  <2>4. QED
    BY <1>2, <1>4, <1>5, <2>2, <2>3 DEF Turn, AllEven, Idle, Ends
<1>8. CASE PeerClose(i)
  <2>1. wire' = Append(wire, Ind(i, FALSE)) /\ lines' = lines
        /\ Ind(i, FALSE) \in SizedLines /\ Ind(i, FALSE).kind = "DATAIND" /\ ~Ind(i, FALSE).more
    BY <1>8, LineTypes DEF PeerClose, Ind
  <2>2. Due' = Append(Due, Ind(i, FALSE))
    BY <2>1, SayDue
  <2>3. Ends(Due)'
    <3>1. Due \in Seq(SizedLines)
      BY DueIs
    <3>2. PICK l \in SizedLines : l = Ind(i, FALSE)
      BY <2>1
    <3>7. /\ Len(Append(Due, l)) = Len(Due) + 1 /\ Len(Due) \in Nat
          /\ \A m \in 1 .. Len(Due) + 1 : Append(Due, l)[m] = IF m <= Len(Due) THEN Due[m] ELSE l
      BY <3>1, AppendIs
    <3>3. /\ Due' = Append(Due, l) /\ Len(Append(Due, l)) = Len(Due) + 1 /\ Len(Due) \in Nat
          /\ \A m \in 1 .. Len(Due) + 1 : Append(Due, l)[m] = IF m <= Len(Due) THEN Due[m] ELSE l
      BY <2>2, <3>2, <3>7
    <3>4. l.kind = "DATAIND" /\ ~l.more
      BY <2>1, <3>2
    <3>5. \A m \in 1 .. Len(Due') : Due'[m].kind = "DATAIND" /\ ~Due'[m].more
      BY <1>4, <3>3, <3>4 DEF Ends
    <3>6. QED
      BY <3>5 DEF Ends
  <2>4. \A j \in Ids : Even(j)'
    BY <1>4, <1>6, <1>8 DEF PeerClose, Even
  <2>5. QED
    BY <1>2, <1>4, <1>5, <2>3, <2>4 DEF Turn, AllEven, Idle
<1>9. CASE \E n \in 1 .. MaxBytes : Arrive(i, n)
  <2>1. PICK n \in 1 .. MaxBytes : Arrive(i, n)
    BY <1>9
  <2>2. wire' = Append(wire, Ind(i, TRUE)) /\ lines' = lines
        /\ Ind(i, TRUE) \in SizedLines /\ Ind(i, TRUE).kind = "DATAIND"
    BY <2>1, LineTypes DEF Arrive, Ind
  <2>3. Due' = Append(Due, Ind(i, TRUE)) /\ Due \in Seq(SizedLines)
    BY <2>2, SayDue, DueIs
  <2>4. /\ UNCHANGED <<state, read, got>> /\ state[i] = "open"
        /\ sent' = [sent EXCEPT ![i] = sent[i] + n]
    BY <2>1 DEF Arrive
  <2>5. got[i] = read[i] /\ read[i] = sent[i] /\ sent'[i] = sent[i] + n /\ sent[i] \in Nat
    BY <1>4, <1>6, <2>4, BoundAssumption DEF Even
  <2>6. \A j \in Ids \ {i} : Even(j)'
    BY <1>4, <1>6, <2>4 DEF Even
  <2>7. Told(i)'
    BY <1>2, <1>4, <1>5, <2>3, <2>4, <2>5 DEF Told
  <2>8. Served(i)'
    BY <2>4, <2>5, <2>6, <2>7 DEF Served
  <2>9. QED
    BY <2>8 DEF Turn
<1>10. QED
  BY <1>7, <1>8, <1>9 DEF Speaks

\* The steps other than these.
Works ==
  \/ CheckWhole \/ CheckPart \/ CheckNone \/ TimeUp
  \/ IndMore \/ IndEnd \/ IndOther \/ IndTimeout
  \/ DataRead \/ DataOther \/ DataTimeout \/ Enqueue
  \/ Exec \/ Deliver
  \/ (\E i \in Ids, n \in Amounts : Recv(i, n))
  \/ UNCHANGED vars

LEMMA WorkSteps ==
  ASSUME Types, Smooth, [Next]_vars
  PROVE  Works \/ \E i \in Ids : Speaks(i)
BY SmoothTimeout, Zenon DEF Next, Loop, Works, Speaks

\* The steps that neither take from the list nor ask or answer.
LEMMA Stays ==
  ASSUME Works, ~CheckWhole, ~CheckPart, ~Exec
  PROVE  UNCHANGED <<state, conn, sent, read, got>>
BY DEF Works, CheckNone, TimeUp, IndMore, IndEnd, IndOther, IndTimeout, DataRead, DataOther,
       DataTimeout, Enqueue, Deliver, Recv, Look, Goto, NextTurn, modem, vars

\* Checks, the beginning of recv() and its end by time, and the arrival of a line
\* change none of the lines, and go on to no reading of data.
LEMMA DueSame ==
  ASSUME Types, CheckNone \/ TimeUp \/ Deliver \/ (\E i \in Ids, n \in Amounts : Recv(i, n)) \/ UNCHANGED vars
  PROVE  /\ Due' = Due /\ cmds' = cmds /\ queue' = queue
         /\ \/ UNCHANGED <<pc, ind, data>>
            \/ pc \notin {"data", "ok"} /\ pc' \notin {"data", "ok"}
<1>1. CASE Deliver
  <2>1. UNCHANGED <<pc, ind, data, queue, cmds>>
    BY <1>1 DEF Deliver, driver
  <2>2. QED
    BY <1>1, <2>1, DeliverDue
<1>2. CASE UNCHANGED vars
  <2>1. UNCHANGED <<pc, ind, data, queue, cmds, lines, wire>>
    BY <1>2 DEF vars, driver
  <2>2. QED
    BY <2>1 DEF Due
<1>3. CASE CheckNone \/ TimeUp
  <2>1. /\ UNCHANGED <<cmds, wire, lines, queue>>
        /\ pc \in {"start", "check"} /\ pc' \in {"ind", "idle"}
    BY <1>3 DEF CheckNone, TimeUp, Look, Return, InTime
  <2>2. QED
    BY <2>1 DEF Due
<1>4. CASE \E i \in Ids, n \in Amounts : Recv(i, n)
  <2>1. UNCHANGED <<cmds, wire, lines, queue>> /\ pc = "idle" /\ pc' = "start"
    BY <1>4 DEF Recv
  <2>2. QED
    BY <2>1 DEF Due
<1>5. QED
  BY <1>1, <1>2, <1>3, <1>4

LEMMA IdleWorks == ASSUME Types, Types', Smooth, AllEven, Works PROVE Turn'
<1> USE DEF AllEven, Idle
<1>1. ~CheckWhole /\ ~CheckPart
  <2>1. 1 .. Len(queue) = {}
    OBVIOUS
  <2>2. QED
    BY <2>1 DEF CheckWhole, CheckPart
<1>2. ~Exec /\ ~Enqueue
  BY DEF Exec, Enqueue
<1>3. \A i \in Ids : Even(i)'
  BY <1>1, <1>2, Stays, KeepEven
<1>4. ReadLine => Due # << >> /\ Judged.kind = "DATAIND" /\ ~Judged.more
  BY SmoothRead DEF Ends
<1>5. ~IndMore /\ ~IndOther /\ ~DataRead /\ ~DataOther
  <2>1. lines # << >> => Judged.kind = "DATAIND" /\ ~Judged.more
    <3>1. lines # << >> => Judged = Due[1] /\ Len(Due) > 0
      BY FirstDue
    <3>2. QED
      BY <3>1, DueIs DEF Ends
  <2>2. QED
    BY <1>4, <2>1 DEF IndMore, IndOther, DataRead, DataOther, IsInd
<1>6. CASE CheckNone \/ TimeUp \/ Deliver \/ (\E i \in Ids, n \in Amounts : Recv(i, n)) \/ UNCHANGED vars
  <2>1. Ends(Due)'
    BY <1>6, DueSame DEF Ends
  <2>2. queue' = << >> /\ cmds' = << >> /\ pc' # "ok" /\ (pc' = "data" => Due' = << >>)
    BY <1>6, DueSame
  <2>3. QED
    BY <1>3, <2>1, <2>2 DEF Turn
<1>7. CASE IndEnd
  <2>1. /\ Due' = Tail(Due) /\ Due # << >> /\ cmds' = << >> /\ queue' = << >> /\ pc' = "idle"
    BY <1>7, SmoothRead DEF IndEnd, Return
  <2>2. Ends(Due)'
    <3>1. Ends(Tail(Due))
      BY <2>1, EndsRest, DueIs
    <3>2. QED
      BY <2>1, <3>1 DEF Ends
  <2>3. QED
    BY <1>3, <2>1, <2>2 DEF Turn
<1>8. CASE IndTimeout \/ DataTimeout
  <2>1. Due = << >> /\ UNCHANGED <<lines, wire, cmds>>
    BY <1>8, SmoothTimeout DEF IndTimeout, DataTimeout
  <2>2. Due' = << >>
    BY <2>1 DEF Due
  <2>3. queue' = queue /\ pc' # "ok"
    BY <1>8 DEF IndTimeout, DataTimeout, NextTurn, Goto
  <2>4. QED
    BY <1>3, <2>1, <2>2, <2>3 DEF Turn, Ends
<1>9. QED
  BY <1>1, <1>2, <1>5, <1>6, <1>7, <1>8 DEF Works

LEMMA ToldWorks ==
  ASSUME Types, Types', Smooth, NEW i \in Ids, Served(i), Told(i), Works
  PROVE  Turn'
<1> USE DEF Told
<1>1. ~CheckWhole /\ ~CheckPart
  <2>1. 1 .. Len(queue) = {}
    OBVIOUS
  <2>2. QED
    BY <2>1 DEF CheckWhole, CheckPart
<1>2. ~Exec /\ ~Enqueue /\ ~DataRead /\ ~DataOther /\ ~DataTimeout
  BY DEF Exec, Enqueue, DataRead, DataOther, DataTimeout
<1>3. /\ UNCHANGED <<state, conn, sent, read, got>>
      /\ state'[i] # "none" /\ got'[i] < sent'[i] /\ got'[i] = read'[i]
      /\ \A j \in Ids \ {i} : Even(j)'
  <2>1. UNCHANGED <<state, conn, sent, read, got>>
    BY <1>1, <1>2, Stays
  <2>2. QED
    BY <2>1, KeepEven DEF Served
<1>4. PICK s \in Seq(SizedLines) : Ends(s) /\ Due = Append(s, Ind(i, TRUE))
  OBVIOUS
<1>5. /\ Ind(i, TRUE) \in SizedLines /\ Ind(i, TRUE).kind = "DATAIND" /\ Ind(i, TRUE).id = i
      /\ Ind(i, TRUE).more = TRUE
  BY LineTypes DEF Ind
<1>6. /\ Len(Due) = Len(s) + 1 /\ Len(s) \in Nat /\ Due # << >>
      /\ s = << >> => Due[1] = Ind(i, TRUE) /\ Len(s) = 0
      /\ s # << >> => Due[1] = s[1] /\ 1 \in 1 .. Len(s) /\ Tail(Due) = Append(Tail(s), Ind(i, TRUE))
  <2>1. PICK l \in SizedLines : l = Ind(i, TRUE)
    BY <1>5
  <2>2. Due = Append(s, l)
    BY <1>4, <2>1
  <2>3. (s # << >> => 1 \in 1 .. Len(s)) /\ (s = << >> => Len(s) = 0)
    OBVIOUS
  <2>4. /\ Len(Append(s, l)) = Len(s) + 1 /\ Len(s) \in Nat /\ Append(s, l) # << >>
        /\ s = << >> => Append(s, l)[1] = l
        /\ s # << >> => Append(s, l)[1] = s[1] /\ Tail(Append(s, l)) = Append(Tail(s), l)
    BY AppendIs
  <2>5. QED
    BY <2>1, <2>2, <2>3, <2>4
<1>7. Due[1].kind = "DATAIND" /\ (s # << >> => ~Due[1].more)
  BY <1>4, <1>5, <1>6 DEF Ends
<1>8. CASE CheckNone \/ TimeUp \/ Deliver \/ (\E j \in Ids, n \in Amounts : Recv(j, n)) \/ UNCHANGED vars
  <2>1. Told(i)'
    BY <1>3, <1>8, DueSame
  <2>2. QED
    BY <1>3, <2>1 DEF Turn, Served
<1>9. CASE IndMore
  <2>1. /\ lines # << >> /\ Judged.more = TRUE /\ ind' = Judged.id /\ cmds' = Append(cmds, Judged.id)
        /\ lines' = << >> /\ wire' = wire /\ pc' = "data" /\ queue' = queue
    BY <1>9 DEF IndMore, IsInd, Goto
  <2>2. Judged = Due[1]
    BY <2>1, FirstDue
  <2>3. s = << >> /\ Judged.id = i
    BY <1>5, <1>6, <1>7, <2>1, <2>2
  <2>4. wire = << >>
    <3>1. Len(lines) + Len(wire) = 1 /\ Len(lines) > 0 /\ Len(wire) \in Nat
      BY <1>6, <2>1, <2>3, DueIs
    <3>2. QED
      BY <3>1, DueIs
  <2>5. Due' = << >> /\ cmds' = <<i>>
    BY <2>1, <2>3, <2>4 DEF Due
  <2>6. Asked(i)'
    BY <1>3, <2>1, <2>3, <2>5 DEF Asked
  <2>7. QED
    BY <1>3, <2>6 DEF Turn, Served
<1>10. CASE IndEnd
  <2>1. /\ ReadLine /\ Judged.more = FALSE /\ pc' = "idle" /\ queue' = queue
    BY <1>10 DEF IndEnd, IsInd, Return
  <2>2. Due' = Tail(Due) /\ cmds' = cmds /\ Judged = Due[1]
    BY <2>1, SmoothRead
  <2>3. s # << >>
    BY <1>5, <1>6, <2>1, <2>2
  <2>4. Ends(Tail(s)) /\ Tail(s) \in Seq(SizedLines) /\ Due' = Append(Tail(s), Ind(i, TRUE))
    BY <1>4, <1>6, <2>2, <2>3, EndsRest
  <2>5. \E t \in Seq(SizedLines) : Ends(t) /\ Due' = Append(t, Ind(i, TRUE))
    BY <2>4, Zenon
  <2>6. Told(i)'
    BY <1>3, <2>1, <2>2, <2>5 DEF Ends
  <2>7. QED
    BY <1>3, <2>6 DEF Turn, Served
<1>11. ~IndOther /\ ~IndTimeout
  BY <1>6, <1>7, SmoothRead, SmoothTimeout DEF IndOther, IndTimeout
<1>12. QED
  BY <1>1, <1>2, <1>8, <1>9, <1>10, <1>11 DEF Works

\* What is still to be read is empty when nothing has arrived and nothing will.
LEMMA NoDue == ASSUME Types, Due = << >> PROVE lines = << >> /\ wire = << >>
<1>1. Len(lines) + Len(wire) = 0 /\ Len(lines) \in Nat /\ Len(wire) \in Nat
  BY DueIs
<1>2. Len(lines) = 0 /\ Len(wire) = 0
  BY <1>1
<1>3. QED
  BY <1>2, DueIs

\* The bytes that the modem gives are those that it has and recv() has not returned.
LEMMA BatchType ==
  ASSUME Types, Order, NEW i \in Ids, state[i] # "none"
  PROVE  /\ Batch(i) \in Sized /\ Batch(i).id = i /\ Batch(i).conn = conn[i]
         /\ Batch(i).first = got[i] /\ Batch(i).len = read[i] - got[i]
         /\ got[i] \in Nat /\ read[i] \in Nat /\ sent[i] \in Nat
<1>1. /\ got[i] \in 0 .. MaxBytes /\ read[i] \in 0 .. MaxBytes /\ got[i] <= read[i]
      /\ conn[i] \in 1 .. MaxConns /\ sent[i] \in 0 .. MaxBytes
  BY OrderTypes, BoundAssumption DEF Order, Types, ModemTypes
<1>2. QED
  BY <1>1, BoundAssumption DEF Batch, Bytes, Sized, AllBytes

LEMMA AskedWorks ==
  ASSUME Types, Types', Smooth, Order, NEW i \in Ids, Served(i), Asked(i), Works
  PROVE  Turn'
<1> USE DEF Asked
<1>1. lines = << >> /\ wire = << >>
  BY NoDue
<1>2. CASE Exec
  <2>1. Head(cmds) = i /\ Tail(cmds) = << >> /\ state[i] # "none"
    BY DEF Served
  <2>2. /\ cmds' = << >> /\ wire' = wire \o <<Data(Bytes(i, conn[i], read[i], Stock(i))), OK>>
        /\ read' = [read EXCEPT ![i] = sent[i]]
        /\ UNCHANGED <<pc, ind, queue, lines, state, conn, sent, got>>
    BY <1>2, <2>1 DEF Exec, driver
  <2>3. read'[i] = sent[i] /\ \A j \in Ids \ {i} : read'[j] = read[j]
    BY <2>2, OrderTypes
  <2>4. Batch(i)' = Bytes(i, conn[i], read[i], Stock(i))
    BY <2>2, <2>3 DEF Batch, Stock
  <2>5. Due' = <<Data(Bytes(i, conn[i], read[i], Stock(i))), OK>>
    <3>1. PICK b \in Sized : b = Bytes(i, conn[i], read[i], Stock(i))
      <4>1. /\ conn[i] \in 1 .. MaxConns /\ read[i] \in 0 .. MaxBytes /\ sent[i] \in 0 .. MaxBytes
            /\ read[i] <= sent[i]
        BY <2>1, BoundAssumption DEF Types, ModemTypes
      <4>2. Bytes(i, conn[i], read[i], Stock(i)) \in Sized
        BY <4>1, BoundAssumption DEF Bytes, Sized, AllBytes, Stock
      <4>3. QED
        BY <4>2
    <3>2. \A x, y \in SizedLines : << >> \o (<< >> \o <<x, y>>) = <<x, y>>
      <4> TAKE x, y \in SizedLines
      <4>5. <<x, y>> \in Seq(SizedLines)
        OBVIOUS
      <4>1. PICK t \in Seq(SizedLines) : t = <<x, y>>
        BY <4>5
      <4>2. << >> \o t = t
        BY <4>1
      <4>3. << >> \o (<< >> \o t) = t
        BY <4>2
      <4>4. QED
        BY <4>1, <4>3, Zenon
    <3>3. Data(b) \in SizedLines /\ OK \in SizedLines
      BY LineTypes
    <3>4. << >> \o (<< >> \o <<Data(b), OK>>) = <<Data(b), OK>>
      BY <3>2, <3>3
    <3>5. lines' = << >> /\ wire' = << >> \o <<Data(b), OK>>
      BY <1>1, <2>2, <3>1
    <3>6. QED
      BY <3>1, <3>4, <3>5, Zenon DEF Due
  <2>6. Answered(i)'
    BY <2>2, <2>3, <2>4, <2>5 DEF Answered
  <2>7. Served(i)'
    BY <2>2, <2>3, <2>6 DEF Served, Even
  <2>8. QED
    BY <2>7 DEF Turn
<1>3. CASE UNCHANGED vars
  <2>1. UNCHANGED <<pc, ind, queue, cmds, lines, wire, state, conn, sent, read, got>>
    BY <1>3 DEF vars, driver, modem
  <2>2. Asked(i)' /\ Due' = Due
    BY <2>1 DEF Due
  <2>3. Served(i)'
    BY <2>1, <2>2 DEF Served, Even
  <2>4. QED
    BY <2>3 DEF Turn
<1>4. cmds # << >>
  OBVIOUS
<1>5. ~CheckWhole /\ ~CheckPart /\ ~CheckNone /\ ~TimeUp /\ ~(\E j \in Ids, n \in Amounts : Recv(j, n))
  BY DEF CheckWhole, CheckPart, CheckNone, TimeUp, InTime, Recv
<1>6. ~IndMore /\ ~IndEnd /\ ~IndOther /\ ~IndTimeout /\ ~Enqueue
  BY DEF IndMore, IndEnd, IndOther, IndTimeout, Enqueue
<1>7. ~DataRead /\ ~DataOther /\ ~DataTimeout /\ ~Deliver
  BY <1>1, <1>4, SmoothTimeout DEF DataRead, DataOther, DataTimeout, Deliver, ReadLine
<1>8. QED
  BY <1>2, <1>3, <1>5, <1>6, <1>7 DEF Works

LEMMA AnsweredWorks ==
  ASSUME Types, Types', Smooth, Order, NEW i \in Ids, Served(i), Answered(i), Works
  PROVE  Turn'
<1> USE DEF Answered
<1>1. PICK b \in Sized : b = Batch(i)
  BY BatchType DEF Served
<1>2. PICK x \in SizedLines : x = Data(b) /\ x.kind = "SOCKREAD" /\ x.bytes = b
  BY LineTypes DEF Data
<1>3. PICK y \in SizedLines : y = OK
  BY LineTypes
<1>4. \/ pc = "data" /\ Due = <<x, y>>
      \/ pc = "ok" /\ data = b /\ Due = <<y>>
  BY <1>1, <1>2, <1>3
<1>5. Due # << >>
  <2>1. <<x, y>> # << >> /\ <<y>> # << >>
    OBVIOUS
  <2>2. QED
    BY <1>4, <2>1
<1>6. ~Timeout
  BY <1>5, SmoothTimeout
<1>7. ~CheckWhole /\ ~CheckPart /\ ~CheckNone /\ ~TimeUp /\ ~(\E j \in Ids, n \in Amounts : Recv(j, n))
  BY DEF CheckWhole, CheckPart, CheckNone, TimeUp, InTime, Recv
<1>8. ~IndMore /\ ~IndEnd /\ ~IndOther /\ ~IndTimeout /\ ~DataTimeout /\ ~Exec
  BY <1>6 DEF IndMore, IndEnd, IndOther, IndTimeout, DataTimeout, Exec
<1>9. UNCHANGED <<state, conn, sent, read, got>>
  BY <1>7, <1>8, Stays
<1>10. /\ state'[i] # "none" /\ got'[i] < sent'[i] /\ read'[i] = sent'[i] /\ Batch(i)' = b
       /\ \A j \in Ids \ {i} : Even(j)'
  BY <1>1, <1>9, KeepEven, SameBatch DEF Served
<1>11. CASE Deliver \/ UNCHANGED vars
  <2>1. UNCHANGED <<pc, ind, data, queue, cmds>>
    BY <1>11 DEF Deliver, driver, vars
  <2>2. Due' = Due
    BY <1>11, DueSame
  <2>3. Answered(i)'
    BY <1>1, <1>10, <2>1, <2>2
  <2>4. QED
    BY <1>10, <2>3 DEF Turn, Served
<1>12. CASE DataRead
  <2>1. /\ pc = "data" /\ pc' = "ok" /\ ReadLine /\ data' = Judged.bytes /\ UNCHANGED <<ind, queue>>
    BY <1>12 DEF DataRead, Goto
  <2>2. Due = <<x, y>>
    BY <1>4, <2>1
  <2>3. Due' = Tail(Due) /\ Judged = Due[1] /\ cmds' = cmds
    BY <2>1, SmoothRead
  <2>4. Due' = <<y>> /\ data' = b
    BY <1>2, <2>1, <2>2, <2>3
  <2>5. Answered(i)'
    BY <1>3, <1>10, <2>1, <2>3, <2>4
  <2>6. QED
    BY <1>10, <2>5 DEF Turn, Served
<1>13. CASE DataOther
  <2>1. pc = "data" /\ ReadLine /\ Judged.kind # "SOCKREAD"
    BY <1>13 DEF DataOther
  <2>2. Due = <<x, y>>
    BY <1>4, <2>1
  <2>3. Judged = x
    BY <2>1, <2>2, SmoothRead
  <2>4. QED
    BY <1>2, <2>1, <2>3
<1>14. CASE Enqueue
  <2>1. /\ pc = "ok" /\ pc' = "check" /\ ReadLine
        /\ \E j \in Owners : queue' = Append(queue, [to |-> j, bytes |-> data])
    BY <1>6, <1>14 DEF Enqueue
  <2>2. Owners = {i}
    BY IdAssumption DEF Owners
  <2>3. queue' = <<[to |-> i, bytes |-> b]>>
    BY <1>4, <2>1, <2>2
  <2>4. Due' = Tail(Due) /\ cmds' = cmds
    BY <2>1, SmoothRead
  <2>5. Due' = << >>
    <3>1. Due = <<y>>
      BY <1>4, <2>1
    <3>2. Tail(<<y>>) = << >>
      OBVIOUS
    <3>3. QED
      BY <2>4, <3>1, <3>2
  <2>6. Stored(i)'
    BY <1>10, <2>1, <2>3, <2>4, <2>5 DEF Stored
  <2>7. QED
    BY <1>10, <2>6 DEF Turn, Served
<1>15. QED
  BY <1>7, <1>8, <1>11, <1>12, <1>13, <1>14 DEF Works

LEMMA StoredWorks ==
  ASSUME Types, Types', Smooth, Order, NEW i \in Ids, Served(i), Stored(i), Works
  PROVE  Turn'
<1> USE DEF Stored
<1>1. PICK b \in Sized : b = Batch(i)
  BY BatchType DEF Served
<1>2. /\ b.id = i /\ b.conn = conn[i] /\ b.first = got[i] /\ b.len = read[i] - got[i]
      /\ got[i] \in Nat /\ read[i] \in Nat /\ read[i] = sent[i] /\ got[i] < sent[i]
  BY <1>1, BatchType DEF Served
<1>3. PICK q \in Packets : q = [to |-> i, bytes |-> b] /\ q.to = i /\ q.bytes = b
  <2>1. [to |-> i, bytes |-> b] \in Packets
    BY DEF Packets
  <2>2. QED
    BY <2>1
<1>4. queue = <<q>> /\ Len(queue) = 1 /\ queue[1] = q
  BY <1>1, <1>3
<1>5. lines = << >> /\ wire = << >>
  BY NoDue
<1>6. ASSUME UNCHANGED <<state, conn, sent, read, got, queue, cmds>>, Due' = << >>, pc' # "ok"
      PROVE  Turn'
  <2>1. Batch(i)' = b /\ read'[i] = sent'[i]
    BY <1>1, <1>6, SameBatch
  <2>2. Stored(i)'
    BY <1>1, <1>6, <2>1
  <2>3. Served(i)'
    BY <1>6, <2>2, KeepEven DEF Served
  <2>4. QED
    BY <2>3 DEF Turn
<1>7. CASE CheckNone \/ TimeUp \/ Deliver \/ (\E j \in Ids, n \in Amounts : Recv(j, n)) \/ UNCHANGED vars
  <2>1. UNCHANGED <<state, conn, sent, read, got>>
    BY <1>7 DEF CheckNone, TimeUp, Deliver, Recv, Look, modem, vars
  <2>2. QED
    BY <1>6, <1>7, <2>1, DueSame
<1>8. CASE IndTimeout \/ DataTimeout
  <2>1. UNCHANGED <<lines, wire, cmds>>
    BY <1>8, SmoothTimeout DEF IndTimeout, DataTimeout
  <2>2. UNCHANGED <<state, conn, sent, read, got, queue>> /\ pc' # "ok"
    BY <1>8 DEF IndTimeout, DataTimeout, NextTurn, Goto, modem
  <2>3. Due' = << >>
    BY <2>1 DEF Due
  <2>4. QED
    BY <1>6, <2>1, <2>2, <2>3
<1>9. ~IndMore /\ ~IndEnd /\ ~IndOther /\ ~DataRead /\ ~DataOther /\ ~Enqueue /\ ~Exec
  BY <1>5 DEF IndMore, IndEnd, IndOther, DataRead, DataOther, Enqueue, Exec, IsInd, ReadLine
<1>10. CASE CheckWhole
  <2>1. /\ Mine(1) /\ queue' = RemoveAt(queue, 1)
        /\ IF b.len = 0
           THEN pc' = "ind" /\ UNCHANGED <<want, ind, waits, data, out, got>>
           ELSE Give(b, b.len)
        /\ UNCHANGED <<cmds, wire, lines, modem>>
    BY <1>3, <1>4, <1>10 DEF CheckWhole, Look
  <2>2. b.len # 0
    BY <1>2
  <2>3. want.id = i /\ pc' = "idle" /\ got' = [got EXCEPT ![i] = got[i] + (read[i] - got[i])]
    BY <1>2, <1>3, <1>4, <2>1, <2>2 DEF Give, Return, Mine
  <2>4. got[i] + (read[i] - got[i]) = read[i]
    BY <1>2
  <2>5. got'[i] = read[i] /\ \A j \in Ids \ {i} : got'[j] = got[j]
    BY <2>3, <2>4, OrderTypes
  <2>6. queue' = << >>
    <3>1. queue \in Seq(Packets) /\ 1 \in 1 .. Len(queue)
      BY <1>4, OrderTypes
    <3>2. Len(RemoveAt(queue, 1)) = Len(queue) - 1 /\ RemoveAt(queue, 1) \in Seq(Packets)
      BY <3>1, RemoveAtIs
    <3>3. QED
      BY <1>4, <2>1, <3>2
  <2>7. UNCHANGED <<state, sent, read>> /\ Due' = << >> /\ cmds' = << >>
    BY <2>1 DEF modem, Due
  <2>8. \A j \in Ids : Even(j)'
    BY <1>2, <2>5, <2>7 DEF Even, Served
  <2>9. QED
    BY <2>3, <2>6, <2>7, <2>8 DEF Turn, AllEven, Idle, Ends
<1>11. CASE CheckPart
  <2>1. PICK n \in Nat : n = want.amount
    BY OrderTypes
  <2>2. /\ Mine(1) /\ b.len > n
        /\ queue' = [queue EXCEPT ![1].bytes = Bytes(b.id, b.conn, b.first + n, b.len - n)]
        /\ Give(b, n)
        /\ UNCHANGED <<cmds, wire, lines, modem>>
    <3>1. PICK k \in 1 .. Len(queue) :
            /\ Mine(k) /\ queue[k].bytes.len > n
            /\ queue' = [queue EXCEPT ![k].bytes =
                            Bytes(queue[k].bytes.id, queue[k].bytes.conn,
                                  queue[k].bytes.first + n, queue[k].bytes.len - n)]
            /\ Give(queue[k].bytes, n)
      BY <1>11, <2>1 DEF CheckPart
    <3>2. k = 1 /\ queue[k].bytes = b
      BY <1>3, <1>4
    <3>3. UNCHANGED <<cmds, wire, lines, modem>>
      BY <1>11 DEF CheckPart, Look
    <3>4. QED
      BY <3>1, <3>2, <3>3
  <2>3. want.id = i /\ pc' = "idle" /\ got' = [got EXCEPT ![i] = got[i] + n]
    BY <1>2, <1>3, <1>4, <2>2 DEF Give, Return, Mine
  <2>4. got'[i] = got[i] + n /\ (\A j \in Ids \ {i} : got'[j] = got[j])
    BY <2>3, OrderTypes
  <2>5. UNCHANGED <<state, sent, read, conn>> /\ Due' = << >> /\ cmds' = << >>
    BY <2>2 DEF modem, Due
  <2>6. Batch(i)' = Bytes(b.id, b.conn, b.first + n, b.len - n)
    <3>1. read[i] - (got[i] + n) = (read[i] - got[i]) - n
      BY <1>2
    <3>2. QED
      BY <1>2, <2>4, <2>5, <3>1 DEF Batch
  <2>7. queue' = <<[to |-> i, bytes |-> Batch(i)']>>
    <3>1. queue' = [queue EXCEPT ![1] = [queue[1] EXCEPT !.bytes = Batch(i)']]
      BY <2>2, <2>6
    <3>2. [queue[1] EXCEPT !.bytes = Batch(i)'] = [to |-> i, bytes |-> Batch(i)']
      BY <1>3, <1>4
    <3>3. \A e : [<<q>> EXCEPT ![1] = e] = <<e>>
      OBVIOUS
    <3>4. QED
      BY <1>4, <3>1, <3>2, <3>3
  <2>8. Stored(i)'
    BY <1>2, <2>3, <2>5, <2>7
  <2>9. Served(i)'
    <3>1. got'[i] < sent'[i]
      BY <1>2, <2>2, <2>4, <2>5
    <3>2. QED
      BY <2>4, <2>5, <2>8, <3>1 DEF Served, Even
  <2>10. QED
    BY <2>9 DEF Turn
<1>12. QED
  BY <1>7, <1>8, <1>9, <1>10, <1>11 DEF Works

LEMMA TurnStep == ASSUME Types, Types', Order, Smooth, Turn, [Next]_vars PROVE Turn'
<1>1. CASE \E i \in Ids : Speaks(i)
  BY <1>1, SpeakTurn
<1>2. CASE Works
  BY <1>2, IdleWorks, ToldWorks, AskedWorks, AnsweredWorks, StoredWorks DEF Turn, Served
<1>3. QED
  BY <1>1, <1>2, WorkSteps

-----------------------------------------------------------------------------
(* The invariant. *)

IInv == Types /\ Order /\ (Polite /\ faults = 0 => Turn)

LEMMA InitInv == Init => IInv
<1> SUFFICES ASSUME Init PROVE IInv
  OBVIOUS
<1> USE DEF Init
<1>1. LoopTypes /\ Times
  <2>1. LoopTypes
    BY BoundAssumption DEF LoopTypes
  <2>2. Times
    BY BoundAssumption DEF Times
  <2>3. QED
    BY <2>1, <2>2
<1>2. LinkTypes /\ ModemTypes
  BY BoundAssumption DEF LinkTypes, ModemTypes
<1>3. Types
  BY <1>1, <1>2 DEF Types
<1>4. Due = << >> /\ Len(Due) = 0
  <2>1. << >> \o << >> = << >>
    OBVIOUS
  <2>2. QED
    BY <2>1 DEF Due
<1>5. Len(queue) = 0
  OBVIOUS
<1>6. ListOrder
  BY <1>5 DEF ListOrder
<1>7. LineOrder
  BY <1>4 DEF LineOrder
<1>8. \A i \in Ids : got[i] = read[i] /\ read[i] = sent[i] /\ got[i] <= read[i]
  BY BoundAssumption
<1>9. Order
  BY <1>6, <1>7, <1>8 DEF Order
<1>10. Turn
  BY <1>4, <1>8 DEF Turn, AllEven, Idle, Ends, Even
<1>11. QED
  BY <1>3, <1>9, <1>10 DEF IInv

LEMMA InvStep == IInv /\ [Next]_vars => IInv'
<1> SUFFICES ASSUME IInv, [Next]_vars PROVE IInv'
  OBVIOUS
<1>1. Types /\ Order
  BY DEF IInv
<1>2. Types'
  BY <1>1, TypesStep
<1>3. Order'
  BY <1>1, <1>2, OrderStep
<1>4. ASSUME Polite, faults' = 0 PROVE Turn'
  <2>1. faults = 0
    <3>1. faults \in Nat
      BY <1>1, BoundAssumption DEF Types, LinkTypes
    <3>2. faults' = faults \/ faults' = faults + 1
      BY DEF Next, Loop, CheckWhole, CheckPart, CheckNone, TimeUp, Look, IndMore, IndEnd, IndOther,
             IndTimeout, DataRead, DataOther, DataTimeout, Enqueue, EnqueueFails, ReadLine, Timeout,
             Trouble, Connect, Close, Send, PeerClose, Arrive, Recv, Exec, Deliver, vars
    <3>3. QED
      BY <1>4, <3>1, <3>2
  <2>2. Turn
    BY <1>4, <2>1 DEF IInv
  <2>3. QED
    BY <1>1, <1>2, <1>4, <2>1, <2>2, TurnStep DEF Smooth
<1>5. QED
  BY <1>2, <1>3, <1>4 DEF IInv

LEMMA Invariance == Spec => []IInv
BY InitInv, InvStep, PTL DEF Spec

-----------------------------------------------------------------------------
(* The theorems. *)

LEMMA SeqWider ==
  ASSUME NEW S, NEW T, S \subseteq T, NEW s \in Seq(S)
  PROVE  s \in Seq(T)
OBVIOUS

\* The types: in particular the time of a recv(), in scans that have timed out, stays
\* within one scan() of its limit, and the modem never gives more of a stream than
\* the peer has sent.
THEOREM RecvTyping == Spec => []TypeOK
<1>1. IInv => TypeOK
  <2> SUFFICES ASSUME Types PROVE TypeOK
    BY DEF IInv
  <2>1. SizedLines \subseteq Lines
    BY DEF SizedLines, Lines, Sized
  <2>2. Packets \subseteq [to : Ids \cup {NoId}, bytes : AllBytes]
    BY DEF Packets, Sized
  <2>3. wire \in Seq(Lines) /\ lines \in Seq(Lines)
    BY <2>1, SeqWider DEF Types, LinkTypes
  <2>4. queue \in Seq([to : Ids \cup {NoId}, bytes : AllBytes])
    BY <2>2, SeqWider DEF Types, LoopTypes
  <2>5. data \in AllBytes \cup {<< >>}
    BY DEF Types, LoopTypes, Sized
  <2>6. QED
    BY <2>3, <2>4, <2>5 DEF TypeOK, Types, LoopTypes, Times, LinkTypes, ModemTypes
<1>2. QED
  BY Invariance, <1>1, PTL

\* What a recv() that returns bytes has done: it has taken n bytes from the beginning
\* of the first packet for its socket.
LEMMA Returned ==
  ASSUME Types, Next, out' # << >>, pc' = "idle", pc # "idle"
  PROVE  \E k \in 1 .. Len(queue), n \in Nat :
           /\ Mine(k) /\ out' = [queue[k].bytes EXCEPT !.len = n]
           /\ 0 < n /\ n <= queue[k].bytes.len /\ n <= want.amount
<1>1. CheckWhole \/ CheckPart
  <2>1. CASE CheckWhole \/ CheckPart \/ CheckNone \/ TimeUp
    BY <2>1 DEF CheckNone, TimeUp, Return
  <2>2. CASE Reading
    BY <2>2 DEF Reading, IndMore, IndEnd, IndOther, IndTimeout, DataRead, DataOther, DataTimeout,
                Enqueue, EnqueueFails, NextTurn, Goto, Return
  <2>3. CASE Around \/ \E i \in Ids, n \in Amounts : Recv(i, n)
    BY <2>3 DEF Around, Connect, Close, Send, PeerClose, Arrive, Exec, Deliver, Recv, driver
  <2>4. QED
    BY <2>1, <2>2, <2>3, Zenon DEF Next, Loop, Reading, Around
<1>2. want.amount \in Nat /\ want.amount > 0
  <2>1. want.amount \in Amounts
    BY DEF Types, LoopTypes
  <2>2. \A a \in Amounts : a \in Nat /\ a > 0
    BY BoundAssumption
  <2>3. QED
    BY <2>1, <2>2
<1>3. CASE CheckWhole
  <2>1. PICK k \in 1 .. Len(queue) :
          /\ Mine(k) /\ queue[k].bytes.len <= want.amount
          /\ queue[k].bytes.len # 0 /\ Give(queue[k].bytes, queue[k].bytes.len)
    BY <1>3 DEF CheckWhole
  <2>2. queue[k].bytes.len \in Nat
    BY OrderTypes, SizedFields, BoundAssumption
  <2>3. QED
    BY <2>1, <2>2 DEF Give, Return
<1>4. CASE CheckPart
  <2>1. PICK k \in 1 .. Len(queue) :
          Mine(k) /\ queue[k].bytes.len > want.amount /\ Give(queue[k].bytes, want.amount)
    BY <1>4 DEF CheckPart
  <2>2. queue[k].bytes.len \in Nat
    BY OrderTypes, SizedFields, BoundAssumption
  <2>3. QED
    BY <1>2, <2>1, <2>2 DEF Give, Return
<1>5. QED
  BY <1>1, <1>3, <1>4

\* recv() returns the bytes of a connection in the order in which they were sent, and
\* none twice, whatever is late, lost or on the wire for other sockets: what is in
\* the list under the right socket is new and in order, and the lines still to be
\* read follow it.
THEOREM RecvOrdered == Spec => Ordered
<1> DEFINE A == out' # << >> /\ pc' = "idle" /\ pc # "idle" /\ out'.id = want.id /\ out'.conn = conn[want.id]
                  => out'.first >= got[want.id]
<1>1. IInv /\ [Next]_vars => [A]_vars
  <2> SUFFICES ASSUME IInv, Next, out' # << >>, pc' = "idle", pc # "idle", out'.id = want.id,
                      out'.conn = conn[want.id]
               PROVE  out'.first >= got[want.id]
    OBVIOUS
  <2>1. Types /\ Order
    BY DEF IInv
  <2>2. PICK k \in 1 .. Len(queue), n \in Nat :
          Mine(k) /\ n <= queue[k].bytes.len /\ out' = [queue[k].bytes EXCEPT !.len = n]
    BY <2>1, Returned
  <2>3. PICK b \in Sized : b = queue[k].bytes
    BY <2>1, OrderTypes
  <2>4. out'.id = b.id /\ out'.conn = b.conn /\ out'.first = b.first
    BY <2>2, <2>3, Cut
  <2>5. queue[k].to = b.id
    BY <2>2, <2>4 DEF Mine
  <2>6. New(b)
    BY <2>1, <2>3, <2>5 DEF Order, ListOrder
  <2>7. b.first \in Nat /\ got[want.id] \in Nat
    BY <2>1, SizedFields, OrderTypes, BoundAssumption
  <2>8. QED
    BY <2>4, <2>6, <2>7 DEF New
<1>2. QED
  BY Invariance, <1>1, PTL DEF Spec, Ordered

\* When nobody speaks out of turn and no answer is late, the bytes that recv() returns
\* are the very next of the present connection of the socket it was called for, one
\* at least, no more than there is room for, and none that has not been sent: none
\* is skipped, and none is another socket's or an earlier connection's.
NextBytes ==
  Polite /\ faults = 0 /\ pc # "idle" /\ pc' = "idle" /\ out' # << >> =>
    /\ out'.id = want.id /\ out'.conn = conn[want.id] /\ out'.first = got[want.id]
    /\ out'.len \in 1 .. want.amount
    /\ out'.first + out'.len <= sent[want.id]

\* In polite company recv() delivers each stream to its own socket without a gap; the
\* run RecvCross shows that it takes no more than an impolite peer to undo it.
THEOREM RecvExact == Spec => [][NextBytes]_vars
<1>1. IInv /\ [Next]_vars => [NextBytes]_vars
  <2> SUFFICES ASSUME Types, Order, Turn, Next, pc # "idle", pc' = "idle", out' # << >>
               PROVE  /\ out'.id = want.id /\ out'.conn = conn[want.id]
                      /\ out'.first = got[want.id] /\ out'.len \in 1 .. want.amount
                      /\ out'.first + out'.len <= sent[want.id]
    BY DEF IInv, NextBytes
  <2>1. PICK k \in 1 .. Len(queue), n \in Nat :
          /\ Mine(k) /\ out' = [queue[k].bytes EXCEPT !.len = n]
          /\ 0 < n /\ n <= queue[k].bytes.len /\ n <= want.amount
    BY Returned
  <2>2. queue # << >>
    BY <2>1
  <2>3. PICK i \in Ids : Served(i) /\ Stored(i)
    BY <2>2 DEF Turn, AllEven, Idle, Served, Told, Asked, Answered
  <2>4. PICK b \in Sized : b = Batch(i) /\ b.id = i /\ b.conn = conn[i] /\ b.first = got[i]
                           /\ b.len = read[i] - got[i]
    BY <2>3, BatchType DEF Served
  <2>5. Len(queue) = 1 /\ queue[1].to = i /\ queue[1].bytes = b
    BY <2>3, <2>4 DEF Stored
  <2>6. k = 1 /\ want.id = i
    BY <2>1, <2>5 DEF Mine
  <2>7. out'.id = b.id /\ out'.conn = b.conn /\ out'.first = b.first /\ out'.len = n
    BY <2>1, <2>5, <2>6, Cut
  <2>8. /\ got[i] \in Nat /\ read[i] \in Nat /\ sent[i] \in Nat /\ read[i] = sent[i]
        /\ want.amount \in Nat
    BY <2>3, OrderTypes, BoundAssumption DEF Types, LoopTypes, ModemTypes, Stored
  <2>9. n <= b.len
    BY <2>1, <2>5, <2>6
  <2>10. QED
    BY <2>1, <2>4, <2>6, <2>7, <2>8, <2>9
<1>2. QED
  BY Invariance, <1>1, PTL DEF Spec

\* What is due is on the wire or has come from it.
LEMMA Turned ==
  ASSUME Types, NEW m \in 1 .. Len(Due)
  PROVE  \E k \in 1 .. Len(wire \o lines) : (wire \o lines)[k] = Due[m]
<1>1. /\ Len(wire \o lines) = Len(wire) + Len(lines)
      /\ \A k \in 1 .. Len(wire) + Len(lines) :
           (wire \o lines)[k] = IF k <= Len(wire) THEN wire[k] ELSE lines[k - Len(wire)]
  BY DueIs, ConcatIs
<1>2. /\ Len(lines) \in Nat /\ Len(wire) \in Nat /\ m \in 1 .. Len(lines) + Len(wire)
      /\ Due[m] = IF m <= Len(lines) THEN lines[m] ELSE wire[m - Len(lines)]
  BY DueIs
<1>3. CASE m <= Len(lines)
  <2>1. m + Len(wire) \in 1 .. Len(wire) + Len(lines) /\ (m + Len(wire)) - Len(wire) = m
        /\ ~(m + Len(wire) <= Len(wire))
    BY <1>2, <1>3
  <2>2. (wire \o lines)[m + Len(wire)] = Due[m]
    BY <1>1, <1>2, <1>3, <2>1
  <2>3. QED
    BY <1>1, <2>1, <2>2
<1>4. CASE m > Len(lines)
  <2>1. m - Len(lines) \in 1 .. Len(wire) + Len(lines) /\ m - Len(lines) <= Len(wire)
        /\ ~(m <= Len(lines))
    BY <1>2, <1>4
  <2>2. (wire \o lines)[m - Len(lines)] = Due[m]
    BY <1>1, <1>2, <2>1
  <2>3. QED
    BY <1>1, <2>1, <2>2
<1>5. QED
  BY <1>2, <1>3, <1>4

\* In polite company, with no answer late, no byte sent over a present connection is
\* lost on its way to recv(): it is on the wire, in the list under its own socket, or
\* in the modem, and what is in the modem has been announced or asked for.
THEOREM RecvNothingLost == Spec => []NothingLost
<1>1. IInv => NothingLost
  <2> SUFFICES ASSUME Types, Order, Turn, NEW i \in Ids
               PROVE  /\ state[i] # "none" =>
                           \A p \in got[i] .. read[i] - 1 :
                             Has(data, i, p) \/ OnWire(wire \o lines, i, p) \/ InQueue(i, p)
                      /\ Waiting(i) => Announced(i)
    BY DEF IInv, NothingLost
  <2>1. got[i] \in Nat /\ read[i] \in Nat /\ sent[i] \in Nat
    BY OrderTypes, BoundAssumption DEF Types, ModemTypes
  <2>2. ASSUME NEW m \in 1 .. Len(Due)
        PROVE  \E k \in 1 .. Len(wire \o lines) : (wire \o lines)[k] = Due[m]
    BY Turned
  <2>3. CASE Even(i) \/ state[i] = "none"
    BY <2>1, <2>3 DEF Even, Waiting, Stock
  <2>4. CASE Served(i)
    <3>1. state[i] # "none" /\ got[i] < sent[i]
      BY <2>4 DEF Served
    <3>2. PICK b \in Sized : b = Batch(i)
      BY <3>1, BatchType
    <3>3. \A p \in got[i] .. read[i] - 1 : Has(b, i, p)
      <4>1. b.id = i /\ b.conn = conn[i] /\ b.first = got[i] /\ b.len = read[i] - got[i]
        BY <3>1, <3>2, BatchType
      <4>2. b # << >>
        <5>1. b = [id |-> b.id, conn |-> b.conn, first |-> b.first, len |-> b.len]
          BY DEF Sized, AllBytes
        <5>2. "id" \in DOMAIN b
          BY <5>1
        <5>3. DOMAIN << >> = {}
          OBVIOUS
        <5>4. QED
          BY <5>2, <5>3
      <4>3. QED
        BY <2>1, <4>1, <4>2 DEF Has
    <3>4. CASE Told(i)
      <4>1. \A p \in got[i] .. read[i] - 1 : FALSE
        BY <2>1, <3>4 DEF Told
      <4>2. Announced(i)
        <5>1. PICK s \in Seq(SizedLines) : Due = Append(s, Ind(i, TRUE))
          BY <3>4 DEF Told
        <5>2. PICK l \in SizedLines : l = Ind(i, TRUE)
          BY LineTypes
        <5>3. Len(s) + 1 \in 1 .. Len(Append(s, l)) /\ Append(s, l)[Len(s) + 1] = l
          BY AppendIs
        <5>4. PICK m \in 1 .. Len(Due) : Due[m] = Ind(i, TRUE)
          BY <5>1, <5>2, <5>3
        <5>5. QED
          BY <2>2, <5>4 DEF Announced
      <4>3. QED
        BY <4>1, <4>2
    <3>5. CASE Asked(i)
      <4>1. \A p \in got[i] .. read[i] - 1 : FALSE
        BY <2>1, <3>5 DEF Asked
      <4>2. 1 \in 1 .. Len(cmds) /\ cmds[1] = i
        BY <3>5 DEF Asked
      <4>3. QED
        BY <4>1, <4>2 DEF Announced
    <3>6. CASE Answered(i)
      <4>1. ~Waiting(i)
        BY <2>1, <3>6 DEF Answered, Waiting, Stock
      <4>2. CASE pc = "data" /\ Due = <<Data(b), OK>>
        <5>1. PICK m \in 1 .. Len(Due) : Due[m] = Data(b)
          <6>1. 1 \in 1 .. Len(Due) /\ Due[1] = Data(b)
            BY <4>2
          <6>2. QED
            BY <6>1
        <5>2. PICK k \in 1 .. Len(wire \o lines) : (wire \o lines)[k] = Data(b)
          BY <2>2, <5>1
        <5>3. Data(b).kind = "SOCKREAD" /\ Data(b).bytes = b
          BY DEF Data
        <5>4. \A p \in got[i] .. read[i] - 1 : OnWire(wire \o lines, i, p)
          BY <3>3, <5>2, <5>3 DEF OnWire
        <5>5. QED
          BY <4>1, <5>4
      <4>3. CASE data = b
        BY <3>3, <4>1, <4>3
      <4>4. QED
        BY <3>2, <3>6, <4>2, <4>3 DEF Answered
    <3>7. CASE Stored(i)
      <4>1. ~Waiting(i)
        BY <2>1, <3>7 DEF Stored, Waiting, Stock
      <4>2. queue = <<[to |-> i, bytes |-> b]>>
        BY <3>2, <3>7 DEF Stored
      <4>3. 1 \in 1 .. Len(queue) /\ queue[1].to = i /\ queue[1].bytes = b
        BY <4>2
      <4>4. \A p \in got[i] .. read[i] - 1 : InQueue(i, p)
        BY <3>3, <4>3 DEF InQueue
      <4>5. QED
        BY <4>1, <4>4
    <3>8. QED
      BY <2>4, <3>4, <3>5, <3>6, <3>7 DEF Served
  <2>5. Even(i) \/ Served(i)
    BY DEF Turn, AllEven, Served
  <2>6. QED
    BY <2>3, <2>4, <2>5
<1>2. QED
  BY Invariance, <1>1, PTL

-----------------------------------------------------------------------------
(* How long recv() can last. *)

\* What is left of a turn of its loop, if the line read for data is paid for by "ok".
Stage ==
  IF pc \in {"start", "check"} THEN 3 ELSE IF pc = "ind" THEN 2 ELSE IF pc = "data" THEN 1 ELSE 4

\* A turn takes four steps at most, and uses up a line or a part of the time.
Effort ==
  IF pc = "idle" THEN 0 ELSE 4 * (MaxWaits + 1 - waits) + 4 * Len(lines) + Stage

\* Each step of recv() brings it nearer to its end; each line that arrives lets it go on
\* for four steps more, and nothing else does.
EffortFalls ==
  /\ Loop => Effort' < Effort
  /\ Effort' > Effort => pc = "idle" \/ (Deliver /\ Effort' = Effort + 4)

LEMMA EffortType == ASSUME Types PROVE Effort \in Nat /\ (pc # "idle" => Effort > 0)
<1>1. waits \in 0 .. MaxWaits + 1 /\ Len(lines) \in Nat /\ MaxWaits \in Nat
  BY BoundAssumption DEF Types, Times, LinkTypes
<1>2. Stage \in 1 .. 4
  BY DEF Stage
<1>3. QED
  BY <1>1, <1>2 DEF Effort

\* What a read does to the lines that have been received.
LEMMA Shorter ==
  ASSUME Types
  PROVE  /\ Len(lines) \in Nat
         /\ ReadLine => Len(lines') = Len(lines) - 1
         /\ Timeout => Len(lines') \in Nat /\ Len(lines') <= Len(lines)
<1>1. lines \in Seq(SizedLines) /\ Len(lines) \in Nat
  BY DEF Types, LinkTypes
<1>2. lines # << >> => Len(Tail(lines)) = Len(lines) - 1 /\ Len(Tail(lines)) \in Nat
  BY <1>1
<1>3. QED
  BY <1>1, <1>2 DEF ReadLine, Timeout

LEMMA LoopEffort == ASSUME Types, Types', Loop PROVE Effort' < Effort
<1>1. /\ MaxWaits \in Nat /\ waits \in 0 .. MaxWaits + 1 /\ waits' \in 0 .. MaxWaits + 1
      /\ Len(lines) \in Nat /\ Len(lines') \in Nat
  BY BoundAssumption DEF Types, Times, LinkTypes
<1>2. pc \in {"start", "check", "ind", "data", "ok"}
  BY DEF Loop, CheckWhole, CheckPart, CheckNone, TimeUp, InTime, IndMore, IndEnd, IndOther,
         IndTimeout, DataRead, DataOther, DataTimeout, Enqueue, EnqueueFails
<1>3. ASSUME pc' = "idle" PROVE Effort' < Effort
  BY <1>2, <1>3, EffortType DEF Effort
<1>4. ASSUME pc' # "idle",
             4 * (MaxWaits + 1 - waits') + 4 * Len(lines') + Stage'
               < 4 * (MaxWaits + 1 - waits) + 4 * Len(lines) + Stage
      PROVE  Effort' < Effort
  BY <1>2, <1>4 DEF Effort
<1>5. CASE CheckWhole \/ CheckPart \/ CheckNone \/ TimeUp
  <2>1. pc \in {"start", "check"} /\ lines' = lines
    BY <1>5 DEF CheckWhole, CheckPart, CheckNone, TimeUp, InTime, Look
  <2>2. pc' = "idle" \/ (pc' = "ind" /\ waits' = waits)
    BY <1>5 DEF CheckWhole, CheckPart, CheckNone, TimeUp, Give, Return
  <2>3. CASE pc' = "ind" /\ waits' = waits
    <3>1. Stage = 3 /\ Stage' = 2
      BY <2>1, <2>3 DEF Stage
    <3>2. QED
      BY <1>1, <1>4, <2>1, <2>3, <3>1
  <2>4. QED
    BY <1>3, <2>2, <2>3
<1>6. CASE IndEnd
  BY <1>3, <1>6 DEF IndEnd, Return
<1>7. CASE IndMore \/ IndOther \/ IndTimeout
  <2>1. pc = "ind" /\ pc' = "data" /\ waits' \in {waits, waits + 1}
    BY <1>7 DEF IndMore, IndOther, IndTimeout, Goto, Tick
  <2>2. Len(lines') <= Len(lines)
    <3>1. IndMore => Len(lines') = 0
      BY DEF IndMore
    <3>2. QED
      BY <1>1, <1>7, <3>1, Shorter DEF IndOther, IndTimeout
  <2>3. Stage = 2 /\ Stage' = 1
    BY <2>1 DEF Stage
  <2>4. QED
    BY <1>1, <1>4, <2>1, <2>2, <2>3
<1>8. CASE DataRead
  <2>1. pc = "data" /\ pc' = "ok" /\ waits' = waits /\ Len(lines') = Len(lines) - 1
    BY <1>8, Shorter DEF DataRead, Goto
  <2>2. Stage = 1 /\ Stage' = 4
    BY <2>1 DEF Stage
  <2>3. QED
    BY <1>1, <1>4, <2>1, <2>2
<1>9. CASE DataOther \/ DataTimeout
  <2>1. pc = "data" /\ pc' = "check"
    BY <1>9 DEF DataOther, DataTimeout, NextTurn, Goto
  <2>2. \/ waits' = waits /\ Len(lines') = Len(lines) - 1
        \/ waits' = waits + 1 /\ Len(lines') <= Len(lines)
    <3>1. DataOther => waits' = waits /\ Len(lines') = Len(lines) - 1
      BY Shorter DEF DataOther
    <3>2. DataTimeout => waits' = waits + 1 /\ Len(lines') <= Len(lines)
      BY Shorter DEF DataTimeout, Tick
    <3>3. QED
      BY <1>9, <3>1, <3>2
  <2>3. Stage = 1 /\ Stage' = 3
    BY <2>1 DEF Stage
  <2>4. 4 * (MaxWaits + 1 - waits') + 4 * Len(lines') + Stage'
          < 4 * (MaxWaits + 1 - waits) + 4 * Len(lines) + Stage
    <3>1. CASE waits' = waits /\ Len(lines') = Len(lines) - 1
      BY <1>1, <2>3, <3>1
    <3>2. CASE waits' = waits + 1 /\ Len(lines') <= Len(lines)
      BY <1>1, <2>3, <3>2
    <3>3. QED
      BY <2>2, <3>1, <3>2
  <2>5. QED
    BY <1>4, <2>1, <2>4
<1>10. CASE Enqueue \/ EnqueueFails
  <2>1. pc = "ok" /\ pc' = "check" /\ waits' = waits
    BY <1>10 DEF Enqueue, EnqueueFails, NextTurn, Goto
  <2>2. Len(lines') <= Len(lines)
    <3>1. EnqueueFails => Len(lines') = Len(lines) - 1
      <4>1. lines \in Seq(SizedLines)
        BY DEF Types, LinkTypes
      <4>2. QED
        BY <4>1 DEF EnqueueFails
    <3>2. QED
      BY <1>1, <1>10, <3>1, Shorter DEF Enqueue
  <2>3. Stage = 4 /\ Stage' = 3
    BY <2>1 DEF Stage
  <2>4. QED
    BY <1>1, <1>4, <2>1, <2>2, <2>3
<1>11. QED
  BY <1>5, <1>6, <1>7, <1>8, <1>9, <1>10 DEF Loop

\* Whatever comes, is late or fails, recv() never turns without using up a line or a part
\* of its time: it ends after 4 * (MaxWaits + 1) + 3 steps and four for each line that it
\* finds or that arrives.  RecvReturns follows if the steps are taken and the lines end.
THEOREM RecvEffort == Spec => [](Effort \in Nat) /\ [][EffortFalls]_vars
<1>1. IInv => Effort \in Nat
  BY EffortType DEF IInv
<1>2. IInv' => (Effort \in Nat)'
  BY <1>1, PTL
<1>3. IInv /\ IInv' /\ [Next]_vars => [EffortFalls]_vars
  <2> SUFFICES ASSUME Types, Types', Effort \in Nat, Effort' \in Nat, Next PROVE EffortFalls
    BY <1>1, <1>2 DEF IInv
  <2>1. Loop => Effort' < Effort
    BY LoopEffort
  <2>2. ASSUME Effort' > Effort PROVE pc = "idle" \/ (Deliver /\ Effort' = Effort + 4)
    <3>1. ~Loop
      BY <2>1, <2>2
    <3>2. CASE \E i \in Ids : \/ Connect(i) \/ Close(i) \/ Send(i)
                             \/ \E n \in Amounts : Recv(i, n)
      BY <3>2 DEF Connect, Close, Send, Recv
    <3>3. CASE \/ \E i \in Ids : PeerClose(i) \/ \E n \in 1 .. MaxBytes : Arrive(i, n)
               \/ Exec
      <4>1. UNCHANGED <<pc, waits, lines>>
        BY <3>3 DEF PeerClose, Arrive, Exec, driver
      <4>2. Effort' = Effort
        BY <4>1 DEF Effort, Stage
      <4>3. QED
        BY <2>2, <4>2
    <3>4. CASE Deliver
      <4>1. UNCHANGED <<pc, waits>>
        BY <3>4 DEF Deliver, driver
      <4>2. Len(lines) \in Nat /\ Len(lines') = Len(lines) + 1
        <5>1. lines \in Seq(SizedLines) /\ lines' = Append(lines, Head(wire))
          BY <3>4 DEF Deliver, Types, LinkTypes
        <5>2. QED
          BY <5>1
      <4>3. Stage' = Stage
        BY <4>1 DEF Stage
      <4>4. CASE pc # "idle"
        <5>1. /\ Effort = 4 * (MaxWaits + 1 - waits) + 4 * Len(lines) + Stage
              /\ Effort' = 4 * (MaxWaits + 1 - waits) + 4 * Len(lines') + Stage
          BY <4>1, <4>3, <4>4 DEF Effort
        <5>2. waits \in Int /\ MaxWaits \in Int /\ Stage \in Int
          BY BoundAssumption DEF Types, Times, Stage
        <5>3. QED
          BY <3>4, <4>2, <5>1, <5>2
      <4>5. QED
        BY <4>4
    <3>5. QED
      BY <3>1, <3>2, <3>3, <3>4 DEF Next
  <2>3. QED
    BY <2>1, <2>2 DEF EffortFalls
<1>4. QED
  BY <1>1, <1>3, Invariance, PTL DEF Spec
=============================================================================
