-------------------------------- MODULE Recv --------------------------------
(***************************************************************************)
(* WNCATParser::recv(): data waits in the modem until the driver asks for  *)
(* it.  The modem announces it with @SOCKDATAIND; recv() answers each      *)
(* announcement that it reads with AT@SOCKREAD, puts the @SOCKREAD line    *)
(* into the packet list, and gives its caller what the list holds for its  *)
(* socket.  One wire serves all sockets, so recv() for one socket meets    *)
(* the announcements and the data of the others.                           *)
(*                                                                         *)
(* One thread calls.  Each turn of the loop of recv() is a check of the    *)
(* list, a scan() for an announcement, a scan() for data and, after data,  *)
(* an rx("OK"); every line or timeout that these act upon is a step.  The  *)
(* packet list is a sequence here: PacketList shows that it works as one.  *)
(* Lines are as in Sockets, where notifications and torn lines are.        *)
(*                                                                         *)
(* A byte is the connection it belongs to and its position in its stream.  *)
(***************************************************************************)
EXTENDS Integers, SequencesExt

CONSTANTS
  Ids,        \* the sockets
  NoId,       \* a number that is no socket's
  Amounts,    \* sizes of the callers' buffers
  Polite,     \* TRUE: peers and application take turns (see MaySpeak)
  MaxConns,   \* bound: connections of each socket
  MaxBytes,   \* bound: bytes a peer sends over one connection
  MaxWaits,   \* scan() timeouts after which _timeout has passed
  MaxFaults   \* bound: late answers and failures of malloc()

ASSUME IdAssumption == NoId \notin Ids
ASSUME BoundAssumption ==
  /\ Amounts \subseteq Nat \ {0} /\ Polite \in BOOLEAN
  /\ MaxConns \in Nat /\ MaxBytes \in Nat /\ MaxWaits \in Nat \ {0} /\ MaxFaults \in Nat

VARIABLES
  pc,      \* what the thread does: nothing, or a part of a turn of recv()
  want,    \* id and amount of recv()
  ind,     \* the inner `id` of the turn; NoId while it is not initialised
  waits,   \* the scans of this recv() that have timed out
  data,    \* the data of the @SOCKREAD line just read
  queue,   \* _packets
  out,     \* what the last recv() returned: bytes, or nothing (-1); nothing
           \* when there has been none since the last call that connected
  cmds,    \* AT@SOCKREAD commands on their way to the modem
  wire,    \* lines on their way from the modem
  lines,   \* lines received and not yet read
  state,   \* the connection of each socket: none, open, or ended by the peer
  conn,    \* how many connections each socket has had
  sent,    \* bytes the peer has sent over the present connection
  read,    \* how many of them the modem has given to the driver
  got,     \* ghost: how far into the present stream recv() has returned it
  faults   \* the number of faults so far

driver == <<pc, want, ind, waits, data, queue, out>>
modem == <<state, conn, sent, read>>
vars == <<driver, cmds, wire, lines, modem, got, faults>>

Bytes(i, c, first, len) == [id |-> i, conn |-> c, first |-> first, len |-> len]
AllBytes == [id : Ids, conn : 1 .. MaxConns, first : 0 .. MaxBytes, len : 0 .. MaxBytes]

\* The lines of the modem.  An announcement of no bytes is the end of the data.
Ind(i, more) == [kind |-> "DATAIND", id |-> i, more |-> more]
Data(b) == [kind |-> "SOCKREAD", bytes |-> b]
OK == [kind |-> "OK"]
ERROR == [kind |-> "ERROR"]
Lines ==
  [kind : {"DATAIND"}, id : Ids, more : BOOLEAN]
  \cup [kind : {"SOCKREAD"}, bytes : AllBytes] \cup {OK, ERROR}

TypeOK ==
  /\ pc \in {"idle", "start", "check", "ind", "data", "ok"}
  /\ want \in [id : Ids, amount : Amounts]
  /\ ind \in Ids \cup {NoId}
  /\ waits \in 0 .. MaxWaits + 1
  /\ data \in AllBytes \cup {<< >>}
  /\ queue \in Seq([to : Ids \cup {NoId}, bytes : AllBytes])
  /\ out \in AllBytes \cup {<< >>}
  /\ cmds \in Seq(Ids)
  /\ wire \in Seq(Lines) /\ lines \in Seq(Lines)
  /\ state \in [Ids -> {"none", "open", "ended"}]
  /\ conn \in [Ids -> 0 .. MaxConns]
  /\ sent \in [Ids -> 0 .. MaxBytes]
  /\ read \in [Ids -> 0 .. MaxBytes] /\ \A i \in Ids : read[i] <= sent[i]
  /\ got \in [Ids -> 0 .. MaxBytes]
  /\ faults \in 0 .. MaxFaults

Init ==
  /\ pc = "idle" /\ ind = NoId /\ waits = 0 /\ data = << >>
  /\ want \in [id : Ids, amount : Amounts]
  /\ queue = << >> /\ out = << >>
  /\ cmds = << >> /\ wire = << >> /\ lines = << >>
  /\ state = [i \in Ids |-> "none"]
  /\ conn = [i \in Ids |-> 0]
  /\ sent = [i \in Ids |-> 0] /\ read = sent /\ got = sent
  /\ faults = 0

Trouble == faults < MaxFaults /\ faults' = faults + 1

\* The polite say nothing, and do nothing but receive, until everything that was
\* sent has been received and nothing is under way; nor do they speak while the
\* driver is waiting for the data of an announcement, be there one or not.
AllReceived == \A i \in Ids : state[i] # "none" => got[i] = sent[i]
MaySpeak == Polite => AllReceived /\ cmds = << >> /\ wire = << >> /\ pc \notin {"data", "ok"}
Quiet == cmds = << >> /\ wire = << >> /\ lines = << >>

-----------------------------------------------------------------------------
(* recv(). *)

Recv(i, n) ==
  /\ pc = "idle" /\ state[i] # "none"
  /\ pc' = "start"
  /\ want' = [id |-> i, amount |-> n]
  /\ waits' = 0 /\ out' = << >>
  /\ UNCHANGED <<ind, data, queue, cmds, wire, lines, modem, got, faults>>

\* The locals are gone.
Return(bytes) ==
  /\ pc' = "idle" /\ out' = bytes
  /\ ind' = NoId /\ data' = << >> /\ waits' = 0
  /\ UNCHANGED want

\* The first packet for the caller.
Mine(k) == queue[k].to = want.id /\ \A j \in 1 .. k - 1 : queue[j].to # want.id

\* The ghost follows what the caller gets of its own connection.
Give(b, n) ==
  /\ Return([b EXCEPT !.len = n])
  /\ got' = IF b.id = want.id /\ b.conn = conn[b.id]
            THEN [got EXCEPT ![b.id] = b.first + n] ELSE got

\* Mutant of InTime: the time is not looked at.
InTimeAlways == pc \in {"start", "check"}

\* `timer.read_ms() < _timeout`, true in the first turn.
InTime == pc = "start" \/ (pc = "check" /\ waits < MaxWaits)

Look == UNCHANGED <<cmds, wire, lines, modem, faults>>

\* _check_queue() has a packet that fits.  One without bytes is removed, but
\* looks to recv() like none.
CheckWhole ==
  /\ InTime /\ Look
  /\ \E k \in 1 .. Len(queue) :
       LET b == queue[k].bytes
       IN /\ Mine(k) /\ b.len <= want.amount
          /\ queue' = RemoveAt(queue, k)
          /\ IF b.len = 0
             THEN pc' = "ind" /\ UNCHANGED <<want, ind, waits, data, out, got>>
             ELSE Give(b, b.len)

\* Mutant of CheckPart: the rest is not moved to the front of the packet.
CheckPartUnmoved ==
  /\ InTime /\ Look
  /\ \E k \in 1 .. Len(queue) :
       LET b == queue[k].bytes
           n == want.amount
       IN /\ Mine(k) /\ b.len > n
          /\ queue' = [queue EXCEPT ![k].bytes.len = @ - n]
          /\ Give(b, n)

\* The packet is larger than the buffer.
CheckPart ==
  /\ InTime /\ Look
  /\ \E k \in 1 .. Len(queue) :
       LET b == queue[k].bytes
           n == want.amount
       IN /\ Mine(k) /\ b.len > n
          /\ queue' = [queue EXCEPT ![k].bytes = Bytes(b.id, b.conn, b.first + n, b.len - n)]
          /\ Give(b, n)

CheckNone ==
  /\ InTime /\ Look
  /\ ~ \E k \in 1 .. Len(queue) : Mine(k)
  /\ pc' = "ind"
  /\ UNCHANGED <<want, ind, waits, data, queue, out, got>>

\* Lines that come slowly may use up the time as well as timeouts do.
TimeUp ==
  /\ pc = "check" /\ Look
  /\ Return(<< >>)
  /\ UNCHANGED <<queue, got>>

\* The next line, for scan() or rx() to judge.
Judged == Head(lines)
ReadLine ==
  /\ lines # << >>
  /\ lines' = Tail(lines)
  /\ UNCHANGED <<cmds, wire, faults>>

\* No line has come in time, or one read at the deadline is dropped: a fault,
\* unless there is nothing that could come.
Timeout ==
  /\ \/ Quiet /\ UNCHANGED <<lines, faults>>
     \/ ~Quiet /\ lines = << >> /\ UNCHANGED lines /\ Trouble
     \/ lines # << >> /\ lines' = Tail(lines) /\ Trouble
  /\ UNCHANGED <<cmds, wire>>

\* Mutant of Tick: the timer is started again in every turn.
TickNever == UNCHANGED waits

\* A scan() has taken its time.
Tick == waits' = waits + 1

Goto(next) == pc' = next /\ UNCHANGED <<want, out, queue, got, modem>>

IsInd(more) == lines # << >> /\ Judged.kind = "DATAIND" /\ Judged.more = more

\* Mutant of IndMore: recv() asks for the data of its own socket only.
IndMoreOwn ==
  /\ pc = "ind" /\ IsInd(TRUE)
  /\ ind' = Judged.id
  /\ IF Judged.id = want.id THEN cmds' = Append(cmds, Judged.id) /\ lines' = << >>
     ELSE lines' = Tail(lines) /\ UNCHANGED cmds
  /\ Goto("data")
  /\ UNCHANGED <<waits, data, wire, faults>>

\* scan() finds an announcement: tx() throws away what has been received, and
\* asks for the data of the socket announced, be it the caller's or not.
IndMore ==
  /\ pc = "ind" /\ IsInd(TRUE)
  /\ ind' = Judged.id
  /\ cmds' = Append(cmds, Judged.id)
  /\ lines' = << >>
  /\ Goto("data")
  /\ UNCHANGED <<waits, data, wire, faults>>

\* The end of the data, of whatever socket, ends recv().
IndEnd ==
  /\ pc = "ind" /\ IsInd(FALSE) /\ ReadLine
  /\ Return(<< >>)
  /\ UNCHANGED <<queue, got, modem>>

\* Any other line is dropped, and the next scan() begins.
IndOther ==
  /\ pc = "ind" /\ ReadLine /\ Judged.kind # "DATAIND"
  /\ Goto("data")
  /\ UNCHANGED <<ind, waits, data>>

IndTimeout ==
  /\ pc = "ind" /\ Timeout
  /\ Tick
  /\ Goto("data")
  /\ UNCHANGED <<ind, data>>

\* The turn ends; `id` is a local of the turn.
NextTurn == Goto("check") /\ ind' = NoId /\ data' = << >>

DataRead ==
  /\ pc = "data" /\ ReadLine /\ Judged.kind = "SOCKREAD"
  /\ data' = Judged.bytes
  /\ Goto("ok")
  /\ UNCHANGED <<ind, waits>>

DataOther ==
  /\ pc = "data" /\ ReadLine /\ Judged.kind # "SOCKREAD"
  /\ NextTurn
  /\ UNCHANGED waits

DataTimeout ==
  /\ pc = "data" /\ Timeout
  /\ Tick
  /\ NextTurn

\* Mutant of Owners: the data goes to the caller's socket.
OwnersCaller == {want.id}

\* For whom the data is enqueued; whatever the stack holds, if the turn has
\* read no announcement.
Owners == IF ind = NoId THEN Ids \cup {NoId} ELSE {ind}

\* rx("OK"), whose result is not looked at, and _enqueue().
Enqueue ==
  /\ pc = "ok" /\ (ReadLine \/ Timeout)
  /\ \E i \in Owners : queue' = Append(queue, [to |-> i, bytes |-> data])
  /\ pc' = "check" /\ ind' = NoId /\ data' = << >>
  /\ UNCHANGED <<want, waits, out, got, modem>>

\* malloc() fails, which recv() does not notice.
EnqueueFails ==
  /\ pc = "ok" /\ Trouble
  /\ lines # << >> /\ lines' = Tail(lines)
  /\ NextTurn
  /\ UNCHANGED <<waits, cmds, wire>>

-----------------------------------------------------------------------------
(* The other calls, which Sockets models in full.  Here they succeed. *)

\* socket_open() and socket_connect(), when nothing else is under way.  Each
\* tx() throws away what has been received.
Connect(i) ==
  /\ pc = "idle" /\ state[i] = "none" /\ conn[i] < MaxConns
  /\ MaySpeak
  /\ cmds = << >> /\ wire = << >> /\ lines' = << >>
  /\ state' = [state EXCEPT ![i] = "open"]
  /\ conn' = [conn EXCEPT ![i] = @ + 1]
  /\ sent' = [sent EXCEPT ![i] = 0]
  /\ read' = [read EXCEPT ![i] = 0]
  /\ got' = [got EXCEPT ![i] = 0]
  /\ out' = << >>
  /\ UNCHANGED <<pc, want, ind, waits, data, queue, cmds, wire, faults>>

\* socket_close(): rx("OK") reads the first line that comes after tx() has
\* thrown away what was there, and if that is not the "OK", the "OK" stays.
\* The packets of the socket stay in the list.
Close(i) ==
  /\ pc = "idle" /\ state[i] # "none"
  /\ MaySpeak /\ cmds = << >>
  /\ lines' = << >> /\ wire' = Tail(Append(wire, OK))
  /\ state' = [state EXCEPT ![i] = "none"]
  /\ UNCHANGED <<driver, cmds, conn, sent, read, got, faults>>

\* socket_send(), when nothing else is under way.
Send(i) ==
  /\ pc = "idle" /\ state[i] = "open"
  /\ MaySpeak
  /\ cmds = << >> /\ wire = << >> /\ lines' = << >>
  /\ UNCHANGED <<driver, cmds, wire, modem, got, faults>>

-----------------------------------------------------------------------------
(* The modem and the peers. *)

Stock(i) == sent[i] - read[i]

Arrive(i, n) ==
  /\ state[i] = "open" /\ MaySpeak
  /\ sent[i] + n <= MaxBytes
  /\ sent' = [sent EXCEPT ![i] = @ + n]
  /\ wire' = Append(wire, Ind(i, TRUE))
  /\ UNCHANGED <<driver, cmds, lines, state, conn, read, got, faults>>

PeerClose(i) ==
  /\ state[i] = "open" /\ MaySpeak
  /\ state' = [state EXCEPT ![i] = "ended"]
  /\ wire' = Append(wire, Ind(i, FALSE))
  /\ UNCHANGED <<driver, cmds, lines, conn, sent, read, got, faults>>

\* AT@SOCKREAD: the modem gives what it has, be it nothing.
Exec ==
  /\ cmds # << >>
  /\ cmds' = Tail(cmds)
  /\ LET i == Head(cmds)
     IN IF state[i] = "none"
        THEN wire' = Append(wire, ERROR) /\ UNCHANGED read
        ELSE /\ wire' = wire \o <<Data(Bytes(i, conn[i], read[i], Stock(i))), OK>>
             /\ read' = [read EXCEPT ![i] = sent[i]]
  /\ UNCHANGED <<driver, lines, state, conn, sent, got, faults>>

Deliver ==
  /\ wire # << >>
  /\ lines' = Append(lines, Head(wire))
  /\ wire' = Tail(wire)
  /\ UNCHANGED <<driver, cmds, modem, got, faults>>

Loop ==
  \/ CheckWhole \/ CheckPart \/ CheckNone \/ TimeUp
  \/ IndMore \/ IndEnd \/ IndOther \/ IndTimeout
  \/ DataRead \/ DataOther \/ DataTimeout \/ Enqueue \/ EnqueueFails

Next ==
  \/ \E i \in Ids :
       \/ Connect(i) \/ Close(i) \/ Send(i) \/ PeerClose(i)
       \/ \E n \in Amounts : Recv(i, n)
       \/ \E n \in 1 .. MaxBytes : Arrive(i, n)
  \/ Loop \/ Exec \/ Deliver

Spec == Init /\ [][Next]_vars

\* recv() goes on, the modem executes commands and its lines arrive.
FairSpec == Spec /\ WF_vars(Loop) /\ WF_vars(Exec) /\ WF_vars(Deliver)

-----------------------------------------------------------------------------
(* Properties. *)

\* Byte p of the present stream of socket i is among these bytes.
Has(b, i, p) ==
  b # << >> /\ b.id = i /\ b.conn = conn[i] /\ b.first <= p /\ p < b.first + b.len
OnWire(s, i, p) == \E k \in 1 .. Len(s) : s[k].kind = "SOCKREAD" /\ Has(s[k].bytes, i, p)
InQueue(i, p) == \E k \in 1 .. Len(queue) : queue[k].to = i /\ Has(queue[k].bytes, i, p)

\* The driver will learn of the data of socket i that waits in the modem.
Announced(i) ==
  \/ \E k \in 1 .. Len(wire \o lines) : (wire \o lines)[k] = Ind(i, TRUE)
  \/ \E k \in 1 .. Len(cmds) : cmds[k] = i
Waiting(i) == state[i] # "none" /\ Stock(i) > 0

\* When nobody speaks out of turn and no answer is late, every byte sent over a
\* present connection and not yet returned is still to be had: on the wire, in the
\* list under its own socket, or in the modem; and what is in the modem has been
\* announced, or is being asked for: no announcement is thrown away, or taken for
\* something else.
NothingLost ==
  Polite /\ faults = 0 =>
    \A i \in Ids :
      /\ state[i] # "none" =>
           \A p \in got[i] .. read[i] - 1 :
             Has(data, i, p) \/ OnWire(wire \o lines, i, p) \/ InQueue(i, p)
      /\ Waiting(i) => Announced(i)

\* recv() returns the bytes of a connection in the order in which they were
\* sent, and none twice, whatever else is on the wire or late.
Ordered ==
  [][out' # << >> /\ pc' = "idle" /\ pc # "idle" /\ out'.id = want.id /\ out'.conn = conn[want.id]
       => out'.first >= got[want.id]]_vars

\* recv() returns, though it looks at the time only between its scans.  The run checks
\* this in polite company, with a late answer or a failing malloc(); RecvEffort, in
\* RecvProofs, bounds the turns of recv() in any company.
RecvReturns == pc # "idle" ~> pc = "idle"

\* If the application keeps calling recv() for a socket and everybody is polite,
\* what has been sent is received.
Delivered ==
  \A i \in Ids :
    []<>(pc # "idle" /\ want.id = i)
      => (Polite /\ faults = 0 /\ sent[i] > got[i]) ~> (faults > 0 \/ sent[i] = got[i] \/ state[i] = "none")

\* recv() "receives data from an open socket", the one it was called for.
OwnSocket == out # << >> => out.id = want.id
=============================================================================
