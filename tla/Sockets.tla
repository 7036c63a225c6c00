------------------------------ MODULE Sockets ------------------------------
(***************************************************************************)
(* The sockets of WNC14A2AInterface, and the AT commands with which        *)
(* WNCATParser opens, connects, writes to and closes them on the modem.    *)
(*                                                                         *)
(* One thread calls.  A call is a series of exchanges; an exchange is one  *)
(* tx() of a command, for some commands a scan() of the reply, and an      *)
(* rx() of "OK".  tx(), and every line or timeout that scan() or rx() acts *)
(* upon, is a step: between two of them the modem works and lines arrive.  *)
(*                                                                         *)
(* The modem is external.  It executes the commands in order and numbers   *)
(* its sockets from the lowest free id, as open() expects.  It may refuse  *)
(* a command, lose it, answer late, or say something nobody asked for:     *)
(* each such event counts against MaxFaults.                               *)
(***************************************************************************)
EXTENDS Integers, Sequences

CONSTANTS
  Handles,      \* the sockets of the application
  Addrs,        \* remote addresses
  NoAddr,       \* the default SocketAddress
  SocketCount,  \* WNC_SOCKET_COUNT
  ModemCount,   \* sockets the modem has
  MaxChunks,    \* bound: commands of MAX_SEND_BYTES or less per send()
  MaxFaults,    \* bound: faults of modem and line in one behaviour
  MaxCmds,      \* commands the modem can have waiting, one at least; more are lost
  MaxLines      \* bound: complete lines waiting in the receive buffer

Ids == 1 .. SocketCount - 1
ModemIds == 1 .. ModemCount

ASSUME HandleAssumption == "free" \notin Handles /\ "lost" \notin Handles
ASSUME AddrAssumption == NoAddr \notin Addrs
ASSUME CountAssumption ==
  /\ SocketCount \in Nat /\ ModemCount \in Nat
  /\ MaxChunks \in Nat /\ MaxFaults \in Nat
  /\ MaxCmds \in Nat \ {0} /\ MaxLines \in Nat

VARIABLES
  used,     \* _sockets
  sock,     \* the struct wnc_socket of each handle; id 0: not open
  call,     \* the running call of the interface, or the last one
  pc,       \* what the call does: nothing, or the tx, scan or rx of an exchange
  cmd,      \* the command of the exchange
  tries,    \* the commands sent for the exchange
  got,      \* id_resp of open(), or: does `wrote` equal the length sent? (1, 0)
  left,     \* chunks that send() has still to send
  ret,      \* did the last call succeed?
  cmds,     \* commands on their way to the modem
  wire,     \* lines on their way from the modem
  lines,    \* lines received and not yet read
  modem,    \* the modem's sockets
  faults,   \* the number of faults so far
  moved     \* ghost: has a sendto() closed a socket to connect it elsewhere?

driver == <<used, sock, call, pc, cmd, tries, got, left, ret, moved>>
link == <<cmds, wire, lines>>
vars == <<driver, link, modem, faults>>

Closed == [id |-> 0, connected |-> FALSE, addr |-> NoAddr]
Live(h) == sock[h].id # 0

Ops == {"none", "open", "close", "connect", "send", "sendto"}
Kinds == {"CREAT", "CONN", "WRITE", "CLOSE"}

\* A line of the modem.  n is the id of a CREAT reply; for a WRITE reply it is
\* 1 if all was written and 0 if not.  "URC" stands for the notifications that
\* checkURC() knows, "other" for every line that no exchange waits for: ERROR,
\* @SOCKDATAIND, or the rest of a line whose beginning has been thrown away.
Line(kind, n) == [kind |-> kind, n |-> n]
Other == Line("other", 0)
LineKinds == {"CREAT", "WRITE", "OK", "URC", "other"}

DriverTypeOK ==
  /\ used \in [Ids -> BOOLEAN]
  /\ sock \in [Handles -> [id : Ids \cup {0}, connected : BOOLEAN, addr : Addrs \cup {NoAddr}]]
  /\ call \in [op : Ops, h : Handles, id : Ids \cup {0}, addr : Addrs \cup {NoAddr}]
  /\ pc \in {"idle", "tx", "scan", "rx"}
  /\ cmd \in Kinds \cup {"none"}
  /\ tries \in 1 .. 3
  /\ got \in Nat
  /\ left \in 0 .. MaxChunks
  /\ ret \in BOOLEAN
  /\ moved \in BOOLEAN

LinkTypeOK ==
  /\ cmds \in Seq([kind : Kinds, id : Ids])
  /\ wire \in Seq([kind : LineKinds, n : Nat])
  /\ lines \in Seq([kind : LineKinds, n : Nat])
  /\ modem \in [ModemIds -> {"free", "created", "connected"}]
  /\ faults \in 0 .. MaxFaults

TypeOK == DriverTypeOK /\ LinkTypeOK

Init ==
  /\ used = [i \in Ids |-> FALSE]
  /\ sock = [h \in Handles |-> Closed]
  /\ call \in [op : {"none"}, h : Handles, id : {0}, addr : {NoAddr}]
  /\ pc = "idle" /\ cmd = "none" /\ tries = 1 /\ got = 0 /\ left = 0
  /\ ret = TRUE
  /\ cmds = << >> /\ wire = << >> /\ lines = << >>
  /\ modem = [i \in ModemIds |-> "free"]
  /\ faults = 0
  /\ moved = FALSE

-----------------------------------------------------------------------------
(* The calls.  Begin starts an exchange, Return ends the call.  id_resp is     *)
(* initialised to -1, which is no id of a socket: 0 here.                      *)

Begin(kind) == pc' = "tx" /\ cmd' = kind /\ tries' = 1 /\ got' = 0 /\ UNCHANGED ret

\* The locals of the call are gone.
Return(ok) == pc' = "idle" /\ ret' = ok /\ cmd' = "none" /\ tries' = 1 /\ got' = 0 /\ left' = 0

\* send() of the chunks, if there are any.
BeginSend(chunks) ==
  IF chunks = 0 THEN Return(TRUE) ELSE Begin("WRITE") /\ left' = chunks

Call(op, h, i, a) ==
  /\ pc = "idle"
  /\ call' = [op |-> op, h |-> h, id |-> i, addr |-> a]
  /\ UNCHANGED <<sock, link, modem, faults>>

\* Mutant of SocketOpen: any unused slot will do.
SocketOpenAny(h) ==
  /\ ~Live(h)
  /\ \E i \in Ids :
       /\ ~used[i]
       /\ Call("open", h, i, NoAddr)
       /\ used' = [used EXCEPT ![i] = TRUE]
  /\ Begin("CREAT")
  /\ UNCHANGED <<left, moved>>

SocketOpen(h) ==
  /\ ~Live(h)
  /\ \E i \in Ids :
       /\ ~used[i] /\ \A j \in 1 .. i - 1 : used[j]
       /\ Call("open", h, i, NoAddr)
       /\ used' = [used EXCEPT ![i] = TRUE]
  /\ Begin("CREAT")
  /\ UNCHANGED <<left, moved>>

\* NSAPI_ERROR_NO_SOCKET.
SocketOpenNoSlot(h) ==
  /\ ~Live(h)
  /\ \A i \in Ids : used[i]
  /\ Call("open", h, 0, NoAddr)
  /\ Return(FALSE)
  /\ UNCHANGED <<used, moved>>

SocketClose(h) ==
  /\ Live(h)
  /\ Call("close", h, sock[h].id, NoAddr)
  /\ Begin("CLOSE")
  /\ UNCHANGED <<used, left, moved>>

SocketConnect(h, a) ==
  /\ Live(h)
  /\ Call("connect", h, sock[h].id, a)
  /\ Begin("CONN")
  /\ UNCHANGED <<used, left, moved>>

SocketSend(h, chunks) ==
  /\ Live(h)
  /\ Call("send", h, sock[h].id, NoAddr)
  /\ BeginSend(chunks)
  /\ UNCHANGED <<used, moved>>

\* A socket connected to another address is closed first, and connected anew.
\* socket_connect() does not record the address, sendto() does.
SocketSendto(h, a, chunks) ==
  /\ Live(h)
  /\ Call("sendto", h, sock[h].id, a)
  /\ CASE ~sock[h].connected -> Begin("CONN") /\ left' = chunks
       [] sock[h].connected /\ sock[h].addr # a -> Begin("CLOSE") /\ left' = chunks
       [] sock[h].connected /\ sock[h].addr = a -> BeginSend(chunks)
  /\ UNCHANGED <<used, moved>>

-----------------------------------------------------------------------------
(* The end of an exchange, and what the call does next. *)

OpenDone(ok) ==
  /\ call.op = "open"
  /\ sock' = IF ok THEN [sock EXCEPT ![call.h] = [Closed EXCEPT !.id = call.id]] ELSE sock
  /\ Return(ok)
  /\ UNCHANGED <<used, moved>>

\* Mutant of CloseDone: a handle whose close fails is kept, its slot is not.
CloseDoneKeep(ok) ==
  /\ call.op = "close"
  /\ used' = [used EXCEPT ![call.id] = FALSE]
  /\ sock' = IF ok THEN [sock EXCEPT ![call.h] = Closed] ELSE sock
  /\ Return(ok)
  /\ UNCHANGED moved

\* The slot is freed and the struct deleted whatever the modem said.
CloseDone(ok) ==
  /\ call.op = "close"
  /\ used' = [used EXCEPT ![call.id] = FALSE]
  /\ sock' = [sock EXCEPT ![call.h] = Closed]
  /\ Return(ok)
  /\ UNCHANGED moved

ConnectDone(ok) ==
  /\ call.op = "connect"
  /\ sock' = IF ok THEN [sock EXCEPT ![call.h].connected = TRUE] ELSE sock
  /\ Return(ok)
  /\ UNCHANGED <<used, moved>>

\* send() returns true whether or not the modem took the chunk.
WriteDone ==
  /\ cmd = "WRITE"
  /\ BeginSend(left - 1)
  /\ UNCHANGED <<used, sock, moved>>

SendtoClosed(ok) ==
  /\ call.op = "sendto" /\ cmd = "CLOSE"
  /\ IF ok
     THEN /\ sock' = [sock EXCEPT ![call.h].connected = FALSE]
          /\ Begin("CONN") /\ UNCHANGED left
     ELSE Return(FALSE) /\ UNCHANGED sock
  /\ moved' = TRUE
  /\ UNCHANGED used

\* Mutant of SendtoConnected: it asks the modem without marking the socket.
SendtoConnectedUnmarked(ok) ==
  /\ call.op = "sendto" /\ cmd = "CONN"
  /\ IF ok
     THEN sock' = [sock EXCEPT ![call.h].addr = call.addr] /\ BeginSend(left)
     ELSE Return(FALSE) /\ UNCHANGED sock
  /\ UNCHANGED <<used, moved>>

SendtoConnected(ok) ==
  /\ call.op = "sendto" /\ cmd = "CONN"
  /\ IF ok
     THEN /\ sock' = [sock EXCEPT ![call.h].connected = TRUE, ![call.h].addr = call.addr]
          /\ BeginSend(left)
     ELSE Return(FALSE) /\ UNCHANGED sock
  /\ UNCHANGED <<used, moved>>

Done(ok) ==
  /\ \/ OpenDone(ok) \/ CloseDone(ok) \/ ConnectDone(ok)
     \/ WriteDone \/ SendtoClosed(ok) \/ SendtoConnected(ok)
  /\ UNCHANGED call

\* The loops of open(), socket_connect() and send(); close() has none.
Tries == [CREAT |-> 3, CONN |-> 3, WRITE |-> 2, CLOSE |-> 1]

\* Mutant of Fail: a failed exchange is tried again and again.
FailForever ==
  /\ pc' = "tx"
  /\ UNCHANGED <<used, sock, call, cmd, tries, got, left, ret, moved>>

Fail ==
  IF tries < Tries[cmd]
  THEN /\ pc' = "tx"
       /\ tries' = tries + 1
       /\ UNCHANGED <<used, sock, call, cmd, got, left, ret, moved>>
  ELSE Done(FALSE)

\* Mutant of Succeed: open() does not wait for the "OK" of the id it wants.
SucceedAnyId ==
  IF cmd = "WRITE" /\ got # 1 THEN Fail ELSE Done(TRUE)

\* The "OK" has come.  open() compares the ids, send() the lengths.
Succeed ==
  CASE cmd = "CREAT" -> Done(got = call.id)
    [] cmd = "WRITE" -> IF got = 1 THEN Done(TRUE) ELSE Fail
    [] OTHER -> Done(TRUE)

-----------------------------------------------------------------------------
(* tx(), scan() and rx(). *)

Trouble == faults < MaxFaults /\ faults' = faults + 1

\* A line of which the beginning has been thrown away.
Tear == wire # << >> /\ wire' = <<Other>> \o Tail(wire)

\* Mutant of Tx: what has been received is not thrown away.
TxKeeps ==
  /\ pc = "tx"
  /\ UNCHANGED <<lines, wire, faults>>
  /\ cmds' = IF Len(cmds) < MaxCmds THEN Append(cmds, [kind |-> cmd, id |-> call.id]) ELSE cmds
  /\ pc' = IF cmd \in {"CREAT", "WRITE"} THEN "scan" ELSE "rx"
  /\ UNCHANGED <<used, sock, call, cmd, tries, got, left, ret, moved, modem>>

\* tx() throws away what has been received, then writes the command.
Tx ==
  /\ pc = "tx"
  /\ lines' = << >>
  /\ \/ UNCHANGED <<wire, faults>>
     \/ Tear /\ Trouble
  /\ cmds' = IF Len(cmds) < MaxCmds THEN Append(cmds, [kind |-> cmd, id |-> call.id]) ELSE cmds
  /\ pc' = IF cmd \in {"CREAT", "WRITE"} THEN "scan" ELSE "rx"
  /\ UNCHANGED <<used, sock, call, cmd, tries, got, left, ret, moved, modem>>

\* The next line, if it is for scan() or rx() to judge.
Judged == Head(lines)
ReadLine ==
  /\ lines # << >>
  /\ Judged.kind # "URC"
  /\ lines' = Tail(lines)
  /\ UNCHANGED <<cmds, wire, modem, faults>>

\* checkURC() has consumed the line: read on.
SkipURC ==
  /\ pc \in {"scan", "rx"}
  /\ lines # << >> /\ Judged.kind = "URC"
  /\ lines' = Tail(lines)
  /\ UNCHANGED <<driver, cmds, wire, modem, faults>>

ScanMatch ==
  /\ pc = "scan" /\ ReadLine /\ Judged.kind = cmd
  /\ got' = Judged.n
  /\ pc' = "rx"
  /\ UNCHANGED <<used, sock, call, cmd, tries, left, ret, moved>>

ScanMismatch ==
  /\ pc = "scan" /\ ReadLine /\ Judged.kind # cmd
  /\ Fail

RxMatch == pc = "rx" /\ ReadLine /\ Judged.kind = "OK" /\ Succeed

RxMismatch == pc = "rx" /\ ReadLine /\ Judged.kind # "OK" /\ Fail

\* The time is up: no line, or half a line, or a line read at the deadline, has
\* come.  That is a fault unless there is nothing left that could come.
Quiet == cmds = << >> /\ wire = << >> /\ lines = << >>
Timeout ==
  /\ \/ Quiet /\ UNCHANGED <<wire, lines, faults>>
     \/ ~Quiet /\ lines = << >> /\ (UNCHANGED wire \/ Tear) /\ UNCHANGED lines /\ Trouble
     \/ lines # << >> /\ lines' = Tail(lines) /\ UNCHANGED wire /\ Trouble
  /\ UNCHANGED <<cmds, modem>>

\* scan() returns -1, which is true in the chain of && it stands in.  `wrote`
\* is then whatever the stack holds.
ScanTimeout ==
  /\ pc = "scan" /\ Timeout
  /\ pc' = "rx"
  /\ got' \in IF cmd = "WRITE" THEN {0, 1} ELSE {got}
  /\ UNCHANGED <<used, sock, call, cmd, tries, left, ret, moved>>

RxTimeout == pc = "rx" /\ Timeout /\ Fail

-----------------------------------------------------------------------------
(* The modem and the line. *)

LowestFree(i) == modem[i] = "free" /\ \A j \in 1 .. i - 1 : modem[j] # "free"

\* The state a socket must be in for a command to be obeyed.
Needed == [CONN |-> {"created"}, CLOSE |-> {"created", "connected"}, WRITE |-> {"connected"}]
Able(c) ==
  IF c.kind = "CREAT" THEN \E i \in ModemIds : modem[i] = "free"
  ELSE c.id \in ModemIds /\ modem[c.id] \in Needed[c.kind]

Creates ==
  \E i \in ModemIds :
    /\ LowestFree(i)
    /\ modem' = [modem EXCEPT ![i] = "created"]
    /\ wire' = <<Line("CREAT", i), Line("OK", 0)>>

Sets(i, state) == modem' = [modem EXCEPT ![i] = state] /\ wire' = <<Line("OK", 0)>>

Obey(c) ==
  \/ c.kind = "CREAT" /\ Creates
  \/ c.kind = "CONN" /\ Sets(c.id, "connected")
  \/ c.kind = "CLOSE" /\ Sets(c.id, "free")
  \/ c.kind = "WRITE" /\ wire' = <<Line("WRITE", 1), Line("OK", 0)>> /\ UNCHANGED modem

\* The modem does what it is told and answers; what it cannot do is an ERROR.
Exec ==
  /\ cmds # << >> /\ wire = << >>
  /\ cmds' = Tail(cmds)
  /\ LET c == Head(cmds)
     IN IF Able(c) THEN Obey(c) ELSE wire' = <<Other>> /\ UNCHANGED modem
  /\ UNCHANGED <<driver, lines, faults>>

\* It refuses the command, writes less than it was given, or loses it.
Refuse ==
  /\ Trouble
  /\ cmds # << >> /\ wire = << >>
  /\ cmds' = Tail(cmds)
  /\ \/ wire' = <<Other>>
     \/ wire' = << >>
     \/ Head(cmds).kind = "WRITE" /\ wire' = <<Line("WRITE", 0), Line("OK", 0)>>
  /\ UNCHANGED <<driver, lines, modem>>

\* It says something of its own accord.
Notify ==
  /\ Trouble
  /\ wire' \in {<<Line("URC", 0)>> \o wire, <<Other>> \o wire}
  /\ UNCHANGED <<driver, cmds, lines, modem>>

Deliver ==
  /\ wire # << >> /\ Len(lines) < MaxLines
  /\ lines' = Append(lines, Head(wire))
  /\ wire' = Tail(wire)
  /\ UNCHANGED <<driver, cmds, modem, faults>>

Calls ==
  \E h \in Handles :
    \/ SocketOpen(h) \/ SocketOpenNoSlot(h) \/ SocketClose(h)
    \/ \E a \in Addrs : SocketConnect(h, a)
    \/ \E n \in 0 .. MaxChunks : SocketSend(h, n)
    \/ \E a \in Addrs, n \in 0 .. MaxChunks : SocketSendto(h, a, n)

Parser ==
  \/ Tx \/ SkipURC \/ ScanMatch \/ ScanMismatch \/ ScanTimeout
  \/ RxMatch \/ RxMismatch \/ RxTimeout

Next == Calls \/ Parser \/ Exec \/ Refuse \/ Notify \/ Deliver

Spec == Init /\ [][Next]_vars

\* A call, once made, runs on; the modem and the line work.
FairSpec == Spec /\ WF_vars(Parser) /\ WF_vars(Exec) /\ WF_vars(Deliver)

-----------------------------------------------------------------------------
(* Properties. *)

Opening(h) == pc # "idle" /\ call.op = "open" /\ call.h = h

\* What a running call can rely on, and why no two sockets meet in a slot: its
\* commands are those of its operation, they name the slot that its socket has
\* or, for open(), is to have, and the slots of open sockets are marked.
CallSound ==
  pc # "idle" =>
    /\ \/ call.op = "open" /\ cmd = "CREAT"
       \/ call.op = "close" /\ cmd = "CLOSE"
       \/ call.op = "connect" /\ cmd = "CONN"
       \/ call.op = "send" /\ cmd = "WRITE"
       \/ call.op = "sendto" /\ cmd \in {"CLOSE", "CONN", "WRITE"}
    /\ cmd = "WRITE" => left > 0
    /\ call.id \in Ids
    /\ call.op # "open" => sock[call.h].id = call.id
    /\ call.op = "open" =>
         /\ ~Live(call.h)
         /\ used[call.id]
         /\ \A h \in Handles : sock[h].id # call.id

SlotsSound ==
  \A h \in Handles :
    Live(h) => /\ used[sock[h].id]
               /\ \A g \in Handles : sock[g].id = sock[h].id => g = h

\* A slot serves the socket that has it, or that is being opened for it.
Holds(h, i) == sock[h].id = i \/ (Opening(h) /\ call.id = i)
owner ==
  [i \in Ids |-> IF ~used[i] THEN "free"
                 ELSE IF \E h \in Handles : Holds(h, i) THEN CHOOSE h \in Handles : Holds(h, i)
                 ELSE "lost"]

\* The driver implements the table of slots, with the modem late, silent,
\* refusing or talking out of turn.
Table == INSTANCE SocketTable
TableSpec == Table!Spec

\* The modem has nothing more to do or to say.
Silent == cmds = << >> /\ wire = << >>

\* An exchange that begins when the modem is silent, whatever earlier exchanges have
\* left unread, reads all the lines that its command causes and no other, and so does
\* every exchange after it until the next fault: each call finds its own replies, and
\* leaves none behind.
LockStep ==
  \A f \in 0 .. MaxFaults :
    [](faults = f /\ pc = "tx" /\ Silent => [](faults = f /\ pc = "idle" => Quiet))

\* Driver and modem agree on which sockets exist and which are connected, and no slot
\* that the modem can serve is marked for nothing.
InAgreement ==
  /\ \A i \in ModemIds : modem[i] # "free" <=> \E h \in Handles : sock[h].id = i
  /\ \A h \in Handles :
       Live(h) => /\ sock[h].id \in ModemIds
                  /\ sock[h].connected <=> modem[sock[h].id] = "connected"
  /\ \A i \in Ids \cap ModemIds : used[i] => \E h \in Handles : sock[h].id = i

\* Once they agree between calls, the modem being silent, they go on agreeing between
\* calls until the next fault, or until a sendto() moves a socket to another address.
\* They agree at first, and again after every fault that the retries of a call, or a
\* close(), have mended.
InStep ==
  \A f \in 0 .. MaxFaults :
    [](faults = f /\ pc = "idle" /\ Silent /\ InAgreement
        => [](faults = f /\ pc = "idle" /\ ~moved => InAgreement))

\* A socket of the modem that no handle stands for, between calls.
Orphan(i) == modem[i] # "free" /\ \A h \in Handles : sock[h].id # i

\* Once the line is quiet and makes no more faults, a socket that the driver
\* has left open on the modem is never closed nor used again.
OrphanForever ==
  \A i \in ModemIds :
    [](faults = MaxFaults /\ pc = "idle" /\ Quiet /\ Orphan(i) => []Orphan(i))

\* Every call returns, whatever the modem answers or fails to answer.
CallReturns == pc # "idle" ~> pc = "idle"

\* socket_open() looks "for an unused socket": a slot is marked because a
\* socket of the application uses it.
MarkedMeansUsed == pc = "idle" => \A i \in Ids : used[i] => \E h \in Handles : sock[h].id = i
=============================================================================
