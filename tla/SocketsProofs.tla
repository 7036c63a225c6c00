--------------------------- MODULE SocketsProofs ---------------------------
(* Theorems about Sockets, for any number of sockets, slots and faults. *)
EXTENDS Sockets, TLAPS

\* The invariant: types, and the two facts that keep the slots apart.
IInv == TypeOK /\ CallSound /\ SlotsSound

\* Beginning an exchange, sending chunks and returning respect the types.
LEMMA BeginTypes ==
  ASSUME TypeOK,
         NEW n \in 0 .. MaxChunks, BeginSend(n)
  PROVE  /\ pc' \in {"idle", "tx"} /\ cmd' \in Kinds \cup {"none"} /\ tries' = 1
         /\ got' = 0 /\ left' \in 0 .. MaxChunks /\ ret' \in BOOLEAN
         /\ pc' # "idle" => cmd' = "WRITE" /\ left' > 0
<1>1. CASE n = 0
  <2>1. Return(TRUE)
    BY <1>1 DEF BeginSend
  <2>2. ret' \in BOOLEAN
    BY <2>1, Zenon DEF Return
  <2>3. QED
    BY <2>1, <2>2, CountAssumption DEF Return, Kinds
<1>2. CASE n # 0
  BY <1>2, CountAssumption DEF TypeOK, DriverTypeOK, BeginSend, Begin, Kinds
<1>3. QED
  BY <1>1, <1>2

\* The calls of the application.
LEMMA CallStep == ASSUME IInv, Calls PROVE IInv'
<1> USE CountAssumption, AddrAssumption
    DEF IInv, TypeOK, Call, Begin, Return, Live, Kinds, Ops, Ids
<1>1. ASSUME NEW op \in Ops, NEW h \in Handles, NEW i \in Ids \cup {0},
             NEW a \in Addrs \cup {NoAddr}, Call(op, h, i, a)
      PROVE  /\ LinkTypeOK' /\ sock' = sock
             /\ call' = [op |-> op, h |-> h, id |-> i, addr |-> a]
             /\ call' \in [op : Ops, h : Handles, id : Ids \cup {0}, addr : Addrs \cup {NoAddr}]
  BY <1>1 DEF LinkTypeOK, link
<1>2. ASSUME NEW h \in Handles, SocketOpen(h) PROVE IInv'
  <2>1. PICK i \in Ids : /\ ~used[i] /\ Call("open", h, i, NoAddr)
                         /\ used' = [used EXCEPT ![i] = TRUE]
    BY <1>2 DEF SocketOpen
  <2>2. LinkTypeOK' /\ sock' = sock
        /\ call' = [op |-> "open", h |-> h, id |-> i, addr |-> NoAddr]
    BY <2>1, <1>1
  <2>3. DriverTypeOK'
    BY <1>2, <2>1, <2>2 DEF SocketOpen, DriverTypeOK
  <2>4. SlotsSound'
    BY <2>1, <2>2 DEF SlotsSound, DriverTypeOK
  <2>5. CallSound'
    BY <1>2, <2>1, <2>2 DEF SocketOpen, CallSound, SlotsSound, DriverTypeOK
  <2>6. QED
    BY <2>2, <2>3, <2>4, <2>5
<1>3. ASSUME NEW h \in Handles, SocketOpenNoSlot(h) PROVE IInv'
  <2>4. ret' \in BOOLEAN
    BY <1>3, Zenon DEF SocketOpenNoSlot
  <2>1. LinkTypeOK' /\ DriverTypeOK'
    BY <1>3, <2>4 DEF SocketOpenNoSlot, DriverTypeOK, LinkTypeOK, link
  <2>2. SlotsSound' /\ CallSound'
    BY <1>3 DEF SocketOpenNoSlot, SlotsSound, CallSound
  <2>3. QED
    BY <2>1, <2>2
<1>4. ASSUME NEW h \in Handles, SocketClose(h) PROVE IInv'
  <2>1. LinkTypeOK' /\ DriverTypeOK'
    BY <1>4 DEF SocketClose, DriverTypeOK, LinkTypeOK, link
  <2>2. SlotsSound' /\ CallSound'
    BY <1>4 DEF SocketClose, SlotsSound, CallSound, DriverTypeOK
  <2>3. QED
    BY <2>1, <2>2
<1>5. ASSUME NEW h \in Handles, NEW a \in Addrs, SocketConnect(h, a) PROVE IInv'
  <2>1. LinkTypeOK' /\ DriverTypeOK'
    BY <1>5 DEF SocketConnect, DriverTypeOK, LinkTypeOK, link
  <2>2. SlotsSound' /\ CallSound'
    BY <1>5 DEF SocketConnect, SlotsSound, CallSound, DriverTypeOK
  <2>3. QED
    BY <2>1, <2>2
<1>6. ASSUME NEW h \in Handles, NEW n \in 0 .. MaxChunks, SocketSend(h, n) PROVE IInv'
  <2>1. LinkTypeOK' /\ DriverTypeOK'
    BY <1>6, BeginTypes DEF SocketSend, DriverTypeOK, LinkTypeOK, link
  <2>2. SlotsSound' /\ CallSound'
    BY <1>6, BeginTypes DEF SocketSend, SlotsSound, CallSound, DriverTypeOK
  <2>3. QED
    BY <2>1, <2>2
<1>7. ASSUME NEW h \in Handles, NEW a \in Addrs, NEW n \in 0 .. MaxChunks,
             SocketSendto(h, a, n)
      PROVE  IInv'
  <2>4. \/ BeginSend(n)
        \/ \E kind \in {"CONN", "CLOSE"} : Begin(kind) /\ left' = n
    BY <1>7 DEF SocketSendto, BeginSend
  <2>5. /\ pc' \in {"idle", "tx"} /\ cmd' \in Kinds \cup {"none"} /\ tries' = 1 /\ got' = 0
        /\ left' \in 0 .. MaxChunks /\ ret' \in BOOLEAN
    BY <2>4, BeginTypes DEF DriverTypeOK
  <2>1. LinkTypeOK' /\ DriverTypeOK'
    BY <1>7, <2>5 DEF SocketSendto, DriverTypeOK, LinkTypeOK, link
  <2>2. SlotsSound' /\ CallSound'
    BY <1>7, BeginTypes DEF SocketSendto, SlotsSound, CallSound, DriverTypeOK
  <2>3. QED
    BY <2>1, <2>2
<1>8. QED
  BY <1>2, <1>3, <1>4, <1>5, <1>6, <1>7 DEF Calls

\* A call that ends an exchange keeps its slot, hands it to its socket, or
\* gives it back.
DriverInv == DriverTypeOK /\ CallSound /\ SlotsSound

LEMMA ReturnTypes ==
  ASSUME NEW ok \in BOOLEAN, Return(ok), CountAssumption
  PROVE  /\ pc' = "idle" /\ cmd' \in Kinds \cup {"none"} /\ tries' = 1 /\ got' = 0
         /\ left' \in 0 .. MaxChunks /\ ret' \in BOOLEAN
<1>1. ret' \in BOOLEAN
  BY Zenon DEF Return
<1>2. QED
  BY <1>1, CountAssumption DEF Return, Kinds

SockType == [id : Ids \cup {0}, connected : BOOLEAN, addr : Addrs \cup {NoAddr}]

\* What the three ways to write to a struct leave of its type and its id.
LEMMA OpenUpdate ==
  ASSUME NEW s \in [Handles -> SockType], NEW h \in Handles, NEW i \in Ids \cup {0}
  PROVE  [s EXCEPT ![h] = [Closed EXCEPT !.id = i]] \in [Handles -> SockType]
BY DEF SockType, Closed

LEMMA ConnectedUpdate ==
  ASSUME NEW s \in [Handles -> SockType], NEW h \in Handles, NEW b \in BOOLEAN
  PROVE  /\ [s EXCEPT ![h].connected = b] \in [Handles -> SockType]
         /\ \A g \in Handles : [s EXCEPT ![h].connected = b][g].id = s[g].id
BY DEF SockType

Connected(s, h, a) == [s EXCEPT ![h].connected = TRUE, ![h].addr = a]

LEMMA AddrUpdate ==
  ASSUME NEW s \in [Handles -> SockType], NEW h \in Handles, NEW a \in Addrs \cup {NoAddr}
  PROVE  /\ Connected(s, h, a) \in [Handles -> SockType]
         /\ \A g \in Handles : Connected(s, h, a)[g].id = s[g].id
BY DEF SockType, Connected

LEMMA DoneStep ==
  ASSUME IInv, pc # "idle", NEW ok \in BOOLEAN, Done(ok)
  PROVE  DriverInv'
<1> USE DEF IInv, TypeOK, DriverInv
<1>1. call' = call /\ call.h \in Handles /\ call.id \in Ids
  BY DEF Done, CallSound, DriverTypeOK
<1>0. /\ sock \in [Handles -> SockType] /\ TRUE \in BOOLEAN /\ FALSE \in BOOLEAN
      /\ call.addr \in Addrs \cup {NoAddr}
  BY DEF DriverTypeOK, SockType
<1>2. CASE OpenDone(ok)
  <2>1. sock' = sock \/ sock' = [sock EXCEPT ![call.h] = [Closed EXCEPT !.id = call.id]]
    BY <1>2, Zenon DEF OpenDone
  <2>2. Return(ok) /\ call.op = "open" /\ UNCHANGED <<used, moved>>
    BY <1>2 DEF OpenDone
  <2>7. sock' \in [Handles -> SockType]
    <3>1. call.id \in Ids \cup {0}
      BY <1>1
    <3>2. QED
      BY <1>0, <1>1, <2>1, <3>1, OpenUpdate
  <2>3. DriverTypeOK'
    BY <1>1, <2>7, <2>2, ReturnTypes, CountAssumption DEF DriverTypeOK, SockType
  <2>4. SlotsSound'
    BY <1>1, <2>1, <2>2 DEF DriverTypeOK, SlotsSound, CallSound, Live, Closed
  <2>5. CallSound'
    BY <2>2 DEF CallSound, Return
  <2>6. QED
    BY <2>3, <2>4, <2>5
<1>3. CASE CloseDone(ok)
  <2>1. /\ sock' = [sock EXCEPT ![call.h] = Closed]
        /\ used' = [used EXCEPT ![call.id] = FALSE]
        /\ Return(ok) /\ call.op = "close" /\ UNCHANGED moved
    BY <1>3 DEF CloseDone
  <2>2. DriverTypeOK'
    BY <1>1, <2>1, ReturnTypes, CountAssumption DEF DriverTypeOK, Closed
  <2>3. SlotsSound'
    BY <1>1, <2>1 DEF DriverTypeOK, SlotsSound, CallSound, Live, Closed
  <2>4. CallSound'
    BY <2>1 DEF CallSound, Return
  <2>5. QED
    BY <2>2, <2>3, <2>4
<1>4. ASSUME sock' \in [Handles -> SockType],
             \A h \in Handles : sock'[h].id = sock[h].id,
             used' = used, moved' \in BOOLEAN,
             \/ \E r \in BOOLEAN : Return(r)
             \/ Begin("CONN") /\ left' = left /\ call.op = "sendto"
             \/ /\ \E n \in 0 .. MaxChunks : BeginSend(n)
                /\ call.op \in {"send", "sendto"}
      PROVE  DriverInv'
  <2>1. /\ pc' \in {"idle", "tx"} /\ cmd' \in Kinds \cup {"none"} /\ tries' = 1 /\ got' = 0
        /\ left' \in 0 .. MaxChunks /\ ret' \in BOOLEAN
        /\ pc' = "idle" \/ (cmd' = "CONN" /\ call.op = "sendto")
           \/ (cmd' = "WRITE" /\ left' > 0 /\ call.op \in {"send", "sendto"})
    <3>1. CASE \E r \in BOOLEAN : Return(r)
      BY <3>1, ReturnTypes, CountAssumption
    <3>2. CASE Begin("CONN") /\ left' = left /\ call.op = "sendto"
      BY <3>2 DEF Begin, DriverTypeOK, Kinds
    <3>3. CASE (\E n \in 0 .. MaxChunks : BeginSend(n)) /\ call.op \in {"send", "sendto"}
      BY <3>3, BeginTypes
    <3>4. QED
      BY <1>4, <3>1, <3>2, <3>3
  <2>2. DriverTypeOK'
    BY <1>1, <1>4, <2>1 DEF DriverTypeOK, SockType
  <2>3. SlotsSound'
    BY <1>4 DEF SlotsSound, Live
  <2>4. CallSound'
    BY <1>1, <1>4, <2>1 DEF CallSound
  <2>5. QED
    BY <2>2, <2>3, <2>4
<1>5. CASE ConnectDone(ok)
  <2>1. sock' = sock \/ sock' = [sock EXCEPT ![call.h].connected = TRUE]
    BY <1>5, Zenon DEF ConnectDone
  <2>2. Return(ok) /\ UNCHANGED <<used, moved>>
    BY <1>5 DEF ConnectDone
  <2>3. /\ sock' \in [Handles -> SockType]
        /\ \A h \in Handles : sock'[h].id = sock[h].id
    <3> DEFINE s == [sock EXCEPT ![call.h].connected = TRUE]
    <3>1. s \in [Handles -> SockType] /\ \A h \in Handles : s[h].id = sock[h].id
      BY <1>0, <1>1, ConnectedUpdate
    <3>2. sock' = sock \/ sock' = s
      BY <2>1
    <3> HIDE DEF s
    <3>3. QED
      BY <1>0, <3>1, <3>2
  <2>4. moved' \in BOOLEAN
    BY <2>2 DEF DriverTypeOK
  <2>5. QED
    BY <1>4, <2>2, <2>3, <2>4
<1>6. CASE WriteDone
  <2>1. /\ BeginSend(left - 1) /\ UNCHANGED <<used, sock, moved>>
        /\ call.op \in {"send", "sendto"} /\ left - 1 \in 0 .. MaxChunks
    BY <1>6, CountAssumption DEF WriteDone, CallSound, DriverTypeOK
  <2>2. QED
    BY <1>4, <2>1 DEF DriverTypeOK, SockType
<1>7. CASE SendtoClosed(ok)
  <2>1. \/ /\ sock' = [sock EXCEPT ![call.h].connected = FALSE]
           /\ Begin("CONN") /\ UNCHANGED left
        \/ Return(FALSE) /\ sock' = sock
    BY <1>7, Zenon DEF SendtoClosed
  <2>2. call.op = "sendto" /\ moved' \in BOOLEAN /\ UNCHANGED used
    BY <1>7, Zenon DEF SendtoClosed
  <2>3. /\ sock' \in [Handles -> SockType]
        /\ \A h \in Handles : sock'[h].id = sock[h].id
    <3> DEFINE s == [sock EXCEPT ![call.h].connected = FALSE]
    <3>1. s \in [Handles -> SockType] /\ \A h \in Handles : s[h].id = sock[h].id
      BY <1>0, <1>1, ConnectedUpdate
    <3>2. sock' = sock \/ sock' = s
      BY <2>1
    <3> HIDE DEF s
    <3>3. QED
      BY <1>0, <3>1, <3>2
  <2>4. moved' \in BOOLEAN
    BY <2>2 DEF DriverTypeOK
  <2>5. left \in 0 .. MaxChunks
    BY DEF DriverTypeOK
  <2>6. QED
    BY <1>4, <2>1, <2>2, <2>3, <2>4, <2>5
<1>8. CASE SendtoConnected(ok)
  <2>1. \/ sock' = Connected(sock, call.h, call.addr) /\ BeginSend(left)
        \/ Return(FALSE) /\ sock' = sock
    BY <1>8, Zenon DEF SendtoConnected, Connected
  <2>2. call.op = "sendto" /\ UNCHANGED <<used, moved>>
    BY <1>8 DEF SendtoConnected
  <2>3. /\ sock' \in [Handles -> SockType]
        /\ \A h \in Handles : sock'[h].id = sock[h].id
    <3>1. CASE sock' = Connected(sock, call.h, call.addr)
      BY <1>0, <1>1, <3>1, AddrUpdate
    <3>2. CASE sock' = sock
      BY <1>0, <3>2
    <3>3. QED
      BY <2>1, <3>1, <3>2
  <2>4. moved' \in BOOLEAN
    BY <2>2 DEF DriverTypeOK
  <2>5. left \in 0 .. MaxChunks
    BY DEF DriverTypeOK
  <2>6. QED
    BY <1>4, <2>1, <2>2, <2>3, <2>4, <2>5
<1>9. QED
  BY <1>2, <1>3, <1>5, <1>6, <1>7, <1>8 DEF Done

LEMMA FailStep ==
  ASSUME IInv, pc # "idle", Fail
  PROVE  DriverInv'
<1>1. CASE tries < Tries[cmd]
  <2>1. /\ pc' = "tx" /\ tries' = tries + 1
        /\ UNCHANGED <<used, sock, call, cmd, got, left, ret, moved>>
    BY <1>1 DEF Fail
  <2>2. tries' \in 1 .. 3
    BY <1>1, <2>1 DEF IInv, TypeOK, DriverTypeOK, CallSound, Tries
  <2>3. QED
    BY <2>1, <2>2 DEF IInv, TypeOK, DriverInv, DriverTypeOK, CallSound, SlotsSound, Live
<1>2. CASE ~(tries < Tries[cmd])
  BY <1>2, DoneStep DEF Fail
<1>3. QED
  BY <1>1, <1>2

\* Reading, tearing and adding lines keeps sequences of lines.
LineType == [kind : LineKinds, n : Nat]
CmdType == [kind : Kinds, id : Ids]

LEMMA SeqTypes ==
  ASSUME NEW S, NEW s \in Seq(S), NEW e \in S
  PROVE  /\ << >> \in Seq(S) /\ <<e>> \in Seq(S)
         /\ Append(s, e) \in Seq(S) /\ <<e>> \o s \in Seq(S)
         /\ s # << >> => Tail(s) \in Seq(S) /\ Head(s) \in S
OBVIOUS

LEMMA LineTypes ==
  /\ Other \in LineType
  /\ \A k \in LineKinds : \A n \in Nat : Line(k, n) \in LineType
BY DEF Other, Line, LineType, LineKinds

\* What a timeout and a judged line do to the link.
LEMMA TroubleTypes == ASSUME LinkTypeOK, Trouble PROVE faults' \in 0 .. MaxFaults
BY CountAssumption DEF LinkTypeOK, Trouble

LEMMA TearTypes == ASSUME LinkTypeOK, Tear PROVE wire' \in Seq(LineType)
<1>1. wire \in Seq(LineType) /\ wire # << >> /\ wire' = <<Other>> \o Tail(wire)
  BY DEF LinkTypeOK, Tear, LineType
<1>2. QED
  BY <1>1, SeqTypes, LineTypes

LEMMA ReadTypes ==
  ASSUME LinkTypeOK, ReadLine PROVE LinkTypeOK' /\ Judged \in LineType
<1>1. lines \in Seq(LineType) /\ lines # << >>
  BY DEF LinkTypeOK, ReadLine, LineType
<1>2. Tail(lines) \in Seq(LineType) /\ Head(lines) \in LineType
  BY <1>1, SeqTypes, LineTypes
<1>3. QED
  BY <1>2 DEF LinkTypeOK, ReadLine, Judged, LineType

LEMMA TimeoutTypes == ASSUME LinkTypeOK, Timeout PROVE LinkTypeOK'
<1>1. wire \in Seq(LineType) /\ lines \in Seq(LineType)
  BY DEF LinkTypeOK, LineType
<1>2. wire' \in Seq(LineType)
  BY <1>1, TearTypes DEF Timeout
<1>3. lines' \in Seq(LineType)
  <2>1. lines' = lines \/ (lines # << >> /\ lines' = Tail(lines))
    BY DEF Timeout
  <2>2. QED
    BY <1>1, <2>1, SeqTypes, LineTypes
<1>4. faults' \in 0 .. MaxFaults
  BY TroubleTypes DEF Timeout, LinkTypeOK
<1>5. QED
  BY <1>2, <1>3, <1>4 DEF Timeout, LinkTypeOK, LineType

\* The steps of an exchange.
LEMMA ParserStep == ASSUME IInv, Parser PROVE IInv'
<1> USE DEF IInv, TypeOK
<1>1. LinkTypeOK /\ DriverInv
  BY DEF DriverInv
<1>2. CASE Tx
  <2>1. DriverInv'
    BY <1>2 DEF Tx, DriverInv, DriverTypeOK, CallSound, SlotsSound, Live
  <2>2. cmds' \in Seq(CmdType)
    <3>1. [kind |-> cmd, id |-> call.id] \in CmdType
      BY <1>2 DEF Tx, CallSound, DriverTypeOK, CmdType, Kinds
    <3>2. cmds \in Seq(CmdType) /\ (cmds' = cmds \/ cmds' = Append(cmds, [kind |-> cmd, id |-> call.id]))
      BY <1>2 DEF Tx, LinkTypeOK, CmdType
    <3>3. QED
      BY <3>1, <3>2, SeqTypes
  <2>3. wire' \in Seq(LineType) /\ faults' \in 0 .. MaxFaults
    BY <1>2, TearTypes, TroubleTypes DEF Tx, LinkTypeOK, LineType
  <2>4. lines' \in Seq(LineType) /\ modem' = modem
    BY <1>2 DEF Tx
  <2>5. QED
    BY <2>1, <2>2, <2>3, <2>4 DEF DriverInv, LinkTypeOK, LineType, CmdType
<1>3. CASE SkipURC
  <2>1. lines' \in Seq(LineType)
    BY <1>3, SeqTypes, LineTypes DEF SkipURC, LinkTypeOK, LineType
  <2>2. DriverInv'
    BY <1>3 DEF SkipURC, driver, DriverInv, DriverTypeOK, CallSound, SlotsSound, Live
  <2>3. QED
    BY <1>3, <2>1, <2>2 DEF SkipURC, LinkTypeOK, LineType, DriverInv
<1>4. CASE ScanMatch
  <2>1. LinkTypeOK' /\ Judged.n \in Nat
    BY <1>4, ReadTypes DEF ScanMatch, LineType
  <2>2. DriverInv'
    BY <1>4, <2>1 DEF ScanMatch, DriverInv, DriverTypeOK, CallSound, SlotsSound, Live
  <2>3. QED
    BY <2>1, <2>2 DEF DriverInv
<1>5. CASE ScanTimeout
  <2>1. LinkTypeOK'
    BY <1>5, TimeoutTypes DEF ScanTimeout
  <2>2. got' \in Nat
    BY <1>5 DEF ScanTimeout, DriverTypeOK
  <2>3. DriverInv'
    BY <1>5, <2>2 DEF ScanTimeout, DriverInv, DriverTypeOK, CallSound, SlotsSound, Live
  <2>4. QED
    BY <2>1, <2>3 DEF DriverInv
<1>6. CASE ScanMismatch \/ RxMismatch
  BY <1>6, ReadTypes, FailStep DEF ScanMismatch, RxMismatch, DriverInv
<1>7. CASE RxTimeout
  BY <1>7, TimeoutTypes, FailStep DEF RxTimeout, DriverInv
<1>8. CASE RxMatch
  <2>1. Fail \/ \E ok \in BOOLEAN : Done(ok)
    BY <1>8, Zenon DEF RxMatch, Succeed
  <2>2. LinkTypeOK' /\ pc # "idle"
    BY <1>8, ReadTypes DEF RxMatch
  <2>3. QED
    BY <2>1, <2>2, FailStep, DoneStep DEF DriverInv
<1>9. QED
  BY <1>2, <1>3, <1>4, <1>5, <1>6, <1>7, <1>8 DEF Parser

\* The modem and the line leave the driver alone.
LEMMA LineStep == ASSUME IInv, Exec \/ Refuse \/ Notify \/ Deliver PROVE IInv'
<1> USE DEF IInv, TypeOK
<1>1. UNCHANGED driver
  BY DEF Exec, Refuse, Notify, Deliver
<1>2. DriverInv'
  BY <1>1 DEF driver, DriverInv, DriverTypeOK, CallSound, SlotsSound, Live
<1>3. /\ wire \in Seq(LineType) /\ lines \in Seq(LineType) /\ cmds \in Seq(CmdType)
      /\ modem \in [ModemIds -> {"free", "created", "connected"}]
      /\ faults \in 0 .. MaxFaults
  BY DEF LinkTypeOK, LineType, CmdType
<1>4. /\ Other \in LineType /\ Line("OK", 0) \in LineType /\ Line("URC", 0) \in LineType
      /\ Line("WRITE", 0) \in LineType /\ Line("WRITE", 1) \in LineType
      /\ \A i \in ModemIds : Line("CREAT", i) \in LineType
  BY LineTypes DEF LineKinds, ModemIds
<1>0. ASSUME NEW a \in LineType, NEW b \in LineType
      PROVE  <<a>> \in Seq(LineType) /\ <<a, b>> \in Seq(LineType)
  OBVIOUS
<1>11. /\ <<Other>> \in Seq(LineType) /\ <<Line("OK", 0)>> \in Seq(LineType)
       /\ <<Line("WRITE", 0), Line("OK", 0)>> \in Seq(LineType)
       /\ <<Line("WRITE", 1), Line("OK", 0)>> \in Seq(LineType)
       /\ \A i \in ModemIds : <<Line("CREAT", i), Line("OK", 0)>> \in Seq(LineType)
  BY <1>0, <1>4
<1>5. ASSUME cmds # << >>, cmds' = Tail(cmds) PROVE cmds' \in Seq(CmdType)
  BY <1>3, <1>5
<1>6. CASE Exec
  <2>1. cmds' \in Seq(CmdType) /\ Head(cmds) \in CmdType
    BY <1>3, <1>5, <1>6 DEF Exec
  <2>2. \/ wire' = <<Other>> /\ UNCHANGED modem
        \/ Creates
        \/ \E state \in {"connected", "free"} : Sets(Head(cmds).id, state)
        \/ wire' = <<Line("WRITE", 1), Line("OK", 0)>> /\ UNCHANGED modem
    <3>1. Obey(Head(cmds)) \/ (wire' = <<Other>> /\ UNCHANGED modem)
      BY <1>6, Zenon DEF Exec
    <3>2. QED
      BY <3>1, Zenon DEF Obey
  <2>3. wire' \in Seq(LineType)
    BY <1>11, <2>2, Zenon DEF Creates, Sets
  <2>4. modem' \in [ModemIds -> {"free", "created", "connected"}]
    BY <1>3, <2>2 DEF Creates, Sets
  <2>5. QED
    BY <1>2, <1>3, <1>6, <2>1, <2>3, <2>4 DEF Exec, DriverInv, LinkTypeOK, LineType, CmdType
<1>7. CASE Refuse
  <2>1. wire' \in Seq(LineType) /\ cmds' \in Seq(CmdType)
    <3>1. <<>> \in Seq(LineType)
      OBVIOUS
    <3>2. wire' \in Seq(LineType)
      BY <1>7, <1>11, <3>1, Zenon DEF Refuse
    <3>3. QED
      BY <1>5, <1>7, <3>2 DEF Refuse
  <2>2. QED
    BY <1>2, <1>3, <1>7, <2>1, TroubleTypes
       DEF Refuse, DriverInv, LinkTypeOK, LineType, CmdType
<1>8. CASE Notify
  <2>1. wire' \in Seq(LineType)
    BY <1>3, <1>4, <1>8, SeqTypes DEF Notify
  <2>2. QED
    BY <1>2, <1>3, <1>8, <2>1, TroubleTypes DEF Notify, DriverInv, LinkTypeOK, LineType
<1>9. CASE Deliver
  <2>1. wire' \in Seq(LineType) /\ lines' \in Seq(LineType)
    BY <1>3, <1>9, SeqTypes DEF Deliver
  <2>2. QED
    BY <1>2, <1>3, <1>9, <2>1 DEF Deliver, DriverInv, LinkTypeOK, LineType
<1>10. QED
  BY <1>6, <1>7, <1>8, <1>9

LEMMA InitInv == Init => IInv
<1> SUFFICES ASSUME Init PROVE IInv
  OBVIOUS
<1>1. LinkTypeOK
  BY CountAssumption DEF Init, LinkTypeOK
<1>2. ret \in BOOLEAN /\ moved \in BOOLEAN
  BY Zenon DEF Init
<1>3. DriverTypeOK
  BY <1>2, CountAssumption DEF Init, DriverTypeOK, Kinds, Ops, Closed
<1>4. CallSound /\ SlotsSound
  BY DEF Init, CallSound, SlotsSound, Live, Closed
<1>5. QED
  BY <1>1, <1>3, <1>4 DEF IInv, TypeOK

LEMMA InvStep == IInv /\ [Next]_vars => IInv'
<1> SUFFICES ASSUME IInv, [Next]_vars PROVE IInv'
  OBVIOUS
<1>1. CASE UNCHANGED vars
  BY <1>1 DEF IInv, vars, driver, link, TypeOK, DriverTypeOK, LinkTypeOK, CallSound,
              SlotsSound, Live
<1>2. QED
  BY <1>1, CallStep, ParserStep, LineStep DEF Next

LEMMA Invariance == Spec => []IInv
BY InitInv, InvStep, PTL DEF Spec

\* Every variable keeps its type; no command names a slot out of range.
THEOREM SocketsTyping == Spec => []TypeOK
<1>1. IInv => TypeOK
  BY DEF IInv
<1>2. QED
  BY <1>1, Invariance, PTL

\* Open sockets have marked slots, and no two of them the same one, and a running
\* call keeps to the slot of its socket, whatever the modem answers and however late.
THEOREM SocketsExclusive == Spec => [](CallSound /\ SlotsSound)
<1>1. IInv => CallSound /\ SlotsSound
  BY DEF IInv
<1>2. QED
  BY <1>1, Invariance, PTL

-----------------------------------------------------------------------------
(* Refinement of SocketTable. *)

\* What owner says of a slot.
OwnerFacts ==
  \A i \in Ids :
    /\ ~used[i] => owner[i] = "free"
    /\ \A h \in Handles : used[i] /\ Holds(h, i) => owner[i] = h
    /\ used[i] /\ (\A h \in Handles : ~Holds(h, i)) => owner[i] = "lost"

LEMMA OwnerIs == IInv => OwnerFacts
<1> SUFFICES ASSUME IInv, NEW i \in Ids
             PROVE  /\ ~used[i] => owner[i] = "free"
                    /\ \A h \in Handles : used[i] /\ Holds(h, i) => owner[i] = h
                    /\ used[i] /\ (\A h \in Handles : ~Holds(h, i)) => owner[i] = "lost"
  BY DEF OwnerFacts
<1>1. ASSUME NEW g \in Handles, NEW h \in Handles, Holds(g, i), Holds(h, i) PROVE g = h
  BY <1>1 DEF Holds, Opening, IInv, CallSound, SlotsSound, Live, Ids
<1>2. owner[i] = IF ~used[i] THEN "free"
                 ELSE IF \E h \in Handles : Holds(h, i) THEN CHOOSE h \in Handles : Holds(h, i)
                 ELSE "lost"
  BY DEF owner
<1>3. ASSUME NEW h \in Handles, Holds(h, i)
      PROVE  (CHOOSE g \in Handles : Holds(g, i)) = h
  BY <1>1, <1>3
<1>4. QED
  BY <1>2, <1>3

\* A slot keeps its owner when it stays marked and the same socket holds it.
LEMMA SameAt ==
  ASSUME IInv, IInv', NEW i \in Ids, used'[i] = used[i],
         \A h \in Handles : Holds(h, i)' <=> Holds(h, i)
  PROVE  owner'[i] = owner[i]
<1>1. OwnerFacts /\ OwnerFacts'
  BY OwnerIs, PTL
<1>2. /\ ~used'[i] => owner'[i] = "free"
      /\ \A h \in Handles : used'[i] /\ Holds(h, i)' => owner'[i] = h
      /\ used'[i] /\ (\A h \in Handles : ~Holds(h, i)') => owner'[i] = "lost"
  BY <1>1 DEF OwnerFacts
<1>3. CASE ~used[i]
  <2>1. owner[i] = "free"
    BY <1>1, <1>3 DEF OwnerFacts
  <2>2. QED
    BY <1>2, <1>3, <2>1
<1>4. CASE used[i] /\ \E h \in Handles : Holds(h, i)
  <2>1. PICK h \in Handles : Holds(h, i)
    BY <1>4
  <2>2. owner[i] = h
    BY <1>1, <1>4, <2>1 DEF OwnerFacts
  <2>3. QED
    BY <1>2, <1>4, <2>1, <2>2
<1>5. CASE used[i] /\ \A h \in Handles : ~Holds(h, i)
  <2>1. owner[i] = "lost"
    BY <1>1, <1>5 DEF OwnerFacts
  <2>2. QED
    BY <1>2, <1>5, <2>1
<1>6. QED
  BY <1>3, <1>4, <1>5

LEMMA SameOwner ==
  ASSUME IInv, IInv', used' = used,
         \A h \in Handles, i \in Ids : Holds(h, i)' <=> Holds(h, i)
  PROVE  owner' = owner
<1>1. \A i \in Ids : owner'[i] = owner[i]
  BY SameAt
<1>2. owner' = [i \in Ids |-> owner'[i]] /\ owner = [i \in Ids |-> owner[i]]
  BY DEF owner
<1>3. QED
  BY <1>1, <1>2, Zenon

\* A step that changes the owner of one slot only.
LEMMA OwnerExcept ==
  ASSUME IInv, IInv', NEW i \in Ids, NEW v,
         \A j \in Ids \ {i} : used'[j] = used[j] /\ \A h \in Handles : Holds(h, j)' <=> Holds(h, j),
         owner'[i] = v
  PROVE  owner' = [owner EXCEPT ![i] = v]
<1>1. \A j \in Ids \ {i} : owner'[j] = owner[j]
  BY SameAt
<1>2. owner' = [j \in Ids |-> owner'[j]] /\ owner = [j \in Ids |-> owner[j]]
  BY DEF owner
<1>3. [owner EXCEPT ![i] = v] = [j \in Ids |-> IF j = i THEN v ELSE owner[j]]
  BY <1>2
<1>4. \A j \in Ids : owner'[j] = IF j = i THEN v ELSE owner[j]
  BY <1>1
<1>5. QED
  BY <1>2, <1>3, <1>4

\* socket_open() takes the lowest free slot.
LEMMA OpenAcquires ==
  ASSUME IInv, IInv', NEW h \in Handles, SocketOpen(h)
  PROVE  \E i \in Ids : Table!Acquire(h, i)
<1>1. PICK i \in Ids : /\ ~used[i] /\ (\A j \in 1 .. i - 1 : used[j])
                       /\ Call("open", h, i, NoAddr)
                       /\ used' = [used EXCEPT ![i] = TRUE]
  BY DEF SocketOpen
<1>2. /\ pc = "idle" /\ pc' = "tx" /\ sock' = sock /\ ~Live(h)
      /\ call' = [op |-> "open", h |-> h, id |-> i, addr |-> NoAddr]
  BY <1>1 DEF SocketOpen, Call, Begin
<1>3. OwnerFacts /\ OwnerFacts'
  BY OwnerIs, PTL
<1>4. used'[i] /\ \A j \in Ids \ {i} : used'[j] = used[j]
  BY <1>1 DEF IInv, TypeOK, DriverTypeOK
<1>5. Holds(h, i)'
  BY <1>2 DEF Holds, Opening
<1>6. \A j \in Ids \ {i}, g \in Handles : Holds(g, j)' <=> Holds(g, j)
  BY <1>2 DEF Holds, Opening
<1>7. owner'[i] = h
  BY <1>3, <1>4, <1>5 DEF OwnerFacts
<1>8. owner' = [owner EXCEPT ![i] = h]
  BY <1>4, <1>6, <1>7, OwnerExcept
<1>9. owner[i] = "free"
  BY <1>1, <1>3 DEF OwnerFacts
<1>10. ASSUME NEW j \in Ids
       PROVE  (owner[j] = "free" => i <= j) /\ owner[j] # h
  <2>1. CASE ~used[j]
    <3>1. i <= j
      BY <1>1, <2>1 DEF Ids
    <3>2. owner[j] = "free"
      BY <1>3, <2>1 DEF OwnerFacts
    <3>3. QED
      BY <3>1, <3>2, HandleAssumption
  <2>2. CASE used[j] /\ \E g \in Handles : Holds(g, j)
    <3>1. PICK g \in Handles : Holds(g, j)
      BY <2>2
    <3>2. g # h
      BY <1>2, <3>1 DEF Holds, Opening, Live, Ids
    <3>3. owner[j] = g
      BY <1>3, <2>2, <3>1 DEF OwnerFacts
    <3>4. QED
      BY <3>2, <3>3, HandleAssumption
  <2>3. CASE used[j] /\ \A g \in Handles : ~Holds(g, j)
    <3>1. owner[j] = "lost"
      BY <1>3, <2>3 DEF OwnerFacts
    <3>2. QED
      BY <3>1, HandleAssumption
  <2>4. QED
    BY <2>1, <2>2, <2>3
<1>11. QED
  BY <1>8, <1>9, <1>10 DEF Table!Acquire, Table!Free

\* The other calls, and the exchanges on their way, change no owner.
LEMMA CallsOwner ==
  ASSUME IInv, IInv', Calls
  PROVE  (\E h \in Handles, i \in Ids : Table!Acquire(h, i)) \/ owner' = owner
<1>1. CASE \E h \in Handles : SocketOpen(h)
  BY <1>1, OpenAcquires
<1>2. CASE ~ \E h \in Handles : SocketOpen(h)
  <2>1. ASSUME NEW h \in Handles,
               SocketOpenNoSlot(h) \/ SocketClose(h)
               \/ (\E a \in Addrs : SocketConnect(h, a))
               \/ (\E n \in 0 .. MaxChunks : SocketSend(h, n))
               \/ (\E a \in Addrs, n \in 0 .. MaxChunks : SocketSendto(h, a, n))
        PROVE  /\ pc = "idle" /\ sock' = sock /\ used' = used
               /\ pc' = "idle" \/ call'.op # "open"
    <3> USE DEF Call, Return
    <3>1. CASE SocketOpenNoSlot(h)
      BY <3>1 DEF SocketOpenNoSlot
    <3>2. CASE SocketClose(h)
      BY <3>2 DEF SocketClose
    <3>3. CASE \E a \in Addrs : SocketConnect(h, a)
      BY <3>3 DEF SocketConnect
    <3>4. CASE \E n \in 0 .. MaxChunks : SocketSend(h, n)
      BY <3>4 DEF SocketSend
    <3>5. CASE \E a \in Addrs, n \in 0 .. MaxChunks : SocketSendto(h, a, n)
      BY <3>5 DEF SocketSendto
    <3>6. QED
      BY <2>1, <3>1, <3>2, <3>3, <3>4, <3>5
  <2>2. /\ pc = "idle" /\ sock' = sock /\ used' = used
        /\ pc' = "idle" \/ call'.op # "open"
    BY <1>2, <2>1 DEF Calls
  <2>3. QED
    BY <2>2, SameOwner DEF Holds, Opening
<1>3. QED
  BY <1>1, <1>2

\* The end of an exchange hands the slot over, loses it or gives it back.
LEMMA DoneOwner ==
  ASSUME IInv, IInv', pc # "idle", NEW ok \in BOOLEAN, Done(ok)
  PROVE  \/ owner' = owner
         \/ \E h \in Handles, i \in Ids : Table!Lose(h, i) \/ Table!Release(h, i)
<1>1. /\ call' = call /\ call.h \in Handles /\ call.id \in Ids
      /\ sock \in [Handles -> SockType]
  BY DEF Done, CallSound, IInv, TypeOK, DriverTypeOK, SockType
<1>2. OwnerFacts /\ OwnerFacts'
  BY OwnerIs, PTL
<1>3. CASE OpenDone(ok)
  <2>1. /\ pc' = "idle" /\ call.op = "open" /\ used' = used
        /\ \/ sock' = [sock EXCEPT ![call.h] = [Closed EXCEPT !.id = call.id]]
           \/ sock' = sock
    BY <1>3, Zenon DEF OpenDone, Return
  <2>2. Holds(call.h, call.id) /\ used[call.id] /\ owner[call.id] = call.h
    BY <1>1, <1>2, <2>1 DEF IInv, CallSound, Holds, Opening, OwnerFacts
  <2>3. CASE sock' = [sock EXCEPT ![call.h] = [Closed EXCEPT !.id = call.id]]
    <3>1. \A h \in Handles, i \in Ids : Holds(h, i)' <=> Holds(h, i)
      BY <1>1, <2>1, <2>3 DEF Holds, Opening, Closed, IInv, CallSound, Live, Ids, SockType
    <3>2. QED
      BY <2>1, <3>1, SameOwner
  <2>4. CASE sock' = sock
    <3>1. \A i \in Ids \ {call.id}, h \in Handles : Holds(h, i)' <=> Holds(h, i)
      BY <1>1, <2>1, <2>4 DEF Holds, Opening
    <3>2. \A h \in Handles : ~Holds(h, call.id)'
      BY <1>1, <2>1, <2>4 DEF Holds, Opening, IInv, CallSound
    <3>3. owner'[call.id] = "lost"
      BY <1>1, <1>2, <2>1, <2>2, <3>2 DEF OwnerFacts
    <3>4. owner' = [owner EXCEPT ![call.id] = "lost"]
      BY <1>1, <2>1, <3>1, <3>3, OwnerExcept
    <3>5. QED
      BY <1>1, <2>2, <3>4 DEF Table!Lose, Table!Lost
  <2>5. QED
    BY <2>1, <2>3, <2>4
<1>4. CASE CloseDone(ok)
  <2>1. /\ pc' = "idle" /\ call.op = "close"
        /\ used' = [used EXCEPT ![call.id] = FALSE]
        /\ sock' = [sock EXCEPT ![call.h] = Closed]
    BY <1>4 DEF CloseDone, Return
  <2>2. ~used'[call.id] /\ \A i \in Ids \ {call.id} : used'[i] = used[i]
    BY <1>1, <2>1 DEF IInv, TypeOK, DriverTypeOK
  <2>3. sock[call.h].id = call.id /\ used[call.id]
    BY <1>1, <2>1 DEF IInv, CallSound, SlotsSound, Live, Ids
  <2>4. owner[call.id] = call.h /\ owner'[call.id] = "free"
    BY <1>1, <1>2, <2>2, <2>3 DEF OwnerFacts, Holds
  <2>5. \A i \in Ids \ {call.id}, h \in Handles : Holds(h, i)' <=> Holds(h, i)
    BY <1>1, <2>1, <2>3 DEF Holds, Opening, Closed, Ids, SockType
  <2>6. owner' = [owner EXCEPT ![call.id] = "free"]
    BY <1>1, <2>2, <2>4, <2>5, OwnerExcept
  <2>7. QED
    BY <1>1, <2>4, <2>6 DEF Table!Release, Table!Free
<1>5. CASE ConnectDone(ok) \/ WriteDone \/ SendtoClosed(ok) \/ SendtoConnected(ok)
  <2>1. /\ call.op # "open" /\ used' = used
        /\ \/ sock' = sock
           \/ sock' = [sock EXCEPT ![call.h].connected = TRUE]
           \/ sock' = [sock EXCEPT ![call.h].connected = FALSE]
           \/ sock' = Connected(sock, call.h, call.addr)
    <3>1. CASE ConnectDone(ok)
      BY <3>1, Zenon DEF ConnectDone
    <3>2. CASE WriteDone
      BY <3>2 DEF WriteDone, IInv, CallSound
    <3>3. CASE SendtoClosed(ok)
      BY <3>3, Zenon DEF SendtoClosed
    <3>4. CASE SendtoConnected(ok)
      BY <3>4, Zenon DEF SendtoConnected, Connected
    <3>5. QED
      BY <1>5, <3>1, <3>2, <3>3, <3>4
  <2>2. call.addr \in Addrs \cup {NoAddr} /\ TRUE \in BOOLEAN /\ FALSE \in BOOLEAN
    BY DEF IInv, TypeOK, DriverTypeOK
  <2>3. \A h \in Handles : sock'[h].id = sock[h].id
    <3>1. CASE sock' = [sock EXCEPT ![call.h].connected = TRUE]
      BY <1>1, <2>2, <3>1, ConnectedUpdate
    <3>2. CASE sock' = [sock EXCEPT ![call.h].connected = FALSE]
      BY <1>1, <2>2, <3>2, ConnectedUpdate
    <3>3. CASE sock' = Connected(sock, call.h, call.addr)
      BY <1>1, <2>2, <3>3, AddrUpdate
    <3>4. QED
      BY <2>1, <3>1, <3>2, <3>3
  <2>4. \A h \in Handles, i \in Ids : Holds(h, i)' <=> Holds(h, i)
    BY <1>1, <2>1, <2>3 DEF Holds, Opening
  <2>5. QED
    BY <2>1, <2>4, SameOwner
<1>6. QED
  BY <1>3, <1>4, <1>5 DEF Done

\* The other steps of an exchange keep every slot where it is.
LEMMA ParserOwner ==
  ASSUME IInv, IInv', Parser
  PROVE  \/ owner' = owner
         \/ \E h \in Handles, i \in Ids : Table!Lose(h, i) \/ Table!Release(h, i)
<1>1. ASSUME pc # "idle", pc' # "idle", UNCHANGED <<used, sock, call>> PROVE owner' = owner
  BY <1>1, SameOwner DEF Holds, Opening
<1>2. ASSUME pc # "idle", Fail
      PROVE  \/ owner' = owner
             \/ \E h \in Handles, i \in Ids : Table!Lose(h, i) \/ Table!Release(h, i)
  <2>1. CASE tries < Tries[cmd]
    BY <1>1, <1>2, <2>1 DEF Fail
  <2>2. CASE ~(tries < Tries[cmd])
    BY <1>2, <2>2, DoneOwner DEF Fail
  <2>3. QED
    BY <2>1, <2>2
<1>3. CASE Tx
  BY <1>1, <1>3 DEF Tx
<1>4. CASE SkipURC
  BY <1>1, <1>4 DEF SkipURC, driver
<1>5. CASE ScanMatch \/ ScanTimeout
  BY <1>1, <1>5 DEF ScanMatch, ScanTimeout
<1>6. CASE ScanMismatch \/ RxMismatch \/ RxTimeout
  BY <1>2, <1>6 DEF ScanMismatch, RxMismatch, RxTimeout
<1>7. CASE RxMatch
  <2>1. pc # "idle" /\ (Fail \/ \E ok \in BOOLEAN : Done(ok))
    BY <1>7, Zenon DEF RxMatch, Succeed
  <2>2. QED
    BY <1>2, <2>1, DoneOwner
<1>8. QED
  BY <1>3, <1>4, <1>5, <1>6, <1>7 DEF Parser

\* The driver, with every interleaving of modem and line, implements the table
\* of slots: a slot serves one socket at a time, the lowest free slot is taken,
\* only the socket that has it can give it back, and a lost one stays lost.
THEOREM SocketsTable == Spec => TableSpec
<1>1. Init => Table!Init
  <2> SUFFICES ASSUME Init PROVE owner = [i \in Ids |-> "free"]
    BY DEF Table!Init, Table!Free
  <2>1. \A i \in Ids : ~used[i]
    BY DEF Init
  <2>2. QED
    BY <2>1 DEF owner
<1>2. IInv /\ IInv' /\ [Next]_vars => [Table!Next]_owner
  <2> SUFFICES ASSUME IInv, IInv', [Next]_vars PROVE Table!Next \/ owner' = owner
    OBVIOUS
  <2>1. CASE Calls
    BY <2>1, CallsOwner DEF Table!Next
  <2>2. CASE Parser
    BY <2>2, ParserOwner DEF Table!Next
  <2>3. CASE Exec \/ Refuse \/ Notify \/ Deliver \/ UNCHANGED vars
    <3>1. UNCHANGED driver
      BY <2>3 DEF Exec, Refuse, Notify, Deliver, vars
    <3>2. QED
      BY <3>1, SameOwner DEF driver, Holds, Opening
  <2>4. QED
    BY <2>1, <2>2, <2>3 DEF Next
<1>3. QED
  BY <1>1, <1>2, Invariance, PTL DEF Spec, TableSpec, Table!Spec

-----------------------------------------------------------------------------
(* How far an exchange has come since the line has made no fault. *)

Ok == Line("OK", 0)
TheCmd == [kind |-> cmd, id |-> call.id]
Scans == cmd \in {"CREAT", "WRITE"}
FirstRead == IF Scans THEN "scan" ELSE "rx"

\* What is still to be read, whether it has arrived or not.
Due == lines \o wire

\* The command is on its way.
Waiting == cmds = <<TheCmd>> /\ Due = << >> /\ pc = FirstRead

\* The modem has obeyed it and its answer is being read; n is what the answer says.
Answered(n) ==
  /\ cmds = << >>
  /\ \/ pc = "scan" /\ Scans /\ Due = <<Line(cmd, n), Ok>>
     \/ pc = "rx" /\ Due = <<Ok>> /\ (Scans => n = got)

\* The modem could not do what it was told.
Refused == cmds = << >> /\ Due = <<Other>> /\ pc = FirstRead

\* Between exchanges nothing is under way; what has been left unread does no harm, for
\* tx() will throw it away.
Turn ==
  /\ pc \in {"idle", "tx"} => Silent
  /\ pc \in {"scan", "rx"} => Waiting \/ Refused \/ \E n \in Nat : Answered(n)

(* What driver and modem think of each other, until a sendto() moves a socket. *)

Has(i) == \E h \in Handles : sock[h].id = i

\* They agree on socket i.
Agree(i) ==
  /\ modem[i] # "free" <=> Has(i)
  /\ \A h \in Handles : sock[h].id = i => (sock[h].connected <=> modem[i] = "connected")

\* A marked slot that the modem can serve is the slot of a socket, or of the socket
\* that is being opened: then the slots below it are marked, too.
Marked ==
  /\ \A i \in Ids \cap ModemIds : used[i] => Has(i) \/ (pc # "idle" /\ call.op = "open" /\ call.id = i)
  /\ pc # "idle" /\ call.op = "open" => \A j \in 1 .. call.id - 1 : used[j]

\* The modem has obeyed the command, and the driver does not know.
Ahead(n) ==
  /\ cmd = "CREAT" => call.id \in ModemIds /\ n = call.id /\ modem[call.id] = "created"
  /\ cmd = "CONN" => call.id \in ModemIds /\ modem[call.id] = "connected"
  /\ cmd = "CLOSE" => call.id \in ModemIds /\ modem[call.id] = "free"
  /\ cmd = "WRITE" => \A i \in ModemIds : Agree(i)

Match ==
  /\ Marked
  /\ \A h \in Handles : Live(h) => sock[h].id \in ModemIds
  /\ \/ \A i \in ModemIds : Agree(i)
     \/ /\ \A i \in ModemIds \ {call.id} : Agree(i)
        /\ pc \in {"scan", "rx"}
        /\ \E n \in Nat : Answered(n)
  /\ pc \in {"scan", "rx"} =>
       /\ \A n \in Nat : Answered(n) => Ahead(n)
       /\ Refused /\ cmd = "CREAT" => call.id \notin ModemIds
       /\ Refused => cmd # "CLOSE"

\* Between two calls nothing is left to be read.
Clean == pc = "idle" => lines = << >>

\* What has held since fault number f, and holds until the next one.
InLockStep(f) == faults > f \/ (faults = f /\ Turn /\ Clean)
StayInStep(f) == faults > f \/ (faults = f /\ Turn /\ (~moved => Match))
-----------------------------------------------------------------------------
(* What is due. *)

LEMMA DueEmpty ==
  ASSUME NEW S, NEW r \in Seq(S), NEW w \in Seq(S)
  PROVE  r \o w = << >> <=> r = << >> /\ w = << >>
  <1>1. Len(r \o w) = Len(r) + Len(w) OBVIOUS
  <1>2. \A s \in Seq(S) : s = << >> <=> Len(s) = 0 OBVIOUS
  <1>3. r \o w \in Seq(S) /\ Len(r) \in Nat /\ Len(w) \in Nat OBVIOUS
  <1>. QED BY <1>1, <1>2, <1>3

LEMMA DueRead ==
  ASSUME NEW S, NEW r \in Seq(S), NEW w \in Seq(S), r # << >>
  PROVE  Head(r \o w) = Head(r) /\ Tail(r) \o w = Tail(r \o w)
  <1>1. Len(r) \in Nat /\ Len(r) > 0 /\ Len(w) \in Nat OBVIOUS
  <1>2. r \o w \in Seq(S) /\ Len(r \o w) = Len(r) + Len(w) OBVIOUS
  <1>3. Tail(r) \in Seq(S) /\ Len(Tail(r)) = Len(r) - 1 OBVIOUS
  <1>4. Tail(r) \o w \in Seq(S) /\ Len(Tail(r) \o w) = Len(r) - 1 + Len(w) BY <1>1, <1>3
  <1>5. Tail(r \o w) \in Seq(S) /\ Len(Tail(r \o w)) = Len(r) + Len(w) - 1 BY <1>1, <1>2
  <1>6. ASSUME NEW i \in 1 .. Len(r) - 1 + Len(w)
        PROVE  (Tail(r) \o w)[i] = Tail(r \o w)[i]
    <2>1. Tail(r \o w)[i] = (r \o w)[i + 1] BY <1>1, <1>2
    <2>2. CASE i <= Len(r) - 1
      BY <1>1, <1>3, <2>1, <2>2
    <2>3. CASE i > Len(r) - 1
      <3>1. (Tail(r) \o w)[i] = w[i - (Len(r) - 1)] BY <1>1, <1>3, <2>3
      <3>2. (r \o w)[i + 1] = w[i + 1 - Len(r)] BY <1>1, <2>3
      <3>. QED BY <1>1, <2>1, <3>1, <3>2
    <2>. QED BY <1>1, <2>2, <2>3
  <1>7. Tail(r) \o w = Tail(r \o w) BY <1>1, <1>4, <1>5, <1>6
  <1>8. Head(r \o w) = Head(r) BY <1>1, <1>2
  <1>. QED BY <1>7, <1>8

LEMMA DueDeliver ==
  ASSUME NEW S, NEW r \in Seq(S), NEW w \in Seq(S), w # << >>
  PROVE  Append(r, Head(w)) \o Tail(w) = r \o w
  <1>1. Len(r) \in Nat /\ Len(w) \in Nat /\ Len(w) > 0 OBVIOUS
  <1>2. Head(w) \in S /\ Tail(w) \in Seq(S) /\ Len(Tail(w)) = Len(w) - 1 OBVIOUS
  <1>3. Append(r, Head(w)) \in Seq(S) /\ Len(Append(r, Head(w))) = Len(r) + 1 BY <1>2
  <1>4. /\ Append(r, Head(w)) \o Tail(w) \in Seq(S) /\ r \o w \in Seq(S)
        /\ Len(Append(r, Head(w)) \o Tail(w)) = Len(r) + Len(w) /\ Len(r \o w) = Len(r) + Len(w)
    BY <1>1, <1>2, <1>3
  <1>5. ASSUME NEW i \in 1 .. Len(r) + Len(w)
        PROVE  (Append(r, Head(w)) \o Tail(w))[i] = (r \o w)[i]
    <2>1. CASE i <= Len(r) BY <1>1, <1>2, <1>3, <2>1
    <2>2. CASE i = Len(r) + 1 BY <1>1, <1>2, <1>3, <2>2
    <2>3. CASE i > Len(r) + 1
      <3>1. (Append(r, Head(w)) \o Tail(w))[i] = Tail(w)[i - (Len(r) + 1)] BY <1>1, <1>2, <1>3, <2>3
      <3>2. Tail(w)[i - (Len(r) + 1)] = w[i - Len(r)] BY <1>1, <2>3
      <3>. QED BY <1>1, <2>3, <3>1, <3>2
    <2>. QED BY <1>1, <2>1, <2>2, <2>3
  <1>. QED BY <1>1, <1>4, <1>5

LEMMA LinkFacts ==
  ASSUME IInv
  PROVE  /\ lines \in Seq(LineType) /\ wire \in Seq(LineType) /\ cmds \in Seq(CmdType)
         /\ modem \in [ModemIds -> {"free", "created", "connected"}] /\ faults \in Nat
BY CountAssumption DEF IInv, TypeOK, LinkTypeOK, LineType, CmdType

\* A line that is read is one that the exchange waits for.
LEMMA ReadTurn ==
  ASSUME IInv, Turn, pc \in {"scan", "rx"}, ReadLine
  PROVE  /\ cmds' = << >> /\ modem' = modem
         /\ \/ /\ pc = "scan" /\ Scans /\ Due' = <<Ok>>
               /\ \E n \in Nat : Answered(n) /\ Judged = Line(cmd, n)
            \/ /\ pc = "rx" /\ Due' = << >> /\ Judged = Ok
               /\ \E n \in Nat : Answered(n) /\ (Scans => n = got)
            \/ Refused /\ Due' = << >> /\ Judged = Other
<1>1. lines \in Seq(LineType) /\ wire \in Seq(LineType)
  BY LinkFacts
<1>2. lines # << >> /\ lines' = Tail(lines) /\ UNCHANGED <<cmds, wire, modem>>
  BY DEF ReadLine
<1>3. Due # << >> /\ Judged = Head(Due) /\ Due' = Tail(Due)
  BY <1>1, <1>2, DueEmpty, DueRead DEF Due, Judged
<1>4. \A a, b : /\ Head(<<a>>) = a /\ Tail(<<a>>) = << >>
                /\ Head(<<a, b>>) = a /\ Tail(<<a, b>>) = <<b>>
  OBVIOUS
<1>5. CASE Refused
  BY <1>2, <1>3, <1>4, <1>5 DEF Refused
<1>6. ASSUME NEW n \in Nat, Answered(n)
      PROVE  /\ cmds = << >>
             /\ \/ pc = "scan" /\ Scans /\ Due' = <<Ok>> /\ Judged = Line(cmd, n)
                \/ pc = "rx" /\ Due' = << >> /\ Judged = Ok /\ (Scans => n = got)
  <2>1. CASE pc = "scan" /\ Scans /\ Due = <<Line(cmd, n), Ok>>
    BY <1>3, <1>4, <1>6, <2>1 DEF Answered
  <2>2. CASE pc = "rx" /\ Due = <<Ok>> /\ (Scans => n = got)
    BY <1>3, <1>4, <1>6, <2>2 DEF Answered
  <2>3. QED
    BY <1>6, <2>1, <2>2 DEF Answered
<1>7. Refused \/ \E n \in Nat : Answered(n)
  BY <1>3 DEF Turn, Waiting
<1>8. QED
  BY <1>2, <1>5, <1>6, <1>7

\* Without a fault the time is never up: something is always to come.
LEMMA NeverLate ==
  ASSUME IInv, Turn, pc \in {"scan", "rx"}, Timeout, faults' = faults
  PROVE  FALSE
<1>1. Quiet
  BY LinkFacts DEF Timeout, Trouble
<1>2. cmds = << >> /\ Due = << >>
  <2>1. << >> \o << >> = << >>
    OBVIOUS
  <2>2. QED
    BY <1>1, <2>1 DEF Quiet, Due
<1>3. QED
  BY <1>2 DEF Turn, Waiting, Refused, Answered

\* Nor does checkURC() find anything to consume.
LEMMA NoURC == ASSUME IInv, Turn, SkipURC PROVE FALSE
<1>1. lines \in Seq(LineType) /\ wire \in Seq(LineType) /\ lines # << >> /\ Judged.kind = "URC"
  BY LinkFacts DEF SkipURC
<1>2. Due # << >> /\ Judged = Head(Due)
  BY <1>1, DueEmpty, DueRead DEF Due, Judged
<1>3. \A a, b : Head(<<a>>) = a /\ Head(<<a, b>>) = a
  OBVIOUS
<1>4. Judged = Other \/ Judged = Ok \/ (Scans /\ \E n \in Nat : Judged = Line(cmd, n))
  BY <1>2, <1>3 DEF SkipURC, Turn, Waiting, Refused, Answered
<1>5. QED
  BY <1>1, <1>4 DEF Other, Ok, Line, Scans

LEMMA AtRest ==
  ASSUME IInv', cmds' = << >>, Due' = << >>, pc' \in {"idle", "tx"}
  PROVE  Turn' /\ Clean'
<1>1. lines' \in Seq(LineType) /\ wire' \in Seq(LineType)
  BY LineStep DEF IInv, TypeOK, LinkTypeOK, LineType
<1>2. lines' = << >> /\ wire' = << >>
  BY <1>1, DueEmpty DEF Due
<1>3. QED
  BY <1>2 DEF Turn, Silent, Clean

LEMMA EndRests ==
  ASSUME Fail \/ Succeed
  PROVE  pc' \in {"idle", "tx"} /\ call' = call
<1>1. ASSUME NEW ok, Done(ok) PROVE pc' \in {"idle", "tx"} /\ call' = call
  <2>1. call' = call
    BY <1>1 DEF Done
  <2>2. pc' \in {"idle", "tx"}
    BY <1>1, Zenon DEF Done, OpenDone, CloseDone, ConnectDone, WriteDone, SendtoClosed,
                       SendtoConnected, BeginSend, Begin, Return
  <2>3. QED
    BY <2>1, <2>2
<1>2. CASE Fail
  BY <1>1, <1>2 DEF Fail
<1>3. CASE Succeed
  BY <1>1, <1>2, <1>3 DEF Succeed
<1>4. QED
  BY <1>2, <1>3
-----------------------------------------------------------------------------
(* The end of an exchange leaves driver and modem in step. *)

AllAgree == \A i \in ModemIds : Agree(i)
InModem == \A h \in Handles : Live(h) => sock[h].id \in ModemIds

LEMMA IdleMatch ==
  ASSUME AllAgree', Marked', InModem', pc' \in {"idle", "tx"}
  PROVE  Match'
BY DEF Match, AllAgree, InModem

\* Nothing has changed, but that the call may have ended.
LEMMA SameMatch ==
  ASSUME Match, AllAgree, UNCHANGED <<sock, used, modem, call>>, pc' \in {"idle", "tx"}, pc # "idle",
         pc' = "idle" /\ call.op = "open" => call.id \notin ModemIds
  PROVE  Match'
<1>1. AllAgree' /\ InModem'
  BY DEF AllAgree, Agree, Has, Match, InModem, Live
<1>2. Marked'
  BY DEF Match, Marked, Has
<1>3. QED
  BY <1>1, <1>2, IdleMatch

\* The modem has refused, or it was asked to write: there is nothing to agree on.
LEMMA EndSame ==
  ASSUME IInv, Match, AllAgree, pc \in {"scan", "rx"}, modem' = modem, ~moved',
         NEW ok \in BOOLEAN, Fail \/ Done(ok),
         cmd = "WRITE" \/ ((Fail \/ ~ok) /\ Refused)
  PROVE  Match'
<1>1. Refused => cmd # "CLOSE" /\ (cmd = "CREAT" => call.id \notin ModemIds)
  BY DEF Match
<1>2. CASE Fail /\ tries < Tries[cmd]
  <2>1. pc' = "tx" /\ UNCHANGED <<sock, used, call>>
    BY <1>2 DEF Fail
  <2>2. QED
    BY <2>1, SameMatch
<1>3. ASSUME NEW r \in BOOLEAN, Done(r), cmd = "WRITE" \/ (~r /\ Refused) PROVE Match'
  <2>1. /\ call' = call /\ pc # "idle"
        /\ OpenDone(r) \/ CloseDone(r) \/ ConnectDone(r) \/ WriteDone \/ SendtoClosed(r)
           \/ SendtoConnected(r)
    BY <1>3 DEF Done
  <2>2. /\ call.op = "open" => cmd = "CREAT"
        /\ call.op = "close" => cmd = "CLOSE"
        /\ call.op = "connect" => cmd = "CONN"
    BY <2>1 DEF IInv, CallSound
  <2>3. cmd # "CLOSE" /\ (cmd = "CREAT" => call.id \notin ModemIds)
    BY <1>1, <1>3
  <2>4. pc' \in {"idle", "tx"}
    BY <2>1, Zenon DEF OpenDone, CloseDone, ConnectDone, WriteDone, SendtoClosed,
                       SendtoConnected, BeginSend, Begin, Return
  <2>5. UNCHANGED <<sock, used>>
    <3>1. CASE OpenDone(r)
      BY <1>3, <2>2, <3>1 DEF OpenDone
    <3>2. CASE CloseDone(r)
      BY <2>2, <2>3, <3>2 DEF CloseDone
    <3>3. CASE ConnectDone(r)
      BY <1>3, <2>2, <3>3 DEF ConnectDone
    <3>4. CASE WriteDone
      BY <3>4 DEF WriteDone
    <3>5. CASE SendtoClosed(r)
      BY <2>3, <3>5 DEF SendtoClosed
    <3>6. CASE SendtoConnected(r)
      BY <1>3, <3>6 DEF SendtoConnected
    <3>7. QED
      BY <2>1, <3>1, <3>2, <3>3, <3>4, <3>5, <3>6
  <2>6. QED
    BY <2>1, <2>2, <2>3, <2>4, <2>5, SameMatch
<1>4. QED
  BY <1>2, <1>3 DEF Fail

\* The modem has obeyed, and now the driver knows.
LEMMA EndAhead ==
  ASSUME IInv, Match, pc \in {"scan", "rx"}, modem' = modem, ~moved', cmd # "WRITE",
         NEW n \in Nat, Answered(n), Done(TRUE)
  PROVE  Match'
<1>1. /\ Ahead(n) /\ \A i \in ModemIds \ {call.id} : Agree(i)
      /\ Marked /\ InModem
  BY DEF Match, InModem
<1>2. /\ sock \in [Handles -> SockType] /\ used \in [Ids -> BOOLEAN]
      /\ call.h \in Handles /\ call.id \in Ids /\ call.id # 0 /\ pc # "idle"
      /\ call.addr \in Addrs \cup {NoAddr}
  BY DEF IInv, TypeOK, DriverTypeOK, SockType, CallSound, Ids
<1>3. call' = call
  BY DEF Done
<1>4. CASE OpenDone(TRUE)
  <2>1. /\ call.op = "open" /\ cmd = "CREAT" /\ pc' = "idle" /\ used' = used
        /\ sock' = [sock EXCEPT ![call.h] = [Closed EXCEPT !.id = call.id]]
    BY <1>2, <1>4 DEF OpenDone, Return, IInv, CallSound
  <2>2. /\ call.id \in ModemIds /\ modem[call.id] = "created"
        /\ \A h \in Handles : sock[h].id # call.id
        /\ sock[call.h].id = 0
    BY <1>1, <1>2, <2>1 DEF Ahead, IInv, CallSound, Live
  <2>3. /\ sock'[call.h].id = call.id /\ sock'[call.h].connected = FALSE
        /\ \A h \in Handles \ {call.h} : sock'[h] = sock[h]
    BY <1>2, <2>1 DEF Closed
  <2>4. 0 \notin ModemIds
    BY DEF ModemIds
  <2>5. \A i \in ModemIds : Has(i)' <=> Has(i) \/ i = call.id
    BY <1>2, <2>2, <2>3, <2>4 DEF Has
  <2>6. AllAgree'
    BY <1>1, <1>2, <2>2, <2>3, <2>4, <2>5 DEF AllAgree, Agree
  <2>7. Marked'
    BY <1>1, <1>3, <2>1, <2>5 DEF Marked
  <2>8. InModem'
    BY <1>1, <1>2, <2>2, <2>3 DEF InModem, Live
  <2>9. QED
    BY <2>1, <2>6, <2>7, <2>8, IdleMatch
<1>5. CASE CloseDone(TRUE)
  <2>1. /\ call.op = "close" /\ cmd = "CLOSE" /\ pc' = "idle"
        /\ used' = [used EXCEPT ![call.id] = FALSE]
        /\ sock' = [sock EXCEPT ![call.h] = Closed]
    BY <1>2, <1>5 DEF CloseDone, Return, IInv, CallSound
  <2>2. /\ call.id \in ModemIds /\ modem[call.id] = "free" /\ sock[call.h].id = call.id
        /\ \A h \in Handles : sock[h].id = call.id => h = call.h
    BY <1>1, <1>2, <2>1 DEF Ahead, IInv, CallSound, SlotsSound, Live
  <2>3. sock'[call.h].id = 0 /\ \A h \in Handles \ {call.h} : sock'[h] = sock[h]
    BY <1>2, <2>1 DEF Closed
  <2>4. 0 \notin ModemIds
    BY DEF ModemIds
  <2>5. \A i \in ModemIds : Has(i)' <=> Has(i) /\ i # call.id
    BY <1>2, <2>2, <2>3, <2>4 DEF Has
  <2>6. AllAgree'
    BY <1>1, <1>2, <2>2, <2>3, <2>4, <2>5 DEF AllAgree, Agree
  <2>7. Marked'
    BY <1>1, <1>2, <1>3, <2>1, <2>5 DEF Marked
  <2>8. InModem'
    BY <1>1, <1>2, <2>2, <2>3 DEF InModem, Live
  <2>9. QED
    BY <2>1, <2>6, <2>7, <2>8, IdleMatch
<1>6. CASE ConnectDone(TRUE) \/ SendtoConnected(TRUE)
  <2>1. /\ call.op \in {"connect", "sendto"} /\ cmd = "CONN" /\ pc' \in {"idle", "tx"} /\ used' = used
        /\ \/ sock' = [sock EXCEPT ![call.h].connected = TRUE]
           \/ sock' = Connected(sock, call.h, call.addr)
    BY <1>2, <1>6 DEF ConnectDone, SendtoConnected, Return, BeginSend, Begin, IInv, CallSound, Connected
  <2>2. /\ call.id \in ModemIds /\ modem[call.id] = "connected" /\ sock[call.h].id = call.id
        /\ \A h \in Handles : sock[h].id = call.id => h = call.h
    BY <1>1, <1>2, <2>1 DEF Ahead, IInv, CallSound, SlotsSound, Live
  <2>3. /\ sock'[call.h].id = call.id /\ sock'[call.h].connected = TRUE
        /\ \A h \in Handles \ {call.h} : sock'[h] = sock[h]
    <3>1. CASE sock' = [sock EXCEPT ![call.h].connected = TRUE]
      BY <1>2, <2>2, <3>1 DEF SockType
    <3>2. CASE sock' = Connected(sock, call.h, call.addr)
      BY <1>2, <2>2, <3>2 DEF SockType, Connected
    <3>3. QED
      BY <2>1, <3>1, <3>2
  <2>5. \A i \in ModemIds : Has(i)' <=> Has(i)
    BY <1>2, <2>2, <2>3 DEF Has
  <2>6. AllAgree'
    <3>1. Has(call.id)
      BY <1>2, <2>2 DEF Has
    <3>2. QED
      BY <1>1, <1>2, <2>2, <2>3, <2>5, <3>1 DEF AllAgree, Agree
  <2>7. Marked'
    BY <1>1, <1>3, <2>1, <2>5 DEF Marked
  <2>8. InModem'
    BY <1>1, <1>2, <2>2, <2>3 DEF InModem, Live
  <2>9. QED
    BY <2>1, <2>6, <2>7, <2>8, IdleMatch
<1>7. CASE WriteDone \/ SendtoClosed(TRUE)
  BY <1>7 DEF WriteDone, SendtoClosed
<1>8. QED
  BY <1>4, <1>5, <1>6, <1>7 DEF Done
-----------------------------------------------------------------------------
(* Every step keeps driver and modem in step. *)

LEMMA CallTurn ==
  ASSUME IInv, Turn, Calls
  PROVE  /\ Turn' /\ (Clean => Clean') /\ (~moved' /\ (~moved => Match) => Match')
         /\ pc' \in {"idle", "tx"}
<1>1. /\ pc = "idle" /\ pc' \in {"idle", "tx"} /\ UNCHANGED <<sock, cmds, wire, lines, modem, moved>>
      /\ \/ used' = used /\ (pc' # "idle" => call'.op # "open")
         \/ \E h \in Handles : SocketOpen(h)
  <2> USE DEF Call, link, Begin, Return, BeginSend
  <2>1. PICK h \in Handles :
          \/ SocketOpen(h) \/ SocketOpenNoSlot(h) \/ SocketClose(h)
          \/ \E a \in Addrs : SocketConnect(h, a)
          \/ \E n \in 0 .. MaxChunks : SocketSend(h, n)
          \/ \E a \in Addrs, n \in 0 .. MaxChunks : SocketSendto(h, a, n)
    BY Zenon DEF Calls
  <2>2. CASE SocketOpen(h)
    BY <2>2 DEF SocketOpen
  <2>3. CASE SocketOpenNoSlot(h)
    BY <2>3 DEF SocketOpenNoSlot
  <2>4. CASE SocketClose(h)
    BY <2>4 DEF SocketClose
  <2>5. CASE \E a \in Addrs : SocketConnect(h, a)
    BY <2>5 DEF SocketConnect
  <2>6. CASE \E n \in 0 .. MaxChunks : SocketSend(h, n)
    BY <2>6 DEF SocketSend
  <2>7. CASE \E a \in Addrs, n \in 0 .. MaxChunks : SocketSendto(h, a, n)
    <3>1. PICK a \in Addrs, n \in 0 .. MaxChunks : SocketSendto(h, a, n)
      BY <2>7
    <3>2. sock[h].connected \in BOOLEAN
      BY DEF IInv, TypeOK, DriverTypeOK
    <3>3. Call("sendto", h, sock[h].id, a) /\ UNCHANGED <<used, moved>>
      BY <3>1 DEF SocketSendto
    <3>4. BeginSend(n) \/ \E kind \in {"CONN", "CLOSE"} : Begin(kind)
      BY <3>1, <3>2 DEF SocketSendto
    <3>5. QED
      BY <3>3, <3>4
  <2>8. QED
    BY <2>1, <2>2, <2>3, <2>4, <2>5, <2>6, <2>7
<1>2. Turn' /\ (Clean => Clean')
  BY <1>1 DEF Turn, Silent, Clean
<1>3. ASSUME ~moved', ~moved => Match PROVE Match'
  <2>1. Match /\ AllAgree /\ InModem /\ Marked
    BY <1>1, <1>3 DEF Match, AllAgree, InModem
  <2>2. AllAgree' /\ InModem'
    BY <1>1, <2>1 DEF AllAgree, Agree, Has, InModem, Live
  <2>3. Marked'
    <3>1. CASE used' = used /\ (pc' # "idle" => call'.op # "open")
      BY <1>1, <2>1, <3>1 DEF Marked, Has
    <3>2. CASE \E h \in Handles : SocketOpen(h)
      <4>1. PICK h \in Handles, i \in Ids :
              /\ \A j \in 1 .. i - 1 : used[j]
              /\ Call("open", h, i, NoAddr) /\ used' = [used EXCEPT ![i] = TRUE]
              /\ pc' = "tx"
        BY <3>2 DEF SocketOpen, Begin
      <4>2. call'.op = "open" /\ call'.id = i /\ used \in [Ids -> BOOLEAN]
        BY <4>1 DEF Call, IInv, TypeOK, DriverTypeOK
      <4>3. \A j \in Ids : used'[j] <=> used[j] \/ j = i
        BY <4>1, <4>2
      <4>4. \A j \in 1 .. i - 1 : j \in Ids
        BY CountAssumption DEF Ids
      <4>5. QED
        BY <1>1, <2>1, <4>1, <4>2, <4>3, <4>4 DEF Marked, Has
    <3>3. QED
      BY <1>1, <3>1, <3>2
  <2>4. QED
    BY <1>1, <2>2, <2>3, IdleMatch
<1>4. QED
  BY <1>1, <1>2, <1>3

LEMMA TxTurn ==
  ASSUME IInv, Turn, Tx
  PROVE  Turn' /\ (~moved' /\ (~moved => Match) => Match')
<1>2. cmds = << >> /\ wire = << >>
  BY DEF Tx, Turn, Silent
<1>3. wire' = << >> /\ lines' = << >>
  BY <1>2 DEF Tx, Tear
<1>4. cmds' = <<TheCmd>>
  <2>1. Len(cmds) < MaxCmds
    BY <1>2, CountAssumption
  <2>2. QED
    BY <1>2, <2>1 DEF Tx, TheCmd
<1>5. /\ pc' = FirstRead /\ UNCHANGED <<cmd, call, sock, used, modem, moved>>
      /\ FirstRead \in {"scan", "rx"} /\ pc = "tx"
  BY DEF Tx, FirstRead, Scans
<1>6. Due' = << >> /\ cmds' # << >>
  <2>1. << >> \o << >> = << >>
    OBVIOUS
  <2>2. QED
    BY <1>3, <1>4, <2>1 DEF Due
<1>7. Turn'
  BY <1>4, <1>5, <1>6 DEF Turn, Waiting, TheCmd, FirstRead, Scans
<1>8. ASSUME Match PROVE Match'
  <2>1. ~Refused' /\ \A n : ~Answered(n)'
    BY <1>6 DEF Refused, Answered
  <2>2. \A i \in ModemIds : Agree(i)'
    BY <1>5, <1>8 DEF Match, Agree, Has
  <2>3. Marked' /\ \A h \in Handles : Live(h)' => sock'[h].id \in ModemIds
    BY <1>5, <1>8 DEF Match, Marked, Has, Live
  <2>4. QED
    BY <2>1, <2>2, <2>3 DEF Match
<1>9. QED
  BY <1>5, <1>7, <1>8

\* scan() finds what it looks for, and rx("OK") is next.
LEMMA ScanTurn ==
  ASSUME IInv, Turn, ScanMatch
  PROVE  Turn' /\ (~moved' /\ (~moved => Match) => Match')
<1>1. /\ pc = "scan" /\ ReadLine /\ Judged.kind = cmd /\ got' = Judged.n /\ pc' = "rx"
      /\ UNCHANGED <<used, sock, call, cmd, moved>>
  BY DEF ScanMatch
<1>2. cmd # "other" /\ cmd # "OK"
  BY <1>1 DEF IInv, CallSound
<1>3. cmds' = << >> /\ modem' = modem /\ Due' = <<Ok>> /\ Scans
  BY <1>1, <1>2, ReadTurn DEF Other, Ok, Line
<1>4. PICK n \in Nat : Answered(n) /\ got' = n
  BY <1>1, <1>2, ReadTurn DEF Other, Ok, Line
<1>5. \A m : Answered(m)' <=> m = n
  BY <1>1, <1>3, <1>4 DEF Answered, Scans
<1>6. Turn' /\ Answered(n)'
  BY <1>1, <1>5 DEF Turn
<1>7. ASSUME Match PROVE Match'
  <2>1. ~Refused'
    BY <1>3 DEF Refused, Ok, Other, Line
  <2>2. \A i \in ModemIds : Agree(i)' <=> Agree(i)
    BY <1>1, <1>3 DEF Agree, Has
  <2>3. Marked' /\ \A h \in Handles : Live(h)' => sock'[h].id \in ModemIds
    BY <1>1, <1>3, <1>7 DEF Match, Marked, Has, Live
  <2>4. Ahead(n)'
    <3>1. Ahead(n)
      BY <1>1, <1>4, <1>7 DEF Match
    <3>2. QED
      BY <1>1, <1>3, <2>2, <3>1 DEF Ahead
  <2>5. (\A i \in ModemIds : Agree(i)') \/ \A i \in ModemIds \ {call'.id} : Agree(i)'
    BY <1>1, <1>7, <2>2 DEF Match
  <2>6. QED
    BY <1>1, <1>5, <1>6, <2>1, <2>3, <2>4, <2>5 DEF Match
<1>8. QED
  BY <1>1, <1>6, <1>7

\* Every other line ends the exchange, and is the last of its answer.
LEMMA EndTurn ==
  ASSUME IInv, IInv', Turn, ScanMismatch \/ RxMatch \/ RxMismatch
  PROVE  Turn' /\ Clean' /\ (~moved' /\ (~moved => Match) => Match')
<1>1. /\ ReadLine /\ pc \in {"scan", "rx"} /\ (Fail \/ Succeed)
      /\ \/ pc = "scan" /\ Judged.kind # cmd /\ Fail
         \/ pc = "rx" /\ Judged.kind = "OK" /\ Succeed
         \/ pc = "rx" /\ Judged.kind # "OK" /\ Fail
  BY Zenon DEF ScanMismatch, RxMatch, RxMismatch
<1>2. /\ cmds' = << >> /\ modem' = modem
      /\ \/ Refused /\ Due' = << >> /\ Fail
         \/ \E n \in Nat : Answered(n) /\ (Scans => n = got) /\ Due' = << >> /\ Succeed
  BY <1>1, ReadTurn DEF Other, Ok, Line
<1>3. pc' \in {"idle", "tx"} /\ call' = call
  BY <1>1, EndRests
<1>4. Turn' /\ Clean'
  BY <1>2, <1>3, AtRest
<1>5. moved => moved'
  <2>1. ASSUME NEW ok, Done(ok) PROVE moved => moved'
    BY <2>1, Zenon DEF Done, OpenDone, CloseDone, ConnectDone, WriteDone, SendtoClosed,
                       SendtoConnected
  <2>2. CASE Fail
    BY <2>1, <2>2 DEF Fail
  <2>3. CASE Succeed
    BY <2>1, <2>2, <2>3 DEF Succeed
  <2>4. QED
    BY <1>1, <2>2, <2>3
<1>6. ASSUME ~moved', Match PROVE Match'
  <2>1. CASE Refused /\ Fail
    <3>1. AllAgree
      BY <1>6, <2>1 DEF Match, AllAgree, Refused, Answered, Ok, Other, Line
    <3>2. FALSE \in BOOLEAN
      OBVIOUS
    <3>3. QED
      BY <1>1, <1>2, <1>6, <2>1, <3>1, <3>2, EndSame
  <2>2. ASSUME NEW n \in Nat, Answered(n), Scans => n = got, Succeed PROVE Match'
    <3>1. Ahead(n)
      BY <1>1, <1>6, <2>2 DEF Match
    <3>2. CASE cmd = "WRITE"
      <4>1. AllAgree
        BY <3>1, <3>2 DEF Ahead, AllAgree
      <4>2. (Done(TRUE) \/ Fail) /\ TRUE \in BOOLEAN
        BY <2>2, <3>2 DEF Succeed
      <4>3. QED
        BY <1>1, <1>2, <1>6, <3>2, <4>1, <4>2, EndSame
    <3>3. CASE cmd # "WRITE"
      <4>1. Done(TRUE)
        <5>1. CASE cmd = "CREAT"
          <6>1. Done(got = call.id) /\ got = call.id
            BY <2>2, <3>1, <5>1 DEF Succeed, Ahead, Scans
          <6>2. (got = call.id) = TRUE
            BY <6>1
          <6>3. QED
            BY <6>1, <6>2
        <5>2. CASE cmd # "CREAT"
          BY <2>2, <3>3, <5>2 DEF Succeed
        <5>3. QED
          BY <5>1, <5>2
      <4>2. QED
        BY <1>1, <1>2, <1>6, <2>2, <3>3, <4>1, EndAhead
    <3>4. QED
      BY <3>2, <3>3
  <2>3. QED
    BY <1>2, <2>1, <2>2
<1>7. QED
  BY <1>4, <1>5, <1>6

\* The modem does what it is told, or cannot.  It numbers a socket as open() expects:
\* all lower slots are those of open sockets.
LEMMA ExecTurn ==
  ASSUME IInv, Turn, Exec
  PROVE  Turn' /\ (~moved' /\ (~moved => Match) => Match')
<1>1. /\ cmds # << >> /\ cmds' = Tail(cmds) /\ wire = << >>
      /\ UNCHANGED <<used, sock, call, pc, cmd, got, moved, lines>>
      /\ \/ Able(Head(cmds)) /\ Obey(Head(cmds))
         \/ ~Able(Head(cmds)) /\ wire' = <<Other>> /\ UNCHANGED modem
  BY Zenon DEF Exec, driver
<1>2. /\ lines \in Seq(LineType) /\ wire \in Seq(LineType)
      /\ modem \in [ModemIds -> {"free", "created", "connected"}]
  BY LinkFacts
<1>3. pc \in {"scan", "rx"} /\ Waiting
  BY <1>1 DEF Turn, Silent, Waiting, Refused, Answered, IInv, TypeOK, DriverTypeOK
<1>4. /\ Head(cmds) = TheCmd /\ cmds' = << >> /\ lines = << >> /\ pc = FirstRead
      /\ TheCmd.kind = cmd /\ TheCmd.id = call.id
  BY <1>1, <1>2, <1>3, DueEmpty DEF Waiting, Due, TheCmd
<1>5. Due' = wire'
  <2>1. PICK t : wire' = t
    OBVIOUS
  <2>2. wire' \in Seq(LineType)
    BY LineStep DEF IInv, TypeOK, LinkTypeOK, LineType
  <2>3. << >> \o wire' = wire'
    BY <2>2
  <2>4. QED
    BY <1>1, <1>4, <2>3 DEF Due
<1>6. cmd \in Kinds /\ call.id \in Ids /\ (cmd = "CREAT" => call.op = "open")
  BY <1>3 DEF IInv, CallSound, Kinds
<1>7. CASE Obey(TheCmd) /\ Able(TheCmd)
  <2>1. PICK n \in Nat : /\ Due' = IF Scans THEN <<Line(cmd, n), Ok>> ELSE <<Ok>>
                         /\ cmd = "CREAT" => /\ n \in ModemIds /\ LowestFree(n)
                                             /\ modem' = [modem EXCEPT ![n] = "created"]
                         /\ cmd = "CONN" => modem' = [modem EXCEPT ![call.id] = "connected"]
                         /\ cmd = "CLOSE" => modem' = [modem EXCEPT ![call.id] = "free"]
                         /\ cmd = "WRITE" => modem' = modem
    <3>1. CASE cmd = "CREAT"
      <4>1. PICK i \in ModemIds : /\ LowestFree(i) /\ modem' = [modem EXCEPT ![i] = "created"]
                                  /\ wire' = <<Line("CREAT", i), Line("OK", 0)>>
        BY <1>4, <1>7, <3>1 DEF Obey, Creates
      <4>2. i \in Nat
        BY DEF ModemIds
      <4>3. QED
        BY <1>5, <3>1, <4>1, <4>2 DEF Scans, Ok
    <3>2. CASE cmd = "WRITE"
      BY <1>4, <1>5, <1>7, <3>2 DEF Obey, Scans, Ok
    <3>3. CASE cmd \in {"CONN", "CLOSE"}
      BY <1>4, <1>5, <1>7, <3>3 DEF Obey, Sets, Scans, Ok, IInv, TypeOK, DriverTypeOK
    <3>4. QED
      BY <1>6, <3>1, <3>2, <3>3 DEF Kinds
  <2>2. Answered(n)' /\ \A m : Answered(m)' /\ Scans => m = n
    <3>1. \A m : Line(cmd, m) = Line(cmd, n) => m = n
      BY DEF Line
    <3>2. CASE Scans
      <4>1. pc = "scan" /\ Due' = <<Line(cmd, n), Ok>>
        BY <1>4, <2>1, <3>2 DEF FirstRead
      <4>2. QED
        BY <1>1, <1>4, <3>1, <3>2, <4>1 DEF Answered, Scans
    <3>3. CASE ~Scans
      BY <1>1, <1>4, <2>1, <3>3 DEF Answered, FirstRead, Scans
    <3>4. QED
      BY <3>2, <3>3
  <2>3. ~Refused'
    BY <2>1 DEF Refused, Ok, Other, Line
  <2>4. ASSUME Match PROVE Match'
    <3>1. AllAgree /\ InModem /\ Marked
      BY <1>1, <1>4, <2>4 DEF Match, AllAgree, InModem, Answered
    <3>2. InModem' /\ Marked'
      BY <1>1, <3>1 DEF InModem, Marked, Live, Has
    <3>3. \A i \in ModemIds : Has(i)' <=> Has(i)
      BY <1>1 DEF Has
    <3>4. CASE cmd = "CREAT"
      <4>1. n \in ModemIds /\ modem[n] = "free" /\ (\A j \in 1 .. n - 1 : modem[j] # "free")
        BY <2>1, <3>4 DEF LowestFree
      <4>2. ASSUME NEW j \in ModemIds, j < call.id PROVE modem[j] # "free"
        <5>1. j \in 1 .. call.id - 1 /\ j \in Ids
          BY <1>6, <4>2, CountAssumption DEF Ids, ModemIds
        <5>2. used[j]
          BY <1>3, <1>6, <3>1, <3>4, <5>1 DEF Marked
        <5>3. Has(j)
          BY <3>1, <4>2, <5>1, <5>2 DEF Marked
        <5>4. QED
          BY <3>1, <5>3 DEF AllAgree, Agree
      <4>3. call.id \in ModemIds
        BY <1>6, <4>1, <4>2, CountAssumption DEF Ids, ModemIds
      <4>4. modem[call.id] = "free"
        <5>1. ~Has(call.id)
          BY <1>3, <1>6, <3>4 DEF IInv, CallSound, Has
        <5>2. QED
          BY <1>2, <3>1, <4>3, <5>1 DEF AllAgree, Agree
      <4>5. n = call.id
        <5>1. ~(n < call.id)
          BY <4>1, <4>2
        <5>2. ~(call.id < n)
          BY <4>1, <4>3, <4>4, CountAssumption DEF ModemIds
        <5>3. QED
          BY <4>1, <4>3, <5>1, <5>2, CountAssumption DEF ModemIds
      <4>6. modem'[call.id] = "created" /\ \A i \in ModemIds \ {call.id} : modem'[i] = modem[i]
        BY <1>2, <2>1, <3>4, <4>5
      <4>7. Ahead(n)'
        BY <1>1, <3>4, <4>3, <4>5, <4>6 DEF Ahead
      <4>8. \A i \in ModemIds \ {call'.id} : Agree(i)'
        BY <1>1, <3>1, <3>3, <4>6 DEF AllAgree, Agree
      <4>9. QED
        BY <1>1, <1>3, <2>2, <2>3, <3>2, <3>4, <4>7, <4>8 DEF Match, InModem, Scans
    <3>5. CASE cmd \in {"CONN", "CLOSE"}
      <4>1. call.id \in ModemIds
        BY <1>4, <1>7, <3>5 DEF Able
      <4>2. /\ modem'[call.id] = IF cmd = "CONN" THEN "connected" ELSE "free"
            /\ \A i \in ModemIds \ {call.id} : modem'[i] = modem[i]
        BY <1>2, <2>1, <3>5, <4>1
      <4>3. \A m : Ahead(m)'
        BY <1>1, <3>5, <4>1, <4>2 DEF Ahead
      <4>4. \A i \in ModemIds \ {call'.id} : Agree(i)'
        BY <1>1, <3>1, <3>3, <4>2 DEF AllAgree, Agree
      <4>5. QED
        BY <1>1, <1>3, <2>2, <2>3, <3>2, <4>3, <4>4 DEF Match, InModem
    <3>6. CASE cmd = "WRITE"
      <4>1. modem' = modem
        BY <2>1, <3>6
      <4>2. AllAgree'
        BY <1>1, <3>1, <3>3, <4>1 DEF AllAgree, Agree
      <4>3. \A m : Ahead(m)'
        BY <1>1, <3>6, <4>2 DEF Ahead, AllAgree
      <4>4. QED
        BY <2>2, <2>3, <3>2, <4>2, <4>3 DEF Match, InModem, AllAgree
    <3>7. QED
      BY <1>6, <3>4, <3>5, <3>6 DEF Kinds
  <2>5. QED
    BY <1>1, <1>3, <2>2, <2>4 DEF Turn
<1>8. CASE ~Able(TheCmd) /\ wire' = <<Other>> /\ UNCHANGED modem
  <2>1. Refused'
    BY <1>1, <1>4, <1>5, <1>8 DEF Refused, FirstRead, Scans
  <2>2. \A m : ~Answered(m)'
    BY <1>5, <1>8 DEF Answered, Ok, Other, Line
  <2>3. ASSUME Match PROVE Match'
    <3>1. AllAgree /\ InModem /\ Marked
      BY <1>1, <1>4, <2>3 DEF Match, AllAgree, InModem, Answered
    <3>2. InModem' /\ Marked' /\ AllAgree'
      BY <1>1, <1>8, <3>1 DEF InModem, Marked, Live, Has, AllAgree, Agree
    <3>3. ASSUME cmd = "CREAT" PROVE call.id \notin ModemIds
      <4>1. ~Has(call.id)
        BY <1>3, <1>6, <3>3 DEF IInv, CallSound, Has
      <4>2. \A i \in ModemIds : modem[i] # "free"
        BY <1>4, <1>8, <3>3 DEF Able
      <4>3. QED
        BY <3>1, <4>1, <4>2 DEF AllAgree, Agree
    <3>4. cmd # "CLOSE"
      <4>1. SUFFICES ASSUME cmd = "CLOSE" PROVE FALSE
        OBVIOUS
      <4>2. sock[call.h].id = call.id /\ call.h \in Handles
        BY <1>3, <4>1 DEF IInv, CallSound, TypeOK, DriverTypeOK
      <4>3. call.id \in ModemIds /\ Has(call.id)
        BY <1>6, <3>1, <4>2 DEF InModem, Live, Has, Ids
      <4>4. modem[call.id] # "free"
        BY <3>1, <4>3 DEF AllAgree, Agree
      <4>5. modem[call.id] \in {"created", "connected"}
        BY <1>2, <4>3, <4>4
      <4>6. QED
        BY <1>4, <1>8, <4>1, <4>3, <4>5 DEF Able, Needed
    <3>5. QED
      BY <1>1, <2>2, <3>2, <3>3, <3>4 DEF Match, InModem, AllAgree
  <2>4. QED
    BY <1>1, <1>3, <2>1, <2>3 DEF Turn
<1>9. QED
  BY <1>1, <1>4, <1>7, <1>8

\* A line that arrives is no less due.
LEMMA DeliverTurn ==
  ASSUME IInv, Turn, Deliver \/ UNCHANGED vars
  PROVE  Turn' /\ (Clean => Clean') /\ (~moved' /\ (~moved => Match) => Match')
<1>1. UNCHANGED <<used, sock, call, pc, cmd, got, moved, cmds, modem>>
  BY DEF Deliver, driver, link, vars
<1>2. Due' = Due
  BY LinkFacts, DueDeliver DEF Deliver, Due, vars, link
<1>3. (Waiting' <=> Waiting) /\ (Refused' <=> Refused) /\ \A n : Answered(n)' <=> Answered(n)
  BY <1>1, <1>2 DEF Waiting, TheCmd, FirstRead, Scans, Refused, Answered
<1>4. Turn' /\ (Clean => Clean')
  BY <1>1, <1>2, <1>3 DEF Turn, Silent, Clean, Deliver, vars, link
<1>5. ASSUME Match PROVE Match'
  <2>1. (\A i \in ModemIds : Agree(i)' <=> Agree(i)) /\ \A n : Ahead(n)' <=> Ahead(n)
    BY <1>1 DEF Agree, Ahead, Has
  <2>2. Marked' /\ \A h \in Handles : Live(h)' => sock'[h].id \in ModemIds
    BY <1>1, <1>5 DEF Match, Marked, Has, Live
  <2>3. QED
    BY <1>1, <1>3, <1>5, <2>1, <2>2 DEF Match
<1>6. QED
  BY <1>1, <1>4, <1>5

\* A fault is counted, and nothing else changes the count.
LEMMA FaultsStep == ASSUME [Next]_vars PROVE faults' = faults \/ Trouble
BY DEF Next, Calls, Parser, SocketOpen, SocketOpenNoSlot, SocketClose, SocketConnect,
       SocketSend, SocketSendto, Call, Tx, SkipURC, ScanMatch, ScanMismatch, ScanTimeout,
       RxMatch, RxMismatch, RxTimeout, ReadLine, Timeout, Exec, Refuse, Notify, Deliver, vars

\* Until the next fault every step keeps the exchange in turn, and driver and modem in
\* step.
LEMMA StepTurn ==
  ASSUME IInv, IInv', Turn, [Next]_vars, faults' = faults
  PROVE  Turn' /\ (Clean => Clean') /\ (~moved' /\ (~moved => Match) => Match')
<1>1. ~Trouble
  BY LinkFacts DEF Trouble
<1>2. CASE Calls
  BY <1>2, CallTurn
<1>3. CASE Parser
  <2>1. CASE Tx
    <3>1. pc' # "idle"
      BY <2>1 DEF Tx
    <3>2. QED
      BY <2>1, <3>1, TxTurn DEF Clean
  <2>2. CASE SkipURC
    BY <2>2, NoURC
  <2>3. CASE ScanMatch
    <3>1. pc' # "idle"
      BY <2>3 DEF ScanMatch
    <3>2. QED
      BY <2>3, <3>1, ScanTurn DEF Clean
  <2>4. CASE ScanMismatch \/ RxMatch \/ RxMismatch
    BY <2>4, EndTurn
  <2>5. CASE ScanTimeout \/ RxTimeout
    BY <2>5, NeverLate DEF ScanTimeout, RxTimeout
  <2>6. QED
    BY <1>3, <2>1, <2>2, <2>3, <2>4, <2>5 DEF Parser
<1>4. CASE Exec
  <2>1. lines' = lines /\ pc' = pc
    BY <1>4 DEF Exec, driver
  <2>2. QED
    BY <1>4, <2>1, ExecTurn DEF Clean
<1>5. CASE Deliver \/ UNCHANGED vars
  BY <1>5, DeliverTurn
<1>6. CASE Refuse \/ Notify
  BY <1>1, <1>6 DEF Refuse, Notify
<1>7. QED
  BY <1>2, <1>3, <1>4, <1>5, <1>6 DEF Next

LEMMA StaysOn ==
  ASSUME IInv, IInv', [Next]_vars, NEW f \in 0 .. MaxFaults
  PROVE  /\ InLockStep(f) => InLockStep(f)'
         /\ StayInStep(f) => StayInStep(f)'
<1>1. faults \in Nat /\ f \in Nat /\ (faults' = faults \/ faults' = faults + 1)
  BY LinkFacts, FaultsStep, CountAssumption DEF Trouble
<1>2. CASE faults' # faults
  BY <1>1, <1>2 DEF InLockStep, StayInStep
<1>3. CASE faults' = faults
  BY <1>1, <1>3, StepTurn DEF InLockStep, StayInStep
<1>4. QED
  BY <1>2, <1>3

\* An exchange that begins when nothing is under way, whatever has been left unread, and
\* every exchange after it, reads its own reply and no other until the next fault.
THEOREM SocketsLockStep == Spec => LockStep
<1>1. ASSUME NEW f \in 0 .. MaxFaults
      PROVE  Spec => [](faults = f /\ pc = "tx" /\ Silent => [](faults = f /\ pc = "idle" => Quiet))
  <2>1. faults = f /\ pc = "tx" /\ Silent => InLockStep(f)
    BY DEF InLockStep, Turn, Clean
  <2>2. IInv /\ IInv' /\ InLockStep(f) /\ [Next]_vars => InLockStep(f)'
    BY StaysOn
  <2>3. InLockStep(f) => (faults = f /\ pc = "idle" => Quiet)
    BY CountAssumption DEF InLockStep, Turn, Silent, Clean, Quiet
  <2>4. QED
    BY <2>1, <2>2, <2>3, Invariance, PTL DEF Spec
<1>2. QED
  BY <1>1 DEF LockStep

\* And once driver and modem agree between two calls on the sockets there are, by their
\* numbers, and on which are connected, they go on agreeing until the next fault, as long
\* as no sendto() moves a socket: a fault that a retry has mended leaves no trace.
THEOREM SocketsInStep == Spec => InStep
<1>1. ASSUME NEW f \in 0 .. MaxFaults
      PROVE  Spec => [](faults = f /\ pc = "idle" /\ Silent /\ InAgreement
                          => [](faults = f /\ pc = "idle" /\ ~moved => InAgreement))
  <2>1. 0 \notin ModemIds
    BY DEF ModemIds
  <2>2. faults = f /\ pc = "idle" /\ Silent /\ InAgreement => StayInStep(f)
    BY <2>1 DEF StayInStep, Turn, Match, Marked, Agree, Has, Live, InAgreement
  <2>3. IInv /\ IInv' /\ StayInStep(f) /\ [Next]_vars => StayInStep(f)'
    BY StaysOn
  <2>4. StayInStep(f) => (faults = f /\ pc = "idle" /\ ~moved => InAgreement)
    <3>1. SUFFICES ASSUME Match, pc = "idle" PROVE InAgreement
      BY CountAssumption DEF StayInStep
    <3>2. \A i \in ModemIds : Agree(i)
      BY <3>1 DEF Match
    <3>3. Marked /\ \A h \in Handles : Live(h) => sock[h].id \in ModemIds
      BY <3>1 DEF Match
    <3>4. QED
      BY <3>1, <3>2, <3>3 DEF InAgreement, Agree, Has, Marked
  <2>5. QED
    BY <2>2, <2>3, <2>4, Invariance, PTL DEF Spec
<1>2. QED
  BY <1>1 DEF InStep
-----------------------------------------------------------------------------
(* A socket that the driver has left open on the modem. *)

\* No open() is about to be told the number of socket i.
Elsewhere(i) == cmd = "CREAT" => \A n \in Nat : Answered(n) => n # i

\* The line is in turn and makes no more faults, and nobody holds socket i.
Abandoned(i) == faults = MaxFaults /\ Turn /\ Orphan(i) /\ Elsewhere(i)

\* What a call does to the ids of the sockets when it ends.
LEMMA EndIds ==
  ASSUME IInv, pc # "idle", NEW ok \in BOOLEAN, Done(ok), NEW h \in Handles
  PROVE  \/ sock'[h].id = sock[h].id
         \/ sock'[h].id = 0
         \/ call.op = "open" /\ cmd = "CREAT" /\ ok /\ sock'[h].id = call.id
<1>1. /\ sock \in [Handles -> SockType] /\ call.h \in Handles /\ call.id \in Ids
      /\ call.addr \in Addrs \cup {NoAddr} /\ (call.op = "open" => cmd = "CREAT")
  BY DEF IInv, TypeOK, DriverTypeOK, SockType, CallSound
<1>2. CASE OpenDone(ok)
  <2>1. /\ call.op = "open"
        /\ \/ sock' = sock
           \/ ok /\ sock' = [sock EXCEPT ![call.h] = [Closed EXCEPT !.id = call.id]]
    BY <1>2, Zenon DEF OpenDone
  <2>2. QED
    BY <1>1, <2>1 DEF Closed
<1>3. CASE CloseDone(ok)
  BY <1>1, <1>3 DEF CloseDone, Closed
<1>4. CASE ConnectDone(ok)
  <2>1. sock' = sock \/ sock' = [sock EXCEPT ![call.h].connected = TRUE]
    BY <1>4, Zenon DEF ConnectDone
  <2>2. QED
    BY <1>1, <2>1 DEF SockType
<1>5. CASE WriteDone
  BY <1>5 DEF WriteDone
<1>6. CASE SendtoClosed(ok)
  <2>1. sock' = sock \/ sock' = [sock EXCEPT ![call.h].connected = FALSE]
    BY <1>6, Zenon DEF SendtoClosed
  <2>2. QED
    BY <1>1, <2>1 DEF SockType
<1>7. CASE SendtoConnected(ok)
  <2>1. sock' = sock \/ sock' = Connected(sock, call.h, call.addr)
    BY <1>7, Zenon DEF SendtoConnected, Connected
  <2>2. QED
    BY <1>1, <2>1 DEF SockType, Connected
<1>8. QED
  BY <1>2, <1>3, <1>4, <1>5, <1>6, <1>7 DEF Done

\* An exchange that ends gives socket i to nobody: the id that open() is told is
\* another, and it wants the one it is told.
LEMMA EndAbandoned ==
  ASSUME IInv, IInv', NEW i \in ModemIds, Abandoned(i), faults' = faults,
         ScanMismatch \/ RxMatch \/ RxMismatch
  PROVE  Abandoned(i)'
<1>1. /\ ReadLine /\ pc \in {"scan", "rx"} /\ (Fail \/ (pc = "rx" /\ Judged = Ok /\ Succeed))
  <2>1. ReadLine /\ (Fail \/ (pc = "rx" /\ Judged.kind = "OK" /\ Succeed))
    BY Zenon DEF ScanMismatch, RxMatch, RxMismatch
  <2>2. pc \in {"scan", "rx"}
    BY DEF ScanMismatch, RxMatch, RxMismatch
  <2>3. ASSUME pc = "rx", Judged.kind = "OK" PROVE Judged = Ok
    BY <2>1, <2>2, <2>3, ReadTurn DEF Abandoned, Other, Line
  <2>4. QED
    BY <2>1, <2>2, <2>3
<1>2. Turn' /\ modem' = modem
  BY <1>1, EndTurn, ReadTurn DEF Abandoned
<1>3. pc' \in {"idle", "tx"}
  BY <1>1, EndRests
<1>4. Elsewhere(i)'
  BY <1>3 DEF Elsewhere, Answered
<1>5. i # 0 /\ \A h \in Handles : sock[h].id # i
  BY DEF Abandoned, Orphan, ModemIds
<1>6. ASSUME NEW ok \in BOOLEAN, Done(ok), cmd = "CREAT" /\ ok => call.id # i
      PROVE  \A h \in Handles : sock'[h].id # i
  BY <1>1, <1>5, <1>6, EndIds
<1>7. \A h \in Handles : sock'[h].id # i
  <2>1. CASE Fail
    BY <1>5, <1>6, <2>1 DEF Fail
  <2>2. CASE pc = "rx" /\ Judged = Ok /\ Succeed
    <3>1. PICK n \in Nat : Answered(n) /\ (Scans => n = got)
      BY <1>1, <2>2, ReadTurn DEF Abandoned, Ok, Other, Line
    <3>2. CASE cmd = "CREAT"
      <4>1. got # i
        BY <3>1, <3>2 DEF Abandoned, Elsewhere, Scans
      <4>2. Done(got = call.id) /\ (got = call.id) \in BOOLEAN
        BY <2>2, <3>2 DEF Succeed
      <4>3. QED
        BY <1>6, <4>1, <4>2
    <3>3. CASE cmd # "CREAT"
      <4>1. Fail \/ Done(TRUE)
        BY <2>2, <3>3 DEF Succeed
      <4>2. QED
        BY <1>6, <2>1, <3>3, <4>1
    <3>4. QED
      BY <3>2, <3>3
  <2>3. QED
    BY <1>1, <2>1, <2>2
<1>8. QED
  BY <1>2, <1>4, <1>7 DEF Abandoned, Orphan

\* The modem is told to do something with another socket, and gives a new socket
\* another number.
LEMMA ExecAbandoned ==
  ASSUME IInv, NEW i \in ModemIds, Abandoned(i), faults' = faults, Exec
  PROVE  Abandoned(i)'
<1>1. /\ cmds # << >> /\ wire = << >>
      /\ UNCHANGED <<used, sock, call, pc, cmd, got, lines>>
      /\ \/ Able(Head(cmds)) /\ Obey(Head(cmds))
         \/ ~Able(Head(cmds)) /\ wire' = <<Other>> /\ UNCHANGED modem
  BY Zenon DEF Exec, driver
<1>2. Turn'
  BY ExecTurn DEF Abandoned
<1>3. pc \in {"scan", "rx"} /\ Waiting
  BY <1>1 DEF Abandoned, Turn, Silent, Waiting, Refused, Answered, IInv, TypeOK, DriverTypeOK
<1>4. Head(cmds) = TheCmd /\ TheCmd.kind = cmd /\ TheCmd.id = call.id
  BY <1>3 DEF Waiting, TheCmd
<1>5. /\ modem \in [ModemIds -> {"free", "created", "connected"}] /\ modem[i] # "free"
      /\ \A h \in Handles : sock[h].id # i
  BY LinkFacts DEF Abandoned, Orphan
<1>6. cmd # "CREAT" => call.id # i
  BY <1>3, <1>5 DEF IInv, CallSound, TypeOK, DriverTypeOK
<1>7. /\ lines = << >> /\ cmd \in Kinds /\ wire' \in Seq(LineType)
      /\ lines \in Seq(LineType) /\ wire \in Seq(LineType)
  <2>1. lines \in Seq(LineType) /\ wire \in Seq(LineType) /\ wire' \in Seq(LineType)
    BY LinkFacts, LineStep DEF IInv, TypeOK, LinkTypeOK, LineType
  <2>2. QED
    BY <1>3, <2>1, DueEmpty DEF Waiting, Due, IInv, CallSound, Kinds
<1>8. Due' = wire'
  <2>1. << >> \o wire' = wire'
    BY <1>7
  <2>2. QED
    BY <1>1, <1>7, <2>1 DEF Due
<1>9. CASE Able(TheCmd) /\ Obey(TheCmd)
  <2>1. CASE cmd = "CREAT"
    <3>1. PICK n \in ModemIds : /\ LowestFree(n) /\ modem' = [modem EXCEPT ![n] = "created"]
                                /\ wire' = <<Line("CREAT", n), Line("OK", 0)>>
      BY <1>4, <1>9, <2>1 DEF Obey, Creates
    <3>2. n # i
      BY <1>5, <3>1 DEF LowestFree
    <3>3. modem'[i] # "free"
      BY <1>5, <3>1, <3>2
    <3>4. ASSUME NEW m \in Nat, Answered(m)' PROVE m = n
      <4>1. pc' = "scan" /\ cmd' = cmd
        BY <1>1, <1>3, <2>1 DEF Waiting, FirstRead, Scans
      <4>2. <<Line("CREAT", n), Line("OK", 0)>> = <<Line(cmd', m), Ok>>
        BY <1>8, <3>1, <3>4, <4>1 DEF Answered
      <4>3. QED
        BY <4>1, <4>2, <2>1 DEF Line
    <3>5. Elsewhere(i)'
      BY <3>2, <3>4 DEF Elsewhere
    <3>6. QED
      BY <1>1, <1>2, <1>5, <3>3, <3>5 DEF Abandoned, Orphan
  <2>2. CASE cmd # "CREAT"
    <3>1. modem' = modem \/ \E state \in {"connected", "free"} :
                              modem' = [modem EXCEPT ![call.id] = state]
      BY <1>4, <1>9, <2>2 DEF Obey, Sets
    <3>2. modem'[i] # "free"
      BY <1>5, <1>6, <2>2, <3>1
    <3>3. QED
      BY <1>1, <1>2, <1>5, <2>2, <3>2 DEF Abandoned, Orphan, Elsewhere
  <2>3. QED
    BY <2>1, <2>2
<1>10. CASE wire' = <<Other>> /\ UNCHANGED modem
  <2>1. \A n : ~Answered(n)'
    BY <1>8, <1>10 DEF Answered, Ok, Other, Line
  <2>2. QED
    BY <1>1, <1>2, <1>5, <1>10, <2>1 DEF Abandoned, Orphan, Elsewhere
<1>11. QED
  BY <1>1, <1>4, <1>9, <1>10

LEMMA AbandonedStep ==
  ASSUME IInv, IInv', NEW i \in ModemIds, Abandoned(i), [Next]_vars
  PROVE  Abandoned(i)'
<1>1. Turn /\ faults = MaxFaults /\ Orphan(i) /\ Elsewhere(i)
  BY DEF Abandoned
<1>2. faults' = faults /\ ~Trouble
  BY <1>1, FaultsStep, CountAssumption DEF Trouble
<1>3. ASSUME Turn', UNCHANGED <<sock, modem>>, Elsewhere(i)' PROVE Abandoned(i)'
  BY <1>1, <1>2, <1>3 DEF Abandoned, Orphan
<1>4. CASE Calls
  <2>1. Turn' /\ UNCHANGED <<sock, modem>> /\ pc' \notin {"scan", "rx"}
    <3>1. UNCHANGED <<sock, modem>>
      BY <1>4 DEF Calls, SocketOpen, SocketOpenNoSlot, SocketClose, SocketConnect, SocketSend,
                  SocketSendto, Call
    <3>2. QED
      BY <1>1, <1>4, <3>1, CallTurn
  <2>2. QED
    BY <1>3, <2>1 DEF Elsewhere, Answered
<1>5. CASE Tx
  <2>1. Turn' /\ UNCHANGED <<sock, modem>>
    BY <1>1, <1>5, TxTurn DEF Tx
  <2>2. cmds' # << >>
    BY <1>5, <1>1, CountAssumption DEF Tx, Turn, Silent
  <2>3. QED
    BY <1>3, <2>1, <2>2 DEF Elsewhere, Answered
<1>6. CASE SkipURC
  BY <1>1, <1>6, NoURC
<1>7. CASE ScanMatch
  <2>1. Turn' /\ UNCHANGED <<sock, modem, cmd, call>>
    BY <1>1, <1>7, ScanTurn DEF ScanMatch, ReadLine
  <2>2. \E n \in Nat : Answered(n) /\ got' = n
    <3>1. cmd # "other" /\ cmd # "OK" /\ pc = "scan" /\ Judged.kind = cmd /\ got' = Judged.n /\ ReadLine
      BY <1>7 DEF ScanMatch, IInv, CallSound
    <3>2. QED
      BY <1>1, <3>1, ReadTurn DEF Other, Ok, Line
  <2>3. pc' = "rx"
    BY <1>7 DEF ScanMatch
  <2>4. Elsewhere(i)'
    BY <1>1, <2>1, <2>2, <2>3 DEF Elsewhere, Answered, Scans
  <2>5. QED
    BY <1>3, <2>1, <2>4
<1>8. CASE ScanMismatch \/ RxMatch \/ RxMismatch
  BY <1>2, <1>8, EndAbandoned
<1>9. CASE ScanTimeout \/ RxTimeout
  BY <1>1, <1>2, <1>9, NeverLate DEF ScanTimeout, RxTimeout
<1>10. CASE Exec
  BY <1>2, <1>10, ExecAbandoned
<1>11. CASE Deliver \/ UNCHANGED vars
  <2>1. Turn' /\ UNCHANGED <<sock, modem, pc, cmd, cmds, got>>
    BY <1>1, <1>11, DeliverTurn DEF Deliver, driver, link, vars
  <2>2. Due' = Due
    BY <1>11, LinkFacts, DueDeliver DEF Deliver, Due, vars, link
  <2>3. \A n : Answered(n)' <=> Answered(n)
    BY <2>1, <2>2 DEF Answered, Scans
  <2>4. QED
    BY <1>1, <1>3, <2>1, <2>3 DEF Elsewhere
<1>12. CASE Refuse \/ Notify
  BY <1>2, <1>12 DEF Refuse, Notify
<1>13. QED
  BY <1>4, <1>5, <1>6, <1>7, <1>8, <1>9, <1>10, <1>11, <1>12 DEF Next, Parser

\* A socket that the driver has left open on the modem, the line being quiet and
\* making no more faults, is never closed nor used again: the ids that the modem then
\* gives out are others, and no command names one that the driver does not hold.
THEOREM SocketsOrphan == Spec => OrphanForever
<1>1. ASSUME NEW i \in ModemIds
      PROVE  Spec => [](faults = MaxFaults /\ pc = "idle" /\ Quiet /\ Orphan(i) => []Orphan(i))
  <2>1. IInv /\ faults = MaxFaults /\ pc = "idle" /\ Quiet /\ Orphan(i) => Abandoned(i)
    <3>1. << >> \o << >> = << >>
      OBVIOUS
    <3>2. QED
      BY <3>1 DEF Abandoned, Quiet, Turn, Silent, Elsewhere, Answered
  <2>2. IInv /\ IInv' /\ Abandoned(i) /\ [Next]_vars => Abandoned(i)'
    BY AbandonedStep
  <2>3. Abandoned(i) => Orphan(i)
    BY DEF Abandoned
  <2>4. QED
    BY <2>1, <2>2, <2>3, Invariance, PTL DEF Spec
<1>2. QED
  BY <1>1 DEF OrphanForever
-----------------------------------------------------------------------------
(* How long a call can last. *)

\* The tx, scan and rx that one exchange takes when all its tries fail, and what is
\* left of the present try.
Cost(kind) == 3 * Tries[kind]
Stage == CASE pc = "tx" -> 3 [] pc = "scan" -> 2 [] OTHER -> 1

\* What the call still has to do after this exchange: send() its other chunks, and
\* sendto() to connect the socket and to send.
After ==
  CASE cmd = "WRITE" -> (left - 1) * Cost("WRITE")
    [] cmd = "CONN" /\ call.op = "sendto" -> left * Cost("WRITE")
    [] cmd = "CLOSE" /\ call.op = "sendto" -> Cost("CONN") + left * Cost("WRITE")
    [] OTHER -> 0

\* The steps that the call can still take.
Effort == 3 * (Tries[cmd] - tries) + Stage + After

\* No call can take more: a sendto() that closes, connects and sends all chunks.
MaxEffort == Cost("CLOSE") + Cost("CONN") + MaxChunks * Cost("WRITE")

\* An exchange is tried no more often than its loop allows.
TriesSound == pc # "idle" => tries <= Tries[cmd]

LEMMA Numbers ==
  ASSUME IInv, pc # "idle"
  PROVE  /\ cmd \in Kinds /\ tries \in 1 .. 3 /\ left \in 0 .. MaxChunks /\ MaxChunks \in Nat
         /\ cmd = "WRITE" => left > 0
         /\ Tries["CREAT"] = 3 /\ Tries["CONN"] = 3 /\ Tries["WRITE"] = 2 /\ Tries["CLOSE"] = 1
         /\ Cost("CONN") = 9 /\ Cost("WRITE") = 6 /\ Cost("CLOSE") = 3
BY CountAssumption DEF IInv, TypeOK, DriverTypeOK, CallSound, Kinds, Tries, Cost

LEMMA EffortBound ==
  ASSUME IInv, pc # "idle", TriesSound
  PROVE  Effort \in 1 .. MaxEffort
<1>1. After \in Int /\ 0 <= After
  BY Numbers DEF After
<1>2. Stage \in 1 .. 3
  BY DEF Stage
<1>3. CASE cmd = "CREAT"
  <2>1. After = 0
    BY <1>3 DEF After
  <2>2. QED
    BY <1>2, <1>3, <2>1, Numbers DEF Effort, MaxEffort, TriesSound
<1>4. CASE cmd = "CONN"
  <2>1. After <= left * 6
    BY <1>4, Numbers DEF After
  <2>2. QED
    BY <1>1, <1>2, <1>4, <2>1, Numbers DEF Effort, MaxEffort, TriesSound
<1>5. CASE cmd = "WRITE"
  <2>1. After = (left - 1) * 6
    BY <1>5, Numbers DEF After
  <2>2. QED
    BY <1>1, <1>2, <1>5, <2>1, Numbers DEF Effort, MaxEffort, TriesSound
<1>6. CASE cmd = "CLOSE"
  <2>1. After <= 9 + left * 6
    BY <1>6, Numbers DEF After
  <2>2. QED
    BY <1>1, <1>2, <1>6, <2>1, Numbers DEF Effort, MaxEffort, TriesSound
<1>7. QED
  BY <1>3, <1>4, <1>5, <1>6, Numbers DEF Kinds

\* A new exchange.
LEMMA BeginEffort ==
  ASSUME IInv', NEW kind \in Kinds, Begin(kind)
  PROVE  TriesSound' /\ Effort' = Cost(kind) + After' /\ cmd' = kind
<1>1. pc' = "tx" /\ cmd' = kind /\ tries' = 1
  BY DEF Begin
<1>2. Tries[kind] \in 1 .. 3
  BY DEF Kinds, Tries
<1>3. After' \in Int
  BY <1>1, CountAssumption DEF After, Cost, Tries, IInv, TypeOK, DriverTypeOK
<1>4. Stage' = 3
  BY <1>1 DEF Stage
<1>5. QED
  BY <1>1, <1>2, <1>3, <1>4 DEF Effort, TriesSound, Cost

\* The exchange ends, and with it the call, or what is left is less.
LEMMA DoneEffort ==
  ASSUME IInv, IInv', TriesSound, pc # "idle", NEW ok \in BOOLEAN, Done(ok)
  PROVE  TriesSound' /\ (pc' = "idle" \/ Effort' < Effort)
<1>1. Effort \in Int /\ After \in Int /\ After < Effort
  <2>1. After \in Int
    BY Numbers DEF After
  <2>2. Stage \in 1 .. 3
    BY DEF Stage
  <2>3. Tries[cmd] - tries >= 0 /\ Tries[cmd] - tries \in Int
    BY Numbers DEF TriesSound, Kinds
  <2>4. QED
    BY <2>1, <2>2, <2>3 DEF Effort
<1>2. CASE pc' = "idle"
  BY <1>2 DEF TriesSound
<1>3. CASE WriteDone /\ pc' # "idle"
  <2>1. cmd = "WRITE" /\ left' = left - 1 /\ Begin("WRITE")
    BY <1>3 DEF WriteDone, BeginSend, Return
  <2>2. TriesSound' /\ Effort' = 6 + (left' - 1) * 6
    BY <2>1, Numbers, BeginEffort DEF After, Kinds, Cost, Tries
  <2>3. After = (left - 1) * 6
    BY <2>1, Numbers DEF After
  <2>4. QED
    BY <1>1, <2>1, <2>2, <2>3, Numbers
<1>4. CASE SendtoClosed(ok) /\ pc' # "idle"
  <2>1. call.op = "sendto" /\ cmd = "CLOSE" /\ Begin("CONN") /\ left' = left
    BY <1>4, Zenon DEF SendtoClosed, Return
  <2>2. call' = call
    BY DEF Done
  <2>3. cmd' = "CONN" /\ TriesSound' /\ Effort' = Cost("CONN") + After'
    BY <2>1, BeginEffort DEF Kinds
  <2>4. After' = left * 6
    BY <2>1, <2>2, <2>3, Numbers DEF After, Cost, Tries
  <2>5. After = 9 + left * 6
    BY <2>1, Numbers DEF After
  <2>6. QED
    BY <1>1, <2>3, <2>4, <2>5, Numbers
<1>5. CASE SendtoConnected(ok) /\ pc' # "idle"
  <2>1. call.op = "sendto" /\ cmd = "CONN" /\ BeginSend(left)
    BY <1>5, Zenon DEF SendtoConnected, Return
  <2>2. Begin("WRITE") /\ left' = left
    BY <1>5, <2>1 DEF BeginSend, Return
  <2>3. cmd' = "WRITE" /\ TriesSound' /\ Effort' = Cost("WRITE") + After'
    BY <2>2, BeginEffort DEF Kinds
  <2>4. After' = (left - 1) * 6
    BY <2>2, <2>3, Numbers DEF After, Cost, Tries
  <2>5. After = left * 6
    BY <2>1, Numbers DEF After
  <2>6. QED
    BY <1>1, <2>3, <2>4, <2>5, Numbers
<1>6. CASE OpenDone(ok) \/ CloseDone(ok) \/ ConnectDone(ok)
  BY <1>2, <1>6 DEF OpenDone, CloseDone, ConnectDone, Return
<1>7. QED
  BY <1>2, <1>3, <1>4, <1>5, <1>6 DEF Done

\* So it is when an exchange fails: there is one try less.
LEMMA FailEffort ==
  ASSUME IInv, IInv', TriesSound, pc # "idle", Fail
  PROVE  TriesSound' /\ (pc' = "idle" \/ Effort' < Effort)
<1>1. CASE tries < Tries[cmd]
  <2>1. pc' = "tx" /\ tries' = tries + 1 /\ UNCHANGED <<call, cmd, left>>
    BY <1>1 DEF Fail
  <2>2. After' = After /\ After \in Int
    BY <2>1, Numbers DEF After
  <2>3. Stage' = 3 /\ Stage \in 1 .. 3
    BY <2>1 DEF Stage
  <2>4. Tries[cmd] \in Int /\ tries \in Int
    BY Numbers DEF Kinds
  <2>5. QED
    BY <1>1, <2>1, <2>2, <2>3, <2>4 DEF Effort, TriesSound
<1>2. CASE ~(tries < Tries[cmd])
  <2>1. Done(FALSE) /\ FALSE \in BOOLEAN
    BY <1>2 DEF Fail
  <2>2. QED
    BY <2>1, DoneEffort
<1>3. QED
  BY <1>1, <1>2

\* The steps of the thread within an exchange.
LEMMA ParserEffort ==
  ASSUME IInv, IInv', TriesSound, Parser, ~SkipURC
  PROVE  TriesSound' /\ pc # "idle" /\ (pc' = "idle" \/ Effort' < Effort)
<1>1. ASSUME pc \in {"tx", "scan"}, pc' \in {"scan", "rx"}, pc' # pc, UNCHANGED <<call, cmd, tries, left>>
      PROVE  TriesSound' /\ pc # "idle" /\ (pc' = "idle" \/ Effort' < Effort)
  <2>1. After' = After /\ After \in Int /\ pc # "idle"
    BY <1>1, Numbers DEF After
  <2>2. Stage \in 1 .. 3 /\ Stage' \in 1 .. 3 /\ (pc = "tx" \/ pc' = "rx" => Stage' < Stage)
    BY <1>1 DEF Stage
  <2>3. Tries[cmd] \in Int /\ tries \in Int
    BY <2>1, Numbers DEF Kinds
  <2>4. QED
    BY <1>1, <2>1, <2>2, <2>3 DEF Effort, TriesSound
<1>2. CASE Tx \/ ScanMatch \/ ScanTimeout
  BY <1>1, <1>2 DEF Tx, ScanMatch, ScanTimeout
<1>3. CASE ScanMismatch \/ RxMismatch \/ RxTimeout
  BY <1>3, FailEffort DEF ScanMismatch, RxMismatch, RxTimeout
<1>4. CASE RxMatch
  <2>1. Fail \/ \E ok \in BOOLEAN : Done(ok)
    BY <1>4, Zenon DEF RxMatch, Succeed
  <2>2. pc # "idle"
    BY <1>4 DEF RxMatch
  <2>3. QED
    BY <2>1, <2>2, FailEffort, DoneEffort
<1>5. QED
  BY <1>2, <1>3, <1>4 DEF Parser

\* A call begins with an exchange, or returns at once.
LEMMA CallEffort == ASSUME IInv, IInv', Calls PROVE TriesSound' /\ pc = "idle"
<1>1. pc = "idle"
  BY DEF Calls, SocketOpen, SocketOpenNoSlot, SocketClose, SocketConnect, SocketSend,
         SocketSendto, Call
<1>2. pc' = "idle" \/ \E kind \in Kinds : Begin(kind)
  <2>1. PICK h \in Handles :
          \/ SocketOpen(h) \/ SocketOpenNoSlot(h) \/ SocketClose(h)
          \/ \E a \in Addrs : SocketConnect(h, a)
          \/ \E n \in 0 .. MaxChunks : SocketSend(h, n)
          \/ \E a \in Addrs, n \in 0 .. MaxChunks : SocketSendto(h, a, n)
    BY Zenon DEF Calls
  <2>2. CASE \E a \in Addrs, n \in 0 .. MaxChunks : SocketSendto(h, a, n)
    <3>1. PICK a \in Addrs, n \in 0 .. MaxChunks : SocketSendto(h, a, n)
      BY <2>2
    <3>2. sock[h].connected \in BOOLEAN
      BY DEF IInv, TypeOK, DriverTypeOK
    <3>3. QED
      BY <3>1, <3>2 DEF SocketSendto, BeginSend, Return, Kinds
  <2>3. QED
    BY <2>1, <2>2 DEF SocketOpen, SocketOpenNoSlot, SocketClose, SocketConnect, SocketSend,
                      BeginSend, Return, Kinds
<1>3. QED
  BY <1>1, <1>2, BeginEffort DEF TriesSound

\* What a call can still do is bounded, and every step of its thread but the reading
\* past a notification lowers it.
EffortSound == pc # "idle" => Effort \in 1 .. MaxEffort
EffortFalls == pc # "idle" /\ driver' # driver => pc' = "idle" \/ Effort' < Effort

\* Whatever the modem answers, fails to answer or says unasked, a call consists of at
\* most MaxEffort transmissions, scans and waits for "OK": no answer makes it start
\* again, or try once more than its loop allows.  This is the part of CallReturns
\* that does not depend on fairness.
THEOREM SocketsEffort == Spec => []EffortSound /\ [][EffortFalls]_vars
<1>1. Init => TriesSound
  BY DEF Init, TriesSound
<1>2. IInv /\ IInv' /\ TriesSound /\ [Next]_vars => TriesSound' /\ [EffortFalls]_vars
  <2> SUFFICES ASSUME IInv, IInv', TriesSound, [Next]_vars PROVE TriesSound' /\ EffortFalls
    OBVIOUS
  <2>1. CASE UNCHANGED driver
    BY <2>1 DEF driver, TriesSound, EffortFalls
  <2>2. CASE Calls
    BY <2>2, CallEffort DEF EffortFalls
  <2>3. CASE Parser /\ ~SkipURC
    BY <2>3, ParserEffort DEF EffortFalls
  <2>4. SkipURC \/ Exec \/ Refuse \/ Notify \/ Deliver \/ UNCHANGED vars => UNCHANGED driver
    BY DEF SkipURC, Exec, Refuse, Notify, Deliver, vars
  <2>5. QED
    BY <2>1, <2>2, <2>3, <2>4 DEF Next
<1>3. IInv /\ TriesSound => EffortSound
  BY EffortBound DEF EffortSound
<1>4. QED
  BY <1>1, <1>2, <1>3, Invariance, PTL DEF Spec
=============================================================================
