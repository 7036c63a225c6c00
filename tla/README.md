# Verification of the WNC14A2A cellular driver

TLA+ modules, TLC configurations and TLAPS proofs for the driver of this
repository: an mbed-os network interface over the AT commands of a WNC14A2A
LTE modem on a UART (`avnet/`), and the application that uses it (`main.cpp`).
Paths below are relative to `src/`; P is `avnet/WNCATParser/WNCATParser.cpp`,
I is `avnet/WNC14A2AInterface.cpp`, S is
`avnet/WNCATParser/BufferedSerial/BufferedSerial.cpp` and B is
`avnet/WNCATParser/BufferedSerial/Buffer/MyBuffer.h`.

## The system

```
 application (main.cpp)          one thread
   |  mbed-os sockets (external)
 WNC14A2AInterface               _sockets, struct wnc_socket, _cbs
   |  calls                        ^ event(), in interrupt context
 WNCATParser                     _packets, _packets_end, _timeout, _initialized
   |  puts(), getc(), readable()   |
 BufferedSerial                  _txbuf, _rxbuf (MyBuffer: _wloc, _rloc)
   |  txIrq()   ^ rxIrq()        two interrupt handlers
 UART, modem (external)
```

| Part | State | Operations | What is hard |
|---|---|---|---|
| `MyBuffer` (B) | `_buf`, `_wloc`, `_rloc` | `put`, `get`, `available`, `clear` | used from a thread and an interrupt without a lock; an index is published before its store and before it is wrapped; no check for "full" |
| `BufferedSerial`, transmit (S 60-160) | `_txbuf`, interrupt attached or not | `putc`, `puts`, `write`, `prime`, `txIrq` | `prime()` runs the handler's loop in the thread; the handler detaches itself |
| `BufferedSerial`, receive (S 45-58, 116-128) | `_rxbuf` | `rxIrq`, `readable`, `getc`, `attach` | a put without a check for "full" at any moment of the reading thread; a character between `readable()` and `__WFI()` |
| `WNCATParser`, lines (P 756-932) | the receive buffer | `tx`, `scan`, `rx`, `readline`, `checkURC`, `_readline`, `flushRx` | late, torn, missing and unsolicited lines; a timeout that counts as true |
| `WNCATParser`, commands (P 501-598, 732-738) | none of its own | `open`, `socket_connect`, `send`, `close` | retries of commands the modem may already have obeyed; hexadecimal digits that may not fit their buffer |
| `WNCATParser`, packets (P 619-686) | linked list `_packets`, `_packets_end` | `_enqueue`, `_check_queue` | pointer to the last link, partial reads, several sockets in one list |
| `WNCATParser`, `recv` (P 688-730) | locals, the list | `recv` | indications, replies and the list out of step |
| `WNCATParser`, start (P 57-305) | `_initialized` | `startup`, `reset`, `connect`, ... | loops with and without a bound |
| `WNCATParser`, queries (P 110-127, 192-214, 314-499) | `_ipstats`, `_ip_buffer`, ... | `checkGPRS`, `getIPAddress`, `queryIP`, `requestDateTime`, ... | answers read in part, chains of `&&` in which a timeout is true, a loop that only an answer ends |
| `WNC14A2AInterface`, sockets (I 159-328) | `_sockets`, `struct wnc_socket` | `socket_open`, `_close`, `_connect`, `_send`, `_recv`, `_sendto`, `_recvfrom` | slots, handles and the modem's sockets must agree after partial failures |
| `WNC14A2AInterface`, events (I 330-343) | `_cbs` | `socket_attach`, `event` | two fields written by the thread, read by an interrupt |
| `main.cpp` | `retry_counter` | `do_connect`, `test_send_recv` | a retry limit that is never reached; a test that counts on the pieces in which data arrive |

What makes each part correct, and which property says it, is the subject of
the sections below; `PROJECT.json` lists the hazards line by line.

## The modules

| Module | Models | Checked by | Proved in |
|---|---|---|---|
| `MyBuffer` | index arithmetic of the two rings | with `TxSerial`, `Receive` | `TxSerialProofs`, `ReceiveProofs` |
| `TxSerial` | transmit path: thread, interrupt, UART | `TxSerial` | `TxSerialProofs` |
| `RxSerial` | receive path: interrupt, `flushRx()`, `_readline()`, `read()` | with `Receive` | `ReceiveProofs` |
| `SocketEvents` | `socket_attach()`, `event()` and their caller | with `Receive` | `ReceiveProofs` |
| `Receive` | the receive interrupt with its callback | `Receive` | `ReceiveProofs` |
| `SocketTable` | abstract: whom each slot of `_sockets` serves | as a property of `Sockets` | `SocketsProofs` |
| `Sockets` | the socket calls, their AT exchanges, the modem and the line | `Sockets`, `SocketsLeak` | `SocketsProofs` |
| `Send` | the chunks and buffers of `send()` | `Send`, `SendLong` | `SendProofs` |
| `Pipe` | abstract: a stream of bytes for each socket | as a property of `PacketList` | `PacketListProofs` |
| `PacketQueue` | abstract: the packets as a sequence | – | `PacketListProofs` |
| `PacketList` | the linked list of received packets | `PacketList` | `PacketListProofs` |
| `Recv` | `recv()`, the wire and the modem's data, connections that come and go | `Recv`, `RecvWild`, `RecvCross` | `RecvProofs` |
| `Queries` | the queries, `requestDateTime()`, `queryIP()`, `powerDown()` | `Queries` | `QueriesProofs` |
| `Connection` | `do_connect()`, `connect()`, `startup()`, `reset()`, the registration | with `Application` | `ApplicationProofs` |
| `Application` | `main()`: `do_connect()` and the echo test | `Application` | `ApplicationProofs` |

The modules are composed where the parts meet: `TxSerial` and `RxSerial` take the
ring of `MyBuffer`, `Receive` joins `RxSerial` and `SocketEvents` in the interrupt,
`Sockets` and `Queries` have the line and the modem, `Recv` the packet list (as the
sequence that `PacketsQueue` proves it to be), the line and the modem, and
`Application` goes on where `Connection` ends.  For TLC, `MCTxSerial`, `MCReceive`,
`MCSockets`, `MCSend`, `MCPacketList`, `MCRecv`, `MCQueries` and `MCApplication` extend
them.  A definition
whose comment begins with "Mutant of" is not part of a specification: it is
the definition that follows it with a plausible bug, with which the property
named in `PROJECT.json` must fail.

### TxSerial

The thread's `pc` follows one call: `StartCall` (`putc`, `puts`, `write`), for
each byte `PutIndex`, `PutStore`, `PutWrap` and `PutReturn`, then `prime()`:
`PrimeTest`, `PrimeDetach`, the loop of `txIrq()` (`ThreadTxIrq`,
`ThreadPutc`) and `PrimeAttach`.  `B:133` leaves the order of `_wloc++` and the
store to the compiler, `_buf` is not volatile, and `_wloc` is written twice;
`PutStore` may therefore happen at any of the three points between which the
interrupt can come.  The handler preempts the thread between any two steps and
runs to its end (`IsrEnter`, `IsrPutc`, then `IsrDetach` or `IsrFull`).
`serial_writable()` and the FIFO are external.  A byte is its position in the
stream of bytes put, so that order, loss and repetition are visible.

Two ghosts mark what the code accepts or suffers: `overrun` (a byte put into a
full ring, "buffer allows overwriting by design", S 52) and `raced` (the handler
took a byte of a `put()` that had not returned).

* `InOrder`: without overrun and race the UART gets the bytes put in order, each
  once, wherever the indices wrap.  `RingHoldsPending` is the reason: the ring holds
  the bytes put and not sent.
* `NoContention`: "make sure not to cause contention in the irq" (S 154).
* `NoLostWakeup`: when the thread is idle and the ring is not empty, the
  interrupt is attached.  `AllSent` is the liveness version.

### RxSerial, SocketEvents, Receive

The thread is in `flushRx()` (`FlushLook`, `FlushFull`, `FlushGet`), with which `tx()`
begins, or it reads with `_readline()` or `read()`: `Look` is the test of the timer
and of `readable()`, `Sleep` the `__WFI()`, `Take` the `getc()` and what is done with
the character.  `Receive(c)` is `rxIrq()`; it comes between any two of these steps.
The handler looks at no index that the thread writes and the thread never runs inside
it, so a put is one step, and so is a get; `readable()` and the get that follows it
are two.  `readline()` calls `_readline()` until a line is not a notification.  A
character is its position in what the modem has sent, and one of four kinds.  The
ghost `taken` counts the gets, `from` and `mark` remember where a piece of reading and a
`tx()` began, `overrun` says that a character was put into a full ring.

`SocketAttach` and `SocketAttachData` are the two writes of `socket_attach()`.  Its
caller is mbed's `Socket`: it attaches when its socket is open and detaches before
it closes it.  `RxIrq` of `Receive` is `rxIrq()` with `event()`: in every state with a
call of the handler pending in `Called`.

* `RingHoldsUnread`: until a character is put into a full ring, the ring holds what
  has come and has not been taken, and looks empty only when it is.
* `LineExact`: a reader has all the printable characters since it began, each once
  and in order, and no line runs into the next.
* `Fresh`: what had come when `tx()` began is gone when it writes its command.
* `OnlyNotifications`: what a call of `readline()` has dropped by the time it reads its
  last piece belongs to lines that began with a notification, into whatever pieces time
  and room have cut them.  `since` marks where the call began.  It speaks of one call: the
  rest of a line that is cut in the piece returned is a line of its own for the next.
* `ReadReturns`: a reader gets an answer, although a character before `__WFI()` is
  slept through until the next interrupt or tick of the kernel.
* `OwnOrNone`: a handler is called for a socket that has the slot and has not
  detached, with that socket or nothing as its data, never another.
* `Informed`: between attaching and detaching, everything received is told.

### Sockets

`call` is the running call of the interface, `pc` the step of its exchange.
An exchange is `Tx`, for CREAT and WRITE a `scan()` (`ScanMatch`,
`ScanMismatch`, `ScanTimeout`), and `rx("OK")` (`RxMatch`, `RxMismatch`,
`RxTimeout`).  `Fail` and `Succeed` are the loops of P 510-520, 537-541,
581-595; `OpenDone` ... `SendtoConnected` what the interface does with the
result.  `tx()` throws away what has been received, a `scan()` that times out
counts as true (-1 in a chain of `&&`) and leaves `id_resp` at its old value
and `wrote` at whatever the stack holds; `rx()` drops a line read at the
deadline.  A line is its kind and a number; half a line is `"other"`.

The modem is external.  It numbers sockets from the lowest free id, which is
what `open()` checks (P 516), obeys a command its socket is in the state for,
and answers ERROR otherwise.  Faults (a refused or lost command, a short write,
a timeout while an answer is under way, a torn line, an unsolicited line) are
counted and bounded by `MaxFaults`.

`LockStep`, `InStep` and the liveness properties are what a user of the sockets sees;
`SlotsSound` and `TableSpec` hold with any faults.

* `LockStep`: an exchange that begins when nothing is under way, whatever a fault has left
  in the receive buffer, and each one after it until the next fault, reads its own reply
  and leaves no line behind.  A reply that comes after the next command has been written
  is beyond it: it is taken for that command's.
* `InStep`: once handles and modem agree between calls on which sockets exist and which
  are connected (`InAgreement`), they go on agreeing until the next fault or until a
  `sendto()` moves a socket.  They agree at first, and again after every fault that the
  retries of a call, or a close, have mended; not with a second socket that a retry of
  `open()` has made, of which `OrphanForever` speaks.
* `SlotsSound`: open sockets have marked slots, no two the same.  `CallSound`, with
  which it is proved, says that a running call's slot is its own.
* `TableSpec`: `Sockets` implements `SocketTable`, where a slot is free, serves
  a socket, or is lost; `owner` is the refinement mapping.
* `CallReturns`: every call ends.  `OrphanForever`: a modem socket without a
  handle is never closed once the line has settled.
* `MarkedMeansUsed` fails: `socket_open()` keeps the slot when the modem refuses.

### Send

`Chunk` begins a chunk of `maxSend` bytes or the rest; a try is one step, which the
modem may obey (`Obeyed`), obey with an answer that gets lost (`AnswerLost`), obey in
part (`Short`), or not (`Unwritten`); `Again` and `GoOn` are the loop of P 581-595.
What counts is the length of things: two hexadecimal digits a byte in `numStr`
(`HexFits`), and the printed command (`CommandFits`).  `written` is what the modem has
written, in order.  `Fits` says that the commands of this call are printed in full.

* `OneFault`: a single fault costs no byte.
* `Exact`: without faults everything is written once and in order.
* `Orderly`: whatever fails, a chunk is written twice at most, none after a later one.
* `SendEnds`: `send()` ends.
* `SendsLong` fails: more than 749 bytes, which the header allows, overrun `numStr`,
  and from 740 on the modem gets a command without its end.  `SendLimit` proves both
  numbers, `SendWhole` that below them all is well, `SendCutOff` what happens between.

### PacketList

`link` holds `_packets` (`Root`) and the `next` of every block, `end` is
`_packets_end`, a pointer to a link; `heap` is what `malloc()` has given out,
and `Enqueue` may get any block that has been freed.  `_check_queue()` is a
walk, one step for each turn of its loop; `at` is its `p`.  A packet holds an
interval of the stream of its socket, so `memmove` and `len -= amount` show in
`first` and `len`.  Packets and buffers of length 0 are included.

* `ListSound`: the links connect the allocated blocks in order, and
  `_packets_end` is the last link, never one of a freed block.
* `Contiguous`: the packets of a socket hold its stream without gap or overlap.
* `PipeSpec`: the list implements `Pipe`: each socket's bytes come out once, in
  order, for that socket.  `WalkSound` (the walk has passed no packet of its socket)
  is what makes it so.
* `QueueSpec` (proved, not run): the list implements `PacketQueue`, a sequence from which
  a call takes the oldest packet of its socket at once.

### Recv

Each turn of `recv()` is a look at the list (`CheckWhole`, `CheckPart`,
`CheckNone`, `TimeUp`), a `scan()` for an announcement (`IndMore` with the
`tx()` of AT@SOCKREAD, `IndEnd`, `IndOther`, `IndTimeout`), a `scan()` for data
(`DataRead`, `DataOther`, `DataTimeout`) and, after data, `rx("OK")` with
`_enqueue()` (`Enqueue`, `EnqueueFails`).  `ind` is the inner `id`, which a turn
without an announcement leaves uninitialised (`Owners`).  The other calls are
reduced to what they do to the wire: `Connect`, `Close` and `Send` throw away
what has been received, and a line that comes before the "OK" of a close is read
in its place.  The modem keeps the data of each socket until it is asked
for all of it, announces each arrival once, and the end of a connection.  A
late answer, a line read at the deadline and a failing `malloc()` are faults.
What a peer sends is taken to fit one AT@SOCKREAD and the hex buffer.

A byte knows its connection and its position, so that loss, repetition,
reordering, and bytes that go to another socket or another connection show.

`Polite` tells two worlds apart.  The polite take turns as the echo test of
`main.cpp` does: neither peers nor application do anything but receive until all
that was sent has been received, and no peer speaks while the driver waits for
data.  For them, without faults, `NothingLost` (no byte and no announcement is lost),
and `Delivered` (if the application keeps calling
`recv()` it gets everything).  `RecvReturns` is checked for them, with a fault; in any
company the theorem `RecvEffort` bounds the turns of `recv()`.  `Ordered` holds, and is
checked, for everybody.

* `OwnSocket` fails without politeness: three announcements in a row, and the
  data of one socket is enqueued for another.

### Queries

A call is a `Script` of exchanges, a chain of `&&` in the code: `Tx`, then a `scan()`,
an `rx()` of "OK", or both, a line or a timeout a step.  Those that go their own way have
actions of their own: `DateDone` (the loop and the last command of
`requestDateTime()`), `IpMatch` and `IpTimeout` (`getIPAddress()`), `ClockMatch` and
`ClockTimeout` (`getLocation()`), `HostAddress`, `HostEnd` and `HostOther` (the loop of
`queryIP()`).  A timeout in a chain is true.  The modem obeys, refuses, is off, loses a
command, or says something unasked.  The ghost `clean` says that the call began on a
quiet line and has had no fault, `stale` that it has read an answer that was not its
own, `obeyed` which of its commands the modem has carried out.

* `OwnAnswers`: a clean call reads its own answers only; and it leaves nothing behind,
  except for the five calls that stop before the "OK" of their answer.
* `Truthful`: a clean call that returns true was obeyed in full, again with these five
  excepted.
* `NotWild`: a clean call with the modem on never writes through a null pointer.  With a
  late, lost or unasked line `queryIP()` may (P 491): the text may hold no quote.
* `QueryReturns`: every call returns, `queryIP()` if the modem answers it.

### Connection and Application

`pc` is the exchange that comes next: `Poll` (`is_connected()`), then in
`connect()` of the interface `Alive`, `At` and `Ate0` of `reset()` (`Started` and
`NotStarted` are its ends), `Creg` and `Dial` of the parser's `connect()`.  An
exchange is one step, and may see nothing, an echo or an answer (`Ask`).  What
`scan()` has not written after a timeout is any value: `response` in `reset()`,
the buffer of `getIPAddress()`.  The modem boots, registers, reboots and loses
the network when it likes; `hard_reset()` leaves the reset line low and is taken
to have no effect on it.  The steps of `WNC14A2AInterface::connect()` after the
parser's `connect()` are not there because that never succeeds.

* `EchoOff`: whatever gets lost, a started modem does not echo.  The ghost
  `blind` excludes a `reset()` that went on with an unwritten `response`.
* `Established`: without lost answers and reboots, and under the same `blind`,
  `do_connect()` returns only when the modem has an address.

`Application` adds `main()` and `test_send_recv()` (TCP): `Open`, `Resolve`, `Join`,
`SendTest`, `Recv`, `Recv4`, `Close`, `Return`, a call of the socket a step.  The echo
server greets in one piece or more and echoes; what a `recv()` finds is all that has
come (`stock`).  mbed's `TCPSocket` is external.

* `Success`: `main()` returns 0 only if "TEST" has gone to the server and come back.
* `Released`: whichever call fails, the slot of an open socket is freed, and without
  faults the modem's socket is closed.
* `Apart`: without faults the test fails only if the server is slower than `recv()`
  waits, or the greeting does not come in one piece of its own.
* `Ends`: `main()` ends; so the nested loops do, and the application gets its
  connection, by asking `is_connected()` between calls of `connect()` that all fail.

## The runs and their bounds

| Run | Instance | Shows |
|---|---|---|
| `TxSerial` | ring of 5 (capacity 3), FIFO 2, 7 bytes, calls of up to 3 | the safety properties, and `AllSent`; the indices wrap twice, the ring is full and overfilled |
| `Receive` | ring of 4 (capacity 2), 3 characters of any kind, `flushRx()` of 1, lines of 2, reads of 2; 2 handles, 2 slots | the receive path with every interrupt; the ring wraps and is overfilled, lines are cut by time and by room, notifications come anywhere, slots change hands |
| `Sockets` | 2 handles, 2 slots, 2 modem sockets, 1 address, 1 command waiting, 1 fault | all properties, safety, refinement and liveness; all slots in use occurs, a fault that is mended, and an orphan that takes the id of another |
| `SocketsLeak` | 2 handles, 3 modem sockets, 1 fault | a trace to the divergence |
| `Send` | the buffer of the code (1500); chunks of 1400 and of 739; 13 lengths around every limit; 3 faults | one to three chunks, both tries failing, short writes, lengths that fit exactly and by one not |
| `SendLong` | chunks of 1400, lengths of 1 to 1024 | a trace to the divergence |
| `PacketList` | 2 sockets, 3 blocks, 3 bytes each, packets and buffers of 0 to 2 bytes | the list and the refinement; removal at both ends and in the middle, reuse of blocks, partial reads |
| `Recv` | 2 sockets, 2 connections each of 2 bytes, buffers of 1 and 2, 1 fault | the polite world and its liveness; reconnection, partial reads, reads of other sockets' data |
| `RecvWild` | 2 sockets, 1 connection each of 2 bytes, buffers of 1, 1 fault | `Ordered` with any order of events; announcements cross commands, data crosses sockets |
| `RecvCross` | 2 sockets, no fault | a trace to the divergence |
| `Queries` | any series of calls, 1 command waiting, 2 lines, 2 registration tries, 1 unasked line | all ten calls after one another; refusals, a modem that is off, answers that are late |
| `Application` | the loops of the code (10, 3, 5 tries), counter of 8 values, 2 faults, 2 upsets, a greeting in 1 or 2 pieces | connection and echo test together; every loop runs out, every call of the test fails |

`MaxWaits` (2) stands for the four `scan()` timeouts of 10 s that fit into the
40 s of a `recv()`; time may also run out before.  `CounterSize` is 256 in the
code; 8 shows the wrap.  `NetworkTries` of `Queries` is 20 in the code; 2 shows the
first try, the repetition and the end.  The ring of the code has 1500 elements, and
`LineMax` is 1499 there, so that a line as long as the ring is full still fits; so it is
in `Receive`, where the thread reads on while characters come and the room runs out.  `MaxShifts` only
matters after a race, when the handler could otherwise send without end; `MaxCmds` is
the modem's command queue, `MaxLines` the room of the receive buffer in lines.  Deadlock is not checked where the program may
stop for good: the application makes no more calls, or a bound is reached.

Symmetry is used for handles, addresses, sockets and blocks in the runs of safety
properties only (`SocketsLeak`, `PacketList`, `RecvWild`, `RecvCross`).

Fairness: `TxSerial` assumes that a call once begun goes on, that a pending
interrupt is taken and that the UART shifts; nothing makes the program call.
`Sockets` assumes that the parser's step is taken (every one of its loops has a
timer), that the modem executes and that lines arrive; calls, refusals and
notifications are not fair.  `Recv` assumes the same of the loop of `recv()`, the
modem and the line; that the application calls is a premise of `Delivered`.
`Receive` assumes that a reading thread goes on, that its time runs out and that the
kernel ticks; nothing makes the modem send.  `Queries` assumes that the parser's step
is taken, that the modem obeys or refuses a command, if it is on, and that lines arrive;
that no line is lost is a premise of `QueryReturns` for `queryIP()`.  `Send` assumes
that its loop goes on.  `Application` assumes that the program runs and that a modem
which is left alone boots, registers and, having dialled, gets an address; what the
server does is not fair.

## The proofs

Every invariant, action property and refinement that a passing run checks, and the
temporal formulas `LockStep`, `InStep` and `OrphanForever`, is also a theorem, for all values of the constants that the named assumptions admit; the
bounds of the runs are arbitrary numbers there, and so bound nothing.  Each module of
proofs begins with the type invariant and adds what its properties need.  Hardly any
property is inductive as it stands, so the additions are what a reader should look at.

`TxSerialProofs`: `WakeupSupport` (a running handler, and a full FIFO, imply an attached
interrupt), on which it depends that no index is read out of range; then
`RingHoldsPending`, from which `InOrder` follows: `Place(Oldest, k)` names the
element of the k-th pending byte through every wrap.  That two places less than a round
apart differ (`PlacesDiffer`) is what both rings rest on.  Assumptions: `Size >= 2`,
`FifoDepth >= 1`.

Some theorems go beyond the properties of the runs.  The prover cannot do liveness, but
most of what makes a call end has nothing to do with fairness: each loop gives up some
of a budget at every turn.  The theorems called `...Effort` and `AppConnectEnds` say so
with a measure, `Effort`, which is a natural number and falls with each step of the
driver, whatever the modem answers or fails to answer; they name every step that may
raise it.  What TLC adds is that under the stated fairness the steps are taken.

* `SocketsEffort`: a socket call makes at most 12 + 6 `MaxChunks` attempts to send or read.
* `SendEffort`: no chunk is tried a third time, and none is gone back to.
* `RecvEffort`: a turn of `recv()` uses up a line or a part of the time; only a line that
  arrives lets it go on, for four steps.
* `QueriesEffort`: a query takes at most 3 `NetworkTries` + 15 steps; the exception is the
  loop of `queryIP()`, which goes on for as long as other lines come.
* `AppConnectEnds`: `connect()` comes back after at most 2 `ResetTries` + 2 +
  `ConnectTries` * `NetworkTries` exchanges; `do_connect()` alone begins anew.
* `ReceiveEffort`: while no character is lost, `flushRx()` takes two steps for each and one
  for each line; a reader whose time has run out is three steps from its end.

`ReceiveProofs`: the write index is `Place(rloc, Unread)`, with the unread characters in
the places between, and a thread which is about to take a character has one, because
only it takes any (`RingInv`).  So the character that the ring gives is the next one of
the stream (`TakenNext`), and a reader that keeps or drops it according to its kind has
all those it wants: `WholeInv`, of which `LineExact` is a part.  `Fresh` needs that
`flushRx()` has gone as far as it has counted.  `OnlyNotifications` needs that the
first character of a piece either begins its line or continues one whose earlier pieces
have been dropped, and so, inductively, one that began with a notification (`DropLine`).
For the
callbacks: a slot is attached exactly while its owner is open and not closing, except
between the two writes, which belong to that owner (`Attached`, `Owned`).

`SocketsProofs`: with any faults, `CallSound` and `SlotsSound`; `CallSound` is needed
because the slot of a call is marked, or released, several exchanges after it was chosen.
`SocketsTable` maps each step that ends a call to `Acquire`, `Lose` or `Release` and all
others to stuttering.  Until the next fault there is also `Turn`: what is due, whether it has
arrived or not (`Due`), belongs to the running exchange, whose command waits (`Waiting`),
has been refused (`Refused`) or is being answered (`Answered`), and between exchanges
nothing is under way; what is unread then does no harm, since `tx()` throws it away.
`Turn` holds whenever an exchange begins on a silent line, and each step without a fault
keeps it (`StepTurn`); `InLockStep` and `StayInStep` say so from fault number f to the
next, which gives the nested boxes of `LockStep` and `InStep`.  `InStep` needs `Match`:
while an answer is being read the modem is ahead of the driver for the socket of that
command (`Ahead`), and for no other; and `open()` chose the lowest free slot, which is the lowest free id of the modem (`Marked`),
so that the id it is given is the one it expects.  `SocketsOrphan`: that a socket is
an orphan is not enough, for an `open()` under way might be given its id; `Abandoned` adds
that the line is in turn and the answer to such an `open()` names another
(`Elsewhere`), which holds since the modem gives out free ids only.  Assumption: the modem
can hold one command at least.

`QueriesProofs`: the same idea for chains of exchanges.  `Turn` says whether the command
waits, is answered or refused, or that nothing will come (`Silent`); `Way` which commands
the modem has obeyed by then, from which `Truthful` follows.  Both hold of clean calls;
that a modem which is off never answers is what confines the null pointer to it.

`SendProofs`: typing holds each chunk within the data.  `OneFault` needs that a second
try has been paid for with a fault (`Paid`), `Orderly` that what a second try writes
begins where the first did (`Before`, `Second`), `Exact` that what is written is chained
up to the chunk at hand (`Chained`).  `SendWhole` needs what `OneFault` says of the end of
each chunk (`AtEnd`), `SendCutOff` that the only chunk of short data is all of them.

`PacketListProofs`: the inductive invariant is typing, `ListSound`, `WalkSound`
and `Contiguous`.  Its centre is the removal of a packet, where positions behind
it shift (`Old`), and the gap closes because the walk has passed no packet
of the same socket.  `PacketsPipe` and `PacketsQueue` are the refinements.  For the second,
`Sequence` maps the list to the packets in order; the walk maps to stuttering, and what
it finds is the oldest of its socket in the sequence (`FoundIsOldest`).

`RecvProofs`: `Ordered` needs the order of all bytes that have left the modem, from
the list over `data` to the lines and the wire (`Order`): each piece is of a connection
there has been and of what the modem has given (`Given`), not yet returned (`New`), and
ends before the next of its connection begins (`Before`, `Follows`).  A packet under a
wrong socket is exempt from `New`: it may wait in the list while its own socket goes on,
but is then returned to another socket, of which `Ordered` says nothing.  `NothingLost`
needs `Turn`: in polite company either nothing is under way, or the bytes of one socket
are, in one of four places: announced (`Told`), asked for (`Asked`), on the line
(`Answered`), in the list (`Stored`); and all other sockets are even.  From the two follows
`RecvExact`: in polite company the bytes returned are the very next of the present
connection of the socket.  `Times` says how
many scans have timed out at each point of the loop.  Assumption: a `recv()` waits for
one scan at least.

`ApplicationProofs` begins with the connection: typing, which holds every loop within its
bound, and `EchoInv`: what `reset()` has read says whether the echo is off already or the
modem hears ATE0.  It depends on the fact that an "OK" in place of an echo can only come
from a modem that is silent.  `Established` rests on `UpKnown`: a started modem is up, so
that a `scan()` without a fault has read an answer.  Every step of the test keeps this
invariant (`ConnInv`), because an exchange of the test changes nothing of it but the
count of faults.  `Success` follows since the stock holds an echo only after the server
has echoed (`Echoes`), `Released` since after `Close` nothing opens a socket (`Ended`).
`Apart` needs `Smooth`: which state of the modem's socket each call finds (`Calls`), that
the greeting comes first (`Begun`), that it is over at the second `recv()` unless there is
an excuse (`Over`), and that verdict and exit code agree with it (`Blamed`).

Only model-checked are the liveness properties (`AllSent`, `ReadReturns`, `CallReturns`,
`SendEnds`, `RecvReturns`, `Delivered`, `QueryReturns`, `Ends`), which are out of the
prover's reach; for all but `AllSent` and `Delivered` the measures above prove the part
that does not depend on fairness (for `Ends`, of `connect()`).

## Where code and comments disagree

Three disagreements are runs that TLC must refute: `SocketsLeak`, `RecvCross` and
`SendLong`.  The models have behaviours that show more of them, for which no run is
kept:

* An interrupt between `_wloc++` and the store of a `put()` sends an element that has
  not been written (B 133).
* The handler may run while `_wloc` is one past the last slot (B 134); it drains
  the ring past its end, and `available()` then says 1 of an empty ring.
* A `@SOCKCREAT` reply that is late answers a later `open()` (P 512), which then returns
  true ("true only if socket opened successfully", `WNCATParser.h` 196) without a socket
  in the modem.
* `socket_sendto()` to a second address sends CLOSE and then CONN without CREAT (I 302),
  which a modem refuses that has no such socket any more.
* `send()` returns true when both tries of a chunk have failed (P 593), or the modem has
  written less; `WNCATParser.h` 204-209 says "true only if data sent successfully".
* `getLocation()` (P 428-431) negates a part of its condition only: it returns true when
  the modem refuses to tell the time or does not answer, and takes May 2017, a
  time like any other, for none.
* `gethostbyname()` returns NSAPI_ERROR_OK whether or not it has got an address (I 174).
* The handler of a socket may be called with NULL as its data, between the two
  writes of `socket_attach()` (I 331).
* A message that comes more than 10 s after `recv()` was called: its
  announcement is dropped by the `scan()` for data (P 722), and the
  modem keeps the data until more arrives.
* `close()` leaves the packets of its socket in the list (P 732), and the next
  socket with the same id receives them.
* `reset()` and `getIPAddress()` use what a `scan()` that timed out has not
  written (P 148, 366), so that `startup()` and `is_connected()` may be true of a
  modem that has not answered.
* The parser's `connect()` never returns true (P 304), and `do_connect()` never
  compares its counter with `RETRY_COUNT` (`main.cpp` 110).

## Not modelled, and the plan

Not modelled: pins and delays of `hard_reset()`, which `startup()` calls and which is
taken to have no effect on the modem, and the power pin, which `powerDown()` sets to 0 as
the constructor did (P 62, 112); the store of `flushRx()` behind its array when it is full
(P 930); the 32 characters of `response` and the `&zone` of `getLocation()` (P 415-430),
which would have to be larger and `zone`; the -1 that `sscanf()` returns for a
"+CGCONTRDP:" with nothing after it (P 365), which is taken for a match there; trace output and printing; the formatting of
commands and the taking apart of answers, but for their lengths and for what is stored
after a timeout; the strings of `set_credentials()`; `BufferedPrintfC()` (nothing calls
it); `queryConnection()` and `_packet_handler()`, which do nothing; `dot_event()` of
`main.cpp` (its thread is never started); the test over UDP, which is a choice at
compile time; configuration and build; mbed-os itself, whose `Socket` and
`TCPSocket` are modelled from how they call the interface.

`socket_recvfrom()` differs from `socket_recv()` only by the address it returns; that a
datagram longer than the caller's buffer comes out in pieces is a consequence of
`PacketList`.

What could still be added: that the lines of `Sockets`, `Queries` and `Recv` are what
`RxSerial` makes of characters, as a refinement (today it is `LineExact` and `Fresh` that
justify them), and datagrams in `Recv`.
