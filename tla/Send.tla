-------------------------------- MODULE Send --------------------------------
(***************************************************************************)
(* send() of WNCATParser as its data see it: the bytes go out in chunks,   *)
(* each written in hexadecimal into a buffer and printed into a command.   *)
(* (Sockets has the exchange of command and answer, line by line.)         *)
(*                                                                         *)
(* A try of a chunk is a step.  The modem is external: it writes the whole *)
(* chunk or a part of it, or nothing, and its answer comes or is lost.     *)
(***************************************************************************)
EXTENDS Integers, Sequences

CONSTANTS
  BufferSize,  \* RXTX_BUFFER_SIZE, 1500
  MaxSends,    \* MAX_SEND_BYTES, 1400, and other values it might have
  Amounts,     \* the lengths of data passed to send()
  MaxFaults    \* bound: faults of modem and line in one call

ASSUME SendAssumption ==
  /\ BufferSize \in Nat
  /\ MaxSends \subseteq Nat \ {0} /\ Amounts \subseteq Nat
  /\ MaxFaults \in Nat

VARIABLES
  maxSend,  \* MAX_SEND_BYTES
  amount,
  pc,       \* "next" chunk, "try" one, "done", or "wild" after a write past the buffer
  at,       \* tempData - data
  size,     \* sendDataSize
  try,      \* i + 1
  written,  \* what the modem has written to the connection: where from and how much
  faults    \* how many there have been

vars == <<maxSend, amount, pc, at, size, try, written, faults>>

TypeOK ==
  /\ maxSend \in MaxSends /\ amount \in Amounts
  /\ pc \in {"next", "try", "done", "wild"}
  /\ at \in 0 .. amount /\ size \in 0 .. maxSend /\ try \in {1, 2}
  /\ pc \in {"try", "wild"} => size > 0 /\ at + size <= amount
  /\ written \in Seq([from : Nat, len : Nat])
  /\ faults \in 0 .. MaxFaults

Init ==
  /\ maxSend \in MaxSends /\ amount \in Amounts
  /\ pc = "next" /\ at = 0 /\ size = 0 /\ try = 1
  /\ written = << >> /\ faults = 0

-----------------------------------------------------------------------------
(* Two hexadecimal digits for a byte, and a terminator, in numStr; then        *)
(* AT@SOCKWRITE=<id>,<size>,"<digits>" in cmd, of which vsnprintf() prints     *)
(* what there is room for.                                                     *)

Digits(n) == IF n < 10 THEN 1 ELSE IF n < 100 THEN 2 ELSE IF n < 1000 THEN 3 ELSE 4
HexFits(n) == 2 * n + 1 <= BufferSize
CommandFits(n) == 18 + Digits(n) + 2 * n < BufferSize

ChunkSize == IF amount - at < maxSend THEN amount - at ELSE maxSend

Chunk ==
  /\ pc = "next" /\ at < amount
  /\ pc' = "try" /\ size' = ChunkSize /\ try' = 1
  /\ UNCHANGED <<maxSend, amount, at, written, faults>>

Finish ==
  /\ pc = "next" /\ at = amount
  /\ pc' = "done"
  /\ UNCHANGED <<maxSend, amount, at, size, try, written, faults>>

\* itohex() and the terminator overrun numStr, with whatever effect.
Overrun ==
  /\ pc = "try" /\ ~HexFits(size)
  /\ pc' = "wild"
  /\ UNCHANGED <<maxSend, amount, at, size, try, written, faults>>

-----------------------------------------------------------------------------
(* The end of a try. *)

\* The break, or the end of the loop: the next chunk, whatever became of this one.
GoOn == pc' = "next" /\ at' = at + size /\ UNCHANGED try

\* Mutants of Again: one more try, one try, tries without end.
AgainThrice ==
  IF try < 3 THEN try' = try + 1 /\ UNCHANGED <<pc, at>> ELSE pc' = "next" /\ at' = at + size /\ try' = 1
AgainNever == GoOn
AgainForever == UNCHANGED <<pc, at, try>>

Again == IF try < 2 THEN try' = try + 1 /\ UNCHANGED <<pc, at>> ELSE GoOn

Fault(n) == faults' = faults + n /\ faults' <= MaxFaults

Writes(n) == written' = Append(written, [from |-> at, len |-> n])

Try == pc = "try" /\ HexFits(size) /\ UNCHANGED <<maxSend, amount, size>>

\* Mutant of Obeyed: the loop does not end with a success.
ObeyedOn == Try /\ CommandFits(size) /\ Writes(size) /\ Again /\ UNCHANGED faults

Obeyed == Try /\ CommandFits(size) /\ Writes(size) /\ GoOn /\ UNCHANGED faults

\* The "OK" has not come, or only the length: then `wrote` is what its place on the
\* stack held before, be it the length.
AnswerLost == Try /\ CommandFits(size) /\ Writes(size) /\ Fault(1) /\ (Again \/ GoOn)

\* Less is written; that the modem says so may be lost, too.
Short ==
  /\ Try /\ CommandFits(size)
  /\ \E n \in {m \in {1, size - 1} : 0 < m /\ m < size} : Writes(n)
  /\ \/ Fault(1) /\ Again
     \/ Fault(2) /\ GoOn

\* A command that is lost, refused, or cut off, whose closing quote is missing.
Unwritten ==
  /\ Try
  /\ IF CommandFits(size) THEN Fault(1) ELSE UNCHANGED faults
  /\ Again
  /\ UNCHANGED written

Next == Chunk \/ Finish \/ Overrun \/ Obeyed \/ AnswerLost \/ Short \/ Unwritten

Spec == Init /\ [][Next]_vars
FairSpec == Spec /\ WF_vars(Next)

-----------------------------------------------------------------------------
(* Properties. *)

\* Every command of this call is printed in full, and so no buffer overrun.
Fits == CommandFits(IF amount < maxSend THEN amount ELSE maxSend)

Whole(to) ==
  \A p \in 0 .. to - 1 :
    \E j \in 1 .. Len(written) : written[j].from <= p /\ p < written[j].from + written[j].len

\* A single fault costs no byte: of a chunk that has gone by without having been
\* written whole, both tries have failed.  (send() returns true in any case.)
OneFault == Fits /\ faults <= 1 => Whole(at)

\* Without faults everything is written once and in order.
Exact ==
  Fits /\ faults = 0 =>
    LET end(j) == IF j = 0 THEN 0 ELSE written[j].from + written[j].len
    IN /\ \A j \in 1 .. Len(written) : written[j].from = end(j - 1)
       /\ end(Len(written)) = at

\* Whatever fails, the modem writes a chunk twice at most, and none after a later
\* one.
Orderly ==
  \A i, j \in 1 .. Len(written) :
    i < j => /\ written[i].from <= written[j].from
             /\ i + 1 < j => written[i].from < written[j].from

\* send() ends.
SendEnds == <>(pc \in {"done", "wild"})

\* send() "sends data to an open socket", of up to 1024 bytes.
SendsLong == amount <= 1024 /\ faults = 0 /\ pc \in {"done", "wild"} => pc = "done" /\ Whole(amount)
=============================================================================
