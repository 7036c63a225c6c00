------------------------------ MODULE TxSerial ------------------------------
(***************************************************************************)
(* The transmit path of BufferedSerial: the program (thread context) puts  *)
(* bytes into the ring _txbuf and primes the transmitter; the UART's       *)
(* transmit interrupt takes them out and gives them to the hardware.       *)
(*                                                                         *)
(* The interrupt preempts the thread between any two of its memory         *)
(* accesses and runs to completion.  The accesses of put() that the        *)
(* interrupt can see are therefore steps of their own: the increment of    *)
(* _wloc, the store of the byte (not volatile, and unsequenced with the    *)
(* increment: the build may place it before, between or after the two      *)
(* updates of _wloc) and the wrap of _wloc.                                *)
(*                                                                         *)
(* A byte is represented by its position in the stream of bytes the        *)
(* program has put: the i-th byte is i.                                    *)
(***************************************************************************)
EXTENDS MyBuffer, Sequences

CONSTANTS
  FifoDepth,   \* bytes the UART accepts before serial_writable() is false
  MaxPuts,     \* bound: bytes put in one behaviour
  MaxCall,     \* bound: bytes put by one call of putc, puts or write
  MaxShifts    \* bound: bytes the UART sends in one behaviour

ASSUME FifoAssumption == FifoDepth \in Nat /\ FifoDepth >= 1
ASSUME BoundAssumption == MaxPuts \in Nat /\ MaxCall \in Nat /\ MaxShifts \in Nat

VARIABLES
  buf,      \* the elements of _txbuf
  wloc,     \* _wloc
  rloc,     \* _rloc
  irq,      \* is the transmit interrupt attached (enabled)?
  hw,       \* bytes in the UART's transmit FIFO
  isr,      \* is the interrupt handler running?
  pc,       \* where the thread is
  left,     \* bytes the running call has still to put
  slot,     \* the index the running put() read before incrementing it
  stored,   \* has the running put() stored its byte?
  held,     \* the byte get() has taken in thread context
  nput,     \* ghost: completed put()s
  sent,     \* ghost: what was given to serial_putc(), in order
  overrun,  \* ghost: was a byte put into a full ring?
  raced     \* ghost: did the handler take a byte of an unfinished put()?

thread == <<pc, left, slot, stored, held>>
ghosts == <<nput, sent, overrun, raced>>
vars == <<buf, wloc, rloc, irq, hw, isr, thread, ghosts>>

PCs == {"idle", "put", "wrap", "end", "prime", "detach", "txIrq", "get", "attach"}

\* Only within put() and get() may an index be one past the last slot; a call
\* that is putting has a byte left to put.
TypeOK ==
  /\ buf \in [Slots -> Nat]
  /\ wloc \in 0 .. Size - 1 /\ (pc # "wrap" => wloc \in Slots)
  /\ rloc \in 0 .. Size - 1 /\ (pc # "get" => rloc \in Slots)
  /\ irq \in BOOLEAN
  /\ hw \in 0 .. FifoDepth
  /\ isr \in BOOLEAN
  /\ pc \in PCs
  /\ left \in Nat /\ (pc \in {"put", "wrap", "end"} => left > 0)
  /\ slot \in Slots
  /\ stored \in BOOLEAN
  /\ held \in Nat
  /\ nput \in Nat
  /\ sent \in Seq(Nat)
  /\ overrun \in BOOLEAN
  /\ raced \in BOOLEAN

\* The constructors: a cleared ring, no transmit interrupt.
Init ==
  /\ buf = [i \in Slots |-> 0]
  /\ wloc = 0
  /\ rloc = 0
  /\ irq = FALSE
  /\ hw = 0
  /\ isr = FALSE
  /\ pc = "idle"
  /\ left = 0
  /\ slot = 0
  /\ stored = FALSE
  /\ held = 0
  /\ nput = 0
  /\ sent = << >>
  /\ overrun = FALSE
  /\ raced = FALSE

writable == hw < FifoDepth

\* Bytes put and not yet given to the hardware.
Pending == nput - Len(sent)

-----------------------------------------------------------------------------
(* The thread.  It runs only while the handler does not. *)

At(here, there) == ~isr /\ pc = here /\ pc' = there

\* A call that puts n bytes and then primes the transmitter.
StartCall(n) ==
  /\ At("idle", "put")
  /\ n \in 1 .. MaxCall
  /\ nput + n <= MaxPuts
  /\ left' = n
  /\ UNCHANGED <<buf, wloc, rloc, irq, hw, isr, slot, stored, held, ghosts>>

Putc == StartCall(1)

\* puts() adds a '\n' to the length characters of its argument.
Puts == \E length \in 0 .. MaxCall - 1 : StartCall(length + 1)

\* write() does nothing when it is given no bytes.
Write == \E length \in 1 .. MaxCall : StartCall(length)

\* `_wloc++`: the index is read and, incremented, becomes visible.
PutIndex ==
  /\ At("put", "wrap")
  /\ slot' = wloc
  /\ wloc' = wloc + 1
  /\ overrun' = (overrun \/ Pending >= Capacity)
  /\ UNCHANGED <<buf, rloc, irq, hw, isr, left, stored, held, nput, sent, raced>>

\* `_buf[...] = data`, at any point of the call.
PutStore ==
  /\ ~isr
  /\ pc \in {"put", "wrap", "end"}
  /\ ~stored
  /\ buf' = [buf EXCEPT ![IF pc = "put" THEN wloc ELSE slot] = nput + 1]
  /\ stored' = TRUE
  /\ UNCHANGED <<wloc, rloc, irq, hw, isr, pc, left, slot, held, ghosts>>

\* `_wloc %= (_size-1)`.
PutWrap ==
  /\ At("wrap", "end")
  /\ wloc' = Wrap(wloc)
  /\ UNCHANGED <<buf, rloc, irq, hw, isr, left, slot, stored, held, ghosts>>

\* put() returns to the loop of its caller, or, after the last byte, to prime().
PutReturn ==
  /\ At("end", IF left > 1 THEN "put" ELSE "prime")
  /\ stored
  /\ stored' = FALSE
  /\ left' = left - 1
  /\ nput' = nput + 1
  /\ UNCHANGED <<buf, wloc, rloc, irq, hw, isr, slot, held, sent, overrun, raced>>

\* prime(): "if already busy then the irq will pick this up".
PrimeTest ==
  /\ At("prime", IF writable THEN "detach" ELSE "idle")
  /\ UNCHANGED <<buf, wloc, rloc, irq, hw, isr, left, slot, stored, held, ghosts>>

\* Mutant of PrimeDetach: the interrupt stays attached in prime()'s txIrq().
PrimeKeep ==
  /\ At("detach", "txIrq")
  /\ UNCHANGED <<buf, wloc, rloc, irq, hw, isr, left, slot, stored, held, ghosts>>

PrimeDetach ==
  /\ At("detach", "txIrq")
  /\ irq' = FALSE
  /\ UNCHANGED <<buf, wloc, rloc, hw, isr, left, slot, stored, held, ghosts>>

\* One turn of the loop of txIrq(), called by prime() in thread context.
ThreadTxIrq ==
  /\ At("txIrq", IF writable /\ Available(wloc, rloc) THEN "get" ELSE "attach")
  /\ irq' = IF writable /\ ~Available(wloc, rloc) THEN FALSE ELSE irq
  /\ \/ /\ writable /\ Available(wloc, rloc)
        /\ held' = buf[rloc]
        /\ rloc' = rloc + 1
     \/ /\ ~(writable /\ Available(wloc, rloc))
        /\ UNCHANGED <<held, rloc>>
  /\ UNCHANGED <<buf, wloc, hw, isr, left, slot, stored, ghosts>>

\* The rest of get(), and serial_putc().
ThreadPutc ==
  /\ At("get", "txIrq")
  /\ writable
  /\ rloc' = Wrap(rloc)
  /\ hw' = hw + 1
  /\ sent' = Append(sent, held)
  /\ UNCHANGED <<buf, wloc, irq, isr, left, slot, stored, held, nput, overrun, raced>>

\* Mutant of PrimeAttach: prime() does not attach the interrupt again.
PrimeForget ==
  /\ At("attach", "idle")
  /\ UNCHANGED <<buf, wloc, rloc, irq, hw, isr, left, slot, stored, held, ghosts>>

PrimeAttach ==
  /\ At("attach", "idle")
  /\ irq' = TRUE
  /\ UNCHANGED <<buf, wloc, rloc, hw, isr, left, slot, stored, held, ghosts>>

-----------------------------------------------------------------------------
(* The interrupt handler and the UART. *)

\* The interrupt is pending as long as it is enabled and the FIFO has room.
IsrEnter ==
  /\ irq /\ writable /\ ~isr
  /\ isr' = TRUE
  /\ UNCHANGED <<buf, wloc, rloc, irq, hw, thread, ghosts>>

\* A turn of txIrq() that finds room and a byte.
IsrPutc ==
  /\ isr /\ writable /\ Available(wloc, rloc)
  /\ sent' = Append(sent, buf[rloc])
  /\ rloc' = Wrap(rloc + 1)
  /\ hw' = hw + 1
  /\ raced' = (raced \/ Pending = 0)
  /\ UNCHANGED <<buf, wloc, irq, isr, thread, nput, overrun>>

\* A turn that finds room and no byte: the handler detaches itself.
IsrDetach ==
  /\ isr /\ writable /\ ~Available(wloc, rloc)
  /\ irq' = FALSE
  /\ isr' = FALSE
  /\ UNCHANGED <<buf, wloc, rloc, hw, thread, ghosts>>

\* Mutant of IsrFull: the handler detaches itself also when the FIFO is full.
IsrFullDetach ==
  /\ isr /\ ~writable
  /\ irq' = FALSE
  /\ isr' = FALSE
  /\ UNCHANGED <<buf, wloc, rloc, hw, thread, ghosts>>

\* A turn that finds no room: the handler returns and stays attached.
IsrFull ==
  /\ isr /\ ~writable
  /\ isr' = FALSE
  /\ UNCHANGED <<buf, wloc, rloc, irq, hw, thread, ghosts>>

\* The UART sends a byte.  MaxShifts only matters once a race has made the ring
\* deliver what was never put.
HwShift ==
  /\ hw > 0
  /\ Len(sent) - hw < MaxShifts
  /\ hw' = hw - 1
  /\ UNCHANGED <<buf, wloc, rloc, irq, isr, thread, ghosts>>

Call == Putc \/ Puts \/ Write

Thread ==
  \/ PutIndex \/ PutStore \/ PutWrap \/ PutReturn
  \/ PrimeTest \/ PrimeDetach \/ ThreadTxIrq \/ ThreadPutc \/ PrimeAttach

Isr == IsrEnter \/ IsrPutc \/ IsrDetach \/ IsrFull

Next == Call \/ Thread \/ Isr \/ HwShift

Spec == Init /\ [][Next]_vars

\* A call, once begun, runs on; the interrupt is taken; the UART shifts.
\* Nothing makes the program call again.
FairSpec == Spec /\ WF_vars(Thread) /\ WF_vars(Isr) /\ WF_vars(HwShift)

-----------------------------------------------------------------------------
(* Properties. *)

\* MyBuffer as a queue: unless a byte was put into a full ring, or the handler
\* took a byte out of a put() that was still running, the UART is given the
\* bytes of the program in order, each once, across every wrap of the indices.
InOrder ==
  ~overrun /\ ~raced => \A i \in 1 .. Len(sent) : sent[i] = i

\* prime() "make[s] sure not to cause contention in the irq": the handler does
\* not run, and cannot start, while the thread executes the same loop.
NoContention == pc \in {"txIrq", "get"} => ~isr /\ ~irq

\* No lost wakeup: when the thread has returned from its call and bytes are
\* left in the ring, the interrupt that is to send them is attached, although
\* the handler detaches itself and prime() may decide to do nothing.
NoLostWakeup == pc = "idle" /\ Available(wloc, rloc) => irq

\* Why NoLostWakeup holds: as long as the FIFO is full, or the handler runs, it
\* is attached, except while prime() is at work.
WakeupSupport ==
  /\ isr => irq
  /\ ~writable /\ pc \notin {"txIrq", "get", "attach"} => irq

\* Whatever was put reaches the UART in the end, unless the ring was
\* overfilled or a put() was raced.
AllSent ==
  \A k \in 1 .. MaxPuts : nput >= k ~> (Len(sent) >= k \/ overrun \/ raced)

\* Where the oldest pending byte is, and where the next byte goes, whatever
\* half of a get() or of a put() the thread has done.
Oldest == IF pc = "get" THEN rloc - 1 ELSE rloc
Free == IF pc \in {"wrap", "end"} THEN slot ELSE wloc

\* What the ring holds between any two steps, and why InOrder holds: the
\* pending bytes, in order, in the elements from _rloc to _wloc, and the byte
\* of the running put() in the free element after them.
RingHoldsPending ==
  ~overrun /\ ~raced =>
    /\ Pending \in 0 .. Capacity
    /\ Oldest \in Slots
    /\ Free = Place(Oldest, Pending)
    /\ pc \in {"wrap", "end"} => Pending < Capacity
    /\ pc = "wrap" => wloc = slot + 1
    /\ pc = "end" => wloc = Wrap(slot + 1)
    /\ pc = "get" => Pending > 0 /\ held = Len(sent) + 1
    /\ \A k \in 0 .. Pending - 1 : buf[Place(Oldest, k)] = Len(sent) + 1 + k
    /\ stored => pc \in {"put", "wrap", "end"} /\ buf[Free] = nput + 1
=============================================================================
