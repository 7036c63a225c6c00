------------------------------ MODULE RxSerial ------------------------------
(***************************************************************************)
(* The receive path: rxIrq() of BufferedSerial puts each character into    *)
(* the ring _rxbuf; the thread takes them out again in flushRx(), with     *)
(* which tx() begins, in _readline() and in read() of WNCATParser.         *)
(*                                                                         *)
(* The interrupt comes between any two steps of the thread.  It does not   *)
(* look at _rloc, and the thread does not see half of a put(), so a put()  *)
(* and a get() are a step each; readable() and the get() that follows it   *)
(* are two.                                                                *)
(*                                                                         *)
(* A character in the ring is its position in the stream of characters     *)
(* received; 0 is what clear() has left.                                   *)
(***************************************************************************)
EXTENDS MyBuffer, Sequences

CONSTANTS
  FlushMax,  \* max of flushRx(), RXTX_BUFFER_SIZE
  LineMax,   \* max of _readline(), RXTX_BUFFER_SIZE - 1
  ReadMax,   \* max of read()
  MaxChars   \* bound: characters received in one behaviour

ASSUME MaxAssumption ==
  /\ FlushMax \in Nat \ {0} /\ LineMax \in Nat \ {0} /\ ReadMax \in Nat \ {0}
  /\ MaxChars \in Nat

VARIABLES
  buf, wloc, rloc,  \* _rxbuf
  pc,       \* where the thread is
  op,       \* the function that reads: "line" _readline(), "read" read()
  buffer,   \* the characters it has written into its buffer
  expired,  \* has its timer passed the timeout?
  sent,     \* the characters the modem has sent
  taken,    \* ghost: how many get()s there have been
  from,     \* ghost: taken, when _readline() or read() began
  since,    \* ghost: taken, when the call began that calls _readline(), or read() did
  mark,     \* ghost: how many characters had come when the running tx() began
  overrun   \* ghost: was a character put into a full ring?

ring == <<buf, wloc, rloc, sent, overrun>>
thread == <<pc, op, buffer, expired, taken, from, since, mark>>
rxvars == <<ring, thread>>

\* "urc" is a character with which a notification begins; "ctl" stands for '\r'
\* and everything else that isprint() rejects.
Chars == {"text", "urc", "nl", "ctl"}
Printable(c) == c \in {"text", "urc"}
Char(p) == IF p = 0 THEN "ctl" ELSE sent[p]

RxTypeOK ==
  /\ buf \in [Slots -> 0 .. Len(sent)] /\ wloc \in Slots /\ rloc \in Slots
  /\ pc \in {"idle", "flush", "drop", "look", "wfi", "asleep", "take"}
  /\ op \in {"none", "line", "read"}
  /\ buffer \in Seq(0 .. Len(sent))
  /\ expired \in BOOLEAN
  /\ sent \in Seq(Chars)
  /\ taken \in Nat /\ from \in Nat /\ since \in Nat /\ mark \in 0 .. Len(sent)
  /\ overrun \in BOOLEAN

\* The constructors, and clear().
RxInit ==
  /\ buf = [i \in Slots |-> 0] /\ wloc = 0 /\ rloc = 0
  /\ pc = "idle" /\ op = "none" /\ buffer = << >> /\ expired = FALSE
  /\ sent = << >> /\ taken = 0 /\ from = 0 /\ since = 0 /\ mark = 0
  /\ overrun = FALSE

-----------------------------------------------------------------------------
(* The interrupt. *)

\* The ring is full: this put() makes it look empty.
Overwrites == Len(sent) - taken >= Capacity

\* rxIrq(), without the callback.  A sleeping thread wakes up.
Receive(c) ==
  /\ Len(sent) < MaxChars
  /\ sent' = Append(sent, c)
  /\ buf' = [buf EXCEPT ![wloc] = Len(sent) + 1]
  /\ wloc' = Wrap(wloc + 1)
  /\ overrun' = (overrun \/ Overwrites)
  /\ pc' = IF pc = "asleep" THEN "look" ELSE pc
  /\ UNCHANGED <<rloc, op, buffer, expired, taken, from, since, mark>>

-----------------------------------------------------------------------------
(* The thread. *)

Readable == Available(wloc, rloc)
Goto(there) == pc' = there /\ UNCHANGED <<op, expired, taken, from, since, mark>>

\* Mutant of Get: the read index wraps one element later than the write index.
GetAtSize == rloc' = (rloc + 1) % Size /\ taken' = taken + 1 /\ UNCHANGED <<buf, wloc, sent, overrun>>

\* get(): the character is Char(buf[rloc]).
Get == rloc' = Wrap(rloc + 1) /\ taken' = taken + 1 /\ UNCHANGED <<buf, wloc, sent, overrun>>

\* tx() begins with flushRx().
Tx ==
  /\ pc = "idle" /\ pc' = "flush"
  /\ mark' = Len(sent)
  /\ UNCHANGED <<ring, op, buffer, expired, taken, from, since>>

\* tx() goes on to write its command.
FlushDone == pc' = "idle" /\ mark' = 0 /\ UNCHANGED <<buffer, op, expired, taken, from, since>>

\* Mutant of FlushAgain: tx() does not call flushRx() again.
FlushOnce ==
  pc' = "idle" /\ buffer' = << >> /\ mark' = 0 /\ UNCHANGED <<op, expired, taken, from, since>>

\* flushRx() has returned more than 0, and tx() calls it again.
FlushAgain == buffer' = << >> /\ Goto("flush")

\* readable() in flushRx().  The loops end when there is nothing to read, and tx()
\* ends them when nothing was read either.
FlushLook ==
  /\ pc = "flush"
  /\ IF Readable THEN UNCHANGED buffer /\ Goto("drop")
     ELSE IF buffer = << >> THEN FlushDone ELSE FlushAgain
  /\ UNCHANGED ring

\* The loops may also end when the buffer is full.
FlushFull == pc = "flush" /\ Len(buffer) = FlushMax /\ FlushAgain /\ UNCHANGED ring

\* No character is both printable and '\r', so that flushRx() starts no new line.
FlushGet ==
  /\ pc = "drop" /\ pc' = "flush"
  /\ Get
  /\ buffer' = IF Printable(Char(buf[rloc])) /\ Len(buffer) < FlushMax
               THEN Append(buffer, buf[rloc]) ELSE buffer
  /\ UNCHANGED <<op, expired, from, since, mark>>

Begin(function) ==
  /\ pc = "idle" /\ pc' = "look"
  /\ op' = function
  /\ from' = taken /\ since' = taken
  /\ UNCHANGED <<ring, buffer, expired, taken, mark>>

Readline == Begin("line")
Read == Begin("read")

\* Mutant of URC: a notification is looked for anywhere in the line.
URCAnywhere(whole) ==
  IF op = "line" /\ \E k \in 1 .. Len(buffer) : Char(buffer[k]) = "urc"
  THEN IF whole THEN {TRUE} ELSE BOOLEAN
  ELSE {FALSE}

\* checkURC() of a line; of a part of one it may tell, or not.
URC(whole) ==
  IF op = "line" /\ buffer # << >> /\ Char(Head(buffer)) = "urc"
  THEN IF whole THEN {TRUE} ELSE BOOLEAN
  ELSE {FALSE}

Return == pc' = "idle" /\ op' = "none" /\ from' = 0 /\ since' = 0

\* _readline() or read() returns; readline(), like scan() and rx(), calls
\* _readline() again after a notification.
Finish(whole) ==
  /\ buffer' = << >> /\ expired' = FALSE
  /\ \E urc \in URC(whole) :
       IF urc THEN pc' = "look" /\ from' = taken' /\ UNCHANGED <<op, since>> ELSE Return
  /\ UNCHANGED mark

Limit == IF op = "line" THEN LineMax ELSE ReadMax

\* Mutant of Look: the timer is not looked at.
LookUntimed ==
  /\ pc = "look"
  /\ IF Len(buffer) = Limit THEN UNCHANGED taken /\ Finish(FALSE)
     ELSE UNCHANGED buffer /\ Goto(IF Readable THEN "take" ELSE "wfi")
  /\ UNCHANGED ring

\* `idx < max && timer.read() < timeout`, and readable().
Look ==
  /\ pc = "look"
  /\ IF Len(buffer) = Limit \/ expired THEN UNCHANGED taken /\ Finish(FALSE)
     ELSE UNCHANGED buffer /\ Goto(IF Readable THEN "take" ELSE "wfi")
  /\ UNCHANGED ring

\* An interrupt before __WFI() is not waited for any more.
Sleep == pc = "wfi" /\ UNCHANGED <<buffer, ring>> /\ Goto("asleep")

\* Mutant of Ends: '\n' is dropped like '\r'.
EndsNever(c) == FALSE

\* Only a line that is not empty ends with '\n'.
Ends(c) == op = "line" /\ c = "nl" /\ buffer # << >>

Take ==
  /\ pc = "take"
  /\ Get
  /\ LET c == Char(buf[rloc])
     IN IF Ends(c) THEN Finish(TRUE)
        ELSE /\ buffer' = IF op = "read" \/ Printable(c) THEN Append(buffer, buf[rloc]) ELSE buffer
             /\ pc' = "look"
             /\ UNCHANGED <<op, expired, from, since, mark>>

\* Time passes.
Expire ==
  /\ op # "none" /\ ~expired
  /\ expired' = TRUE
  /\ UNCHANGED <<ring, pc, op, buffer, taken, from, since, mark>>

\* The tick of the kernel wakes a sleeping thread.
Tick == pc = "asleep" /\ UNCHANGED <<buffer, ring>> /\ Goto("look")

Calls == Tx \/ Readline \/ Read
Work == FlushLook \/ FlushFull \/ FlushGet \/ Look \/ Sleep \/ Take

RxNext == (\E c \in Chars : Receive(c)) \/ Calls \/ Work \/ Expire \/ Tick

RxSpec == RxInit /\ [][RxNext]_rxvars

-----------------------------------------------------------------------------
(* Properties. *)

\* Until a character is put into a full ring, the ring holds exactly what has come
\* and has not been taken, in order, and looks empty only when it is, however often
\* the indices have wrapped and wherever the interrupt comes.
RingHoldsUnread ==
  ~overrun =>
    /\ taken <= Len(sent) /\ Len(sent) - taken <= Capacity
    /\ Readable <=> taken < Len(sent)
    /\ \A k \in 0 .. Len(sent) - taken - 1 : buf[Place(rloc, k)] = taken + 1 + k

\* The reader wants character p of the stream.
Wanted(p) == op = "read" \/ Printable(sent[p])

\* Whoever reads has, at every moment, all the printable characters (read(): all)
\* from where the reading began to where it is, each once and in order; and no
\* '\n' among them, so that a line never runs into the next.
LineExact ==
  ~overrun /\ op # "none" =>
    /\ \A k \in 1 .. Len(buffer) :
         /\ buffer[k] \in from + 1 .. taken /\ Wanted(buffer[k])
         /\ \A j \in 1 .. k - 1 : buffer[j] < buffer[k]
    /\ \A p \in from + 1 .. taken : Wanted(p) => \E k \in 1 .. Len(buffer) : buffer[k] = p
    /\ op = "line" =>
         \A p \in from + 1 .. taken : sent[p] = "nl" => buffer = << >> \/ p < buffer[1]

\* tx() "cleans up the input buffer": when it writes its command, all that had come
\* when it began is gone, so that what is read next has come since.
Fresh == [][pc = "flush" /\ pc' = "idle" /\ ~overrun => taken >= mark]_rxvars

\* No line of the stream ends between characters p and q.
SameLine(p, q) == \A r \in p .. q : sent[r] # "nl"

\* No printable character precedes q in its line, as far as the call has read.
Begins(q) == \A r \in since + 1 .. q - 1 : Printable(sent[r]) => ~SameLine(r, q)

\* readline() ensures "the reader doesn't get notifications", and withholds nothing
\* else: whatever the call has read and dropped by the time it reads its last piece
\* belongs to a line that began with a notification, into however many pieces time
\* and room have cut the lines, and however many notifications there were.
OnlyNotifications ==
  ~overrun /\ op = "line" =>
    \A p \in since + 1 .. from :
      Printable(sent[p]) =>
        \E q \in since + 1 .. p : sent[q] = "urc" /\ Begins(q) /\ SameLine(q, p)

\* Whoever reads gets an answer in time, although a character that comes between
\* readable() and __WFI() does not end the sleep.
ReadReturns == pc # "idle" ~> pc = "idle"
=============================================================================
