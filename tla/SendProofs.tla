----------------------------- MODULE SendProofs -----------------------------
(***************************************************************************)
(* For every buffer size, chunk size, length of data and number of faults: *)
(* what the modem has of the data that send() was given.                   *)
(***************************************************************************)
EXTENDS Send, TLAPS

Writing == [from : Nat, len : Nat]

(* What `written` is after one more write. *)
LEMMA Appended ==
  ASSUME NEW w \in Seq(Writing), NEW e \in Writing
  PROVE  /\ Append(w, e) \in Seq(Writing)
         /\ Len(w) \in Nat
         /\ Len(Append(w, e)) = Len(w) + 1
         /\ \A j \in 1 .. Len(w) : Append(w, e)[j] = w[j] /\ w[j] \in Writing
         /\ Append(w, e)[Len(w) + 1] = e
  OBVIOUS

(* A command for fewer bytes is no longer. *)
LEMMA Shorter ==
  ASSUME NEW n \in Nat, NEW k \in 0 .. n, BufferSize \in Nat, CommandFits(n)
  PROVE  CommandFits(k) /\ HexFits(k)
  <1>1. Digits(k) \in 1 .. 4 /\ Digits(n) \in 1 .. 4 /\ Digits(k) <= Digits(n)
    BY DEF Digits
  <1>. QED BY <1>1 DEF CommandFits, HexFits

(* Typing. *)

(* The writes of a step, and how it ends, keep their types. *)
LEMMA EndTyping ==
  ASSUME TypeOK, amount \in Nat, maxSend \in Nat, pc = "try",
         UNCHANGED <<maxSend, amount, size>>, Again \/ GoOn
  PROVE  /\ pc' \in {"next", "try"} /\ at' \in 0 .. amount /\ try' \in {1, 2}
         /\ pc' = "try" => at' + size <= amount
  BY DEF TypeOK, Again, GoOn

THEOREM SendTypingStep == TypeOK /\ [Next]_vars => TypeOK'
  <1>. SUFFICES ASSUME TypeOK, [Next]_vars PROVE TypeOK' OBVIOUS
  <1>0. maxSend \in Nat \ {0} /\ amount \in Nat /\ MaxFaults \in Nat
    BY SendAssumption DEF TypeOK
  <1>1. CASE Chunk BY <1>0, <1>1 DEF TypeOK, Chunk, ChunkSize
  <1>2. CASE Finish BY <1>0, <1>2 DEF TypeOK, Finish
  <1>3. CASE Overrun BY <1>0, <1>3 DEF TypeOK, Overrun
  <1>4. ASSUME NEW n \in 0 .. size, Try, Writes(n), Again \/ GoOn,
               faults' \in 0 .. MaxFaults
        PROVE  TypeOK'
    <2>1. [from |-> at, len |-> n] \in Writing BY <1>0 DEF TypeOK, Writing
    <2>2. written' \in Seq(Writing) BY <1>4, <2>1, Appended DEF TypeOK, Writes, Writing
    <2>3. /\ pc' \in {"next", "try"} /\ at' \in 0 .. amount /\ try' \in {1, 2}
          /\ pc' = "try" => at' + size <= amount
      BY <1>0, <1>4, EndTyping DEF Try
    <2>. QED BY <1>0, <1>4, <2>2, <2>3 DEF TypeOK, Try, Writing
  <1>5. CASE Obeyed
    BY <1>0, <1>4, <1>5 DEF Obeyed, TypeOK
  <1>6. CASE AnswerLost
    <2>1. faults' \in 0 .. MaxFaults BY <1>0, <1>6 DEF AnswerLost, Fault, TypeOK
    <2>. QED BY <1>0, <1>4, <1>6, <2>1 DEF AnswerLost, TypeOK
  <1>7. CASE Short
    <2>1. PICK n \in {m \in {1, size - 1} : 0 < m /\ m < size} : Writes(n) BY <1>7 DEF Short
    <2>2. n \in 0 .. size BY <1>0, <2>1 DEF TypeOK
    <2>3. faults' \in 0 .. MaxFaults BY <1>0, <1>7 DEF Short, Fault, TypeOK
    <2>4. Again \/ GoOn BY <1>7 DEF Short
    <2>. QED BY <1>4, <1>7, <2>1, <2>2, <2>3, <2>4 DEF Short
  <1>8. CASE Unwritten
    <2>1. faults' \in 0 .. MaxFaults BY <1>0, <1>8 DEF Unwritten, Fault, TypeOK
    <2>2. /\ pc' \in {"next", "try"} /\ at' \in 0 .. amount /\ try' \in {1, 2}
          /\ pc' = "try" => at' + size <= amount
      BY <1>0, <1>8, EndTyping DEF Unwritten, Try
    <2>. QED BY <1>0, <1>8, <2>1, <2>2 DEF Unwritten, Try, TypeOK
  <1>9. CASE UNCHANGED vars BY <1>9 DEF TypeOK, vars
  <1>. QED BY <1>1, <1>2, <1>3, <1>5, <1>6, <1>7, <1>8, <1>9 DEF Next

(* The data written, the place in the data and the tries keep their types, and a *)
(* chunk lies within the data. *)
THEOREM SendTyping == Spec => []TypeOK
  <1>1. Init => TypeOK BY SendAssumption DEF Init, TypeOK
  <1>. QED BY <1>1, SendTypingStep, PTL DEF Spec

-----------------------------------------------------------------------------
(* Order. *)

Second == pc \in {"try", "wild"} /\ try = 2

(* What has been written begins before the chunk that is tried, apart from what its *)
(* first try has written. *)
Before ==
  \A i \in 1 .. Len(written) :
    /\ written[i].from <= at
    /\ i < Len(written) \/ ~Second => written[i].from < at

OrderInv == TypeOK /\ Orderly /\ Before

LEMMA OrderWrite ==
  ASSUME OrderInv, Try, NEW n \in 0 .. size, Writes(n), Again \/ GoOn
  PROVE  (Orderly /\ Before)'
  <1>0. amount \in Nat /\ size \in Nat \ {0} /\ at \in Nat /\ try \in {1, 2} /\ pc = "try"
    BY SendAssumption DEF OrderInv, TypeOK, Try
  <1>. DEFINE e == [from |-> at, len |-> n]
              N == Len(written)
  <1>1. /\ written' = Append(written, e) /\ N \in Nat /\ Len(written') = N + 1
        /\ \A j \in 1 .. N : written'[j] = written[j] /\ written[j].from \in Nat
        /\ written'[N + 1].from = at
    <2>1. e \in Writing BY <1>0 DEF Writing
    <2>2. written \in Seq(Writing) BY DEF OrderInv, TypeOK, Writing
    <2>3. written' = Append(written, e) BY DEF Writes
    <2>4. /\ N \in Nat /\ Len(written') = N + 1 /\ written'[N + 1] = e
          /\ \A j \in 1 .. N : written'[j] = written[j] /\ written[j] \in Writing
      <3>. HIDE DEF e
      <3>. QED BY <2>1, <2>2, <2>3, Appended
    <2>. QED BY <2>3, <2>4 DEF Writing
  <1>2. \A j \in 1 .. N : written[j].from <= at /\ (j < N \/ try = 1 => written[j].from < at)
    BY <1>0 DEF OrderInv, Before, Second
  <1>3. \A i, j \in 1 .. N :
          i < j => written[i].from <= written[j].from /\ (i + 1 < j => written[i].from < written[j].from)
    BY DEF OrderInv, Orderly
  <1>. HIDE DEF N, e
  <1>4. Orderly'
    <2>1. SUFFICES ASSUME NEW i \in 1 .. N + 1, NEW j \in 1 .. N + 1, i < j
                   PROVE  /\ written'[i].from <= written'[j].from
                          /\ i + 1 < j => written'[i].from < written'[j].from
      BY <1>1 DEF Orderly
    <2>2. i \in 1 .. N BY <1>1, <2>1
    <2>3. CASE j \in 1 .. N BY <1>1, <1>3, <2>1, <2>2, <2>3
    <2>4. CASE j = N + 1 BY <1>1, <1>2, <2>1, <2>2, <2>4
    <2>. QED BY <1>1, <2>3, <2>4
  <1>5. Before'
    <2>1. SUFFICES ASSUME NEW i \in 1 .. N + 1
                   PROVE  /\ written'[i].from <= at'
                          /\ i < N + 1 \/ ~Second' => written'[i].from < at'
      BY <1>1 DEF Before
    <2>2. CASE GoOn
      <3>1. at' = at + size BY <2>2 DEF GoOn
      <3>2. at < at + size BY <1>0
      <3>3. written'[i].from \in Nat /\ written'[i].from <= at
        BY <1>0, <1>1, <1>2, <2>1
      <3>. QED BY <1>0, <3>1, <3>2, <3>3
    <2>3. CASE try = 1 /\ Again
      <3>1. at' = at /\ try' = 2 /\ pc' = "try" BY <1>0, <2>3 DEF Again
      <3>2. Second' BY <3>1 DEF Second
      <3>3. CASE i \in 1 .. N BY <1>0, <1>1, <1>2, <2>3, <3>1, <3>3
      <3>4. CASE i = N + 1 BY <1>0, <1>1, <3>1, <3>2, <3>4
      <3>. QED BY <1>1, <3>3, <3>4
    <2>4. try = 2 /\ Again => GoOn BY DEF Again
    <2>. QED BY <1>0, <2>2, <2>3, <2>4
  <1>. QED BY <1>4, <1>5

(* A step that writes nothing and stays at its place. *)
LEMMA OrderKept ==
  ASSUME Orderly, Before, written' = written, at' = at, Second => Second'
  PROVE  (Orderly /\ Before)'
  <1>1. Orderly' BY DEF Orderly
  <1>2. Before' BY DEF Before
  <1>. QED BY <1>1, <1>2

(* A step that writes nothing and goes on to the next chunk. *)
LEMMA OrderGoOn ==
  ASSUME OrderInv, Try, GoOn, written' = written
  PROVE  (Orderly /\ Before)'
  <1>1. /\ at \in Nat /\ size \in Nat \ {0} /\ at' = at + size
        /\ \A i \in 1 .. Len(written) : written[i].from \in Nat
    <2>1. amount \in Nat /\ maxSend \in Nat BY SendAssumption DEF OrderInv, TypeOK
    <2>2. written \in Seq(Writing) BY DEF OrderInv, TypeOK, Writing
    <2>3. \A i \in 1 .. Len(written) : written[i] \in Writing BY <2>2
    <2>. QED BY <2>1, <2>3 DEF OrderInv, TypeOK, Try, GoOn, Writing
  <1>2. ASSUME NEW i \in 1 .. Len(written) PROVE written[i].from < at'
    <2>1. written[i].from <= at BY DEF OrderInv, Before
    <2>. QED BY <1>1, <2>1
  <1>3. at' \in Nat BY <1>1
  <1>4. Orderly' BY DEF Orderly, OrderInv
  <1>5. ASSUME NEW i \in 1 .. Len(written) PROVE written[i].from <= at'
    BY <1>1, <1>2, <1>3
  <1>6. Before' BY <1>2, <1>5 DEF Before
  <1>. QED BY <1>4, <1>6

THEOREM OrderStep == OrderInv /\ [Next]_vars => OrderInv'
  <1>. SUFFICES ASSUME OrderInv, [Next]_vars PROVE (Orderly /\ Before)'
    BY SendTypingStep DEF OrderInv
  <1>1. Orderly /\ Before BY DEF OrderInv
  <1>2. size \in Nat /\ try \in {1, 2}
    BY SendAssumption DEF OrderInv, TypeOK
  <1>4. CASE Chunk BY <1>1, <1>4, OrderKept DEF Chunk, Second
  <1>5. CASE Finish
    <2>1. ~Second BY <1>5 DEF Finish, Second
    <2>. QED BY <1>1, <1>5, <2>1, OrderKept DEF Finish
  <1>6. CASE Overrun
    <2>1. Second => Second' BY <1>6 DEF Overrun, Second
    <2>. QED BY <1>1, <1>6, <2>1, OrderKept DEF Overrun
  <1>7. CASE Obeyed BY <1>2, <1>7, OrderWrite DEF Obeyed
  <1>8. CASE AnswerLost BY <1>2, <1>8, OrderWrite DEF AnswerLost
  <1>9. CASE Short
    <2>1. PICK n \in {m \in {1, size - 1} : 0 < m /\ m < size} : Writes(n) BY <1>9 DEF Short
    <2>2. n \in 0 .. size BY <1>2, <2>1
    <2>. QED BY <1>9, <2>1, <2>2, OrderWrite DEF Short
  <1>10. CASE Unwritten
    <2>0. Try /\ pc = "try" /\ written' = written BY <1>10 DEF Unwritten, Try
    <2>1. CASE GoOn BY <2>0, <2>1, OrderGoOn
    <2>2. CASE try = 1 /\ Again
      <3>1. at' = at BY <2>2 DEF Again
      <3>2. ~Second BY <2>2 DEF Second
      <3>. QED BY <1>1, <2>0, <3>1, <3>2, OrderKept
    <2>3. try = 2 /\ Again => GoOn BY DEF Again
    <2>. QED BY <1>2, <1>10, <2>1, <2>2, <2>3 DEF Unwritten
  <1>11. CASE UNCHANGED vars
    <2>1. Second => Second' BY <1>11 DEF vars, Second
    <2>. QED BY <1>1, <1>11, <2>1, OrderKept DEF vars
  <1>. QED BY <1>4, <1>5, <1>6, <1>7, <1>8, <1>9, <1>10, <1>11 DEF Next

(* Whatever fails, the modem writes a chunk twice at most, and none after a later one. *)
THEOREM SendOrderly == Spec => []Orderly
  <1>1. Init => OrderInv
    BY SendAssumption DEF Init, OrderInv, TypeOK, Orderly, Before
  <1>2. OrderInv => Orderly BY DEF OrderInv
  <1>. QED BY <1>1, <1>2, OrderStep, PTL DEF Spec

-----------------------------------------------------------------------------
(* Faults. *)

(* What a call that fits lets a try do. *)
LEMMA FitsSize ==
  ASSUME TypeOK, Fits, pc = "try"
  PROVE  CommandFits(size) /\ HexFits(size)
  <1>. DEFINE most == IF amount < maxSend THEN amount ELSE maxSend
  <1>1. amount \in Nat /\ maxSend \in Nat /\ BufferSize \in Nat BY SendAssumption DEF TypeOK
  <1>2. most \in Nat /\ size \in 0 .. most BY <1>1 DEF TypeOK
  <1>3. CommandFits(most) BY DEF Fits
  <1>. HIDE DEF most
  <1>. QED BY <1>1, <1>2, <1>3, Shorter

(* The data are the same in every step, and faults are only added. *)
LEMMA FaultsGrow ==
  ASSUME TypeOK, [Next]_vars
  PROVE  faults \in Nat /\ faults' \in Nat /\ faults <= faults' /\ Fits' = Fits
  <1>1. faults \in Nat /\ faults' \in Nat
    BY SendTypingStep, SendAssumption DEF TypeOK
  <1>2. faults <= faults'
    BY <1>1 DEF Next, vars, Chunk, Finish, Overrun, Obeyed, AnswerLost, Short, Unwritten, Fault
  <1>3. UNCHANGED <<maxSend, amount>>
    BY DEF Next, vars, Chunk, Finish, Overrun, Obeyed, AnswerLost, Short, Unwritten, Try
  <1>4. Fits' = Fits BY <1>3 DEF Fits
  <1>. QED BY <1>1, <1>2, <1>4

(* A second try has cost a fault. *)
Paid == Fits /\ pc = "try" /\ try = 2 => faults >= 1

FaultInv == TypeOK /\ OneFault /\ Paid

(* A write leaves what is written where it is. *)
LEMMA WholeWrites ==
  ASSUME TypeOK, NEW n \in Nat, Writes(n), NEW to \in Nat, Whole(to)
  PROVE  /\ \A p \in 0 .. to - 1 :
              \E j \in 1 .. Len(written') :
                 written'[j].from <= p /\ p < written'[j].from + written'[j].len
         /\ \E j \in 1 .. Len(written') : written'[j] = [from |-> at, len |-> n]
  <1>. DEFINE e == [from |-> at, len |-> n]
              N == Len(written)
  <1>1. e \in Writing BY SendAssumption DEF TypeOK, Writing
  <1>2. written \in Seq(Writing) /\ written' = Append(written, e)
    BY DEF TypeOK, Writing, Writes
  <1>3. /\ N \in Nat /\ Len(written') = N + 1 /\ written'[N + 1] = e
        /\ \A j \in 1 .. N : written'[j] = written[j]
    <2>. HIDE DEF e
    <2>. QED BY <1>1, <1>2, Appended
  <1>. HIDE DEF e
  <1>4. \E j \in 1 .. Len(written') : written'[j] = e
    <2>1. N + 1 \in 1 .. Len(written') BY <1>3
    <2>. QED BY <1>3, <2>1
  <1>5. ASSUME NEW p \in 0 .. to - 1
        PROVE  \E j \in 1 .. Len(written') :
                 written'[j].from <= p /\ p < written'[j].from + written'[j].len
    <2>1. PICK j \in 1 .. N : written[j].from <= p /\ p < written[j].from + written[j].len
      BY DEF Whole
    <2>2. j \in 1 .. Len(written') /\ written'[j] = written[j] BY <1>3, <2>1
    <2>. QED BY <2>1, <2>2
  <1>. QED BY <1>4, <1>5 DEF e

(* The whole chunk is written. *)
LEMMA WholeWritten ==
  ASSUME TypeOK, pc = "try", Writes(size), Whole(at), at' \in {at, at + size}
  PROVE  Whole(at)'
  <1>1. at \in Nat /\ size \in Nat BY SendAssumption DEF TypeOK
  <1>2. ASSUME NEW p \in 0 .. at + size - 1
        PROVE  \E j \in 1 .. Len(written') :
                 written'[j].from <= p /\ p < written'[j].from + written'[j].len
    <2>1. CASE p \in 0 .. at - 1 BY <1>1, <2>1, WholeWrites
    <2>2. CASE p \in at .. at + size - 1
      <3>1. PICK j \in 1 .. Len(written') : written'[j] = [from |-> at, len |-> size]
        BY <1>1, WholeWrites
      <3>2. written'[j].from = at /\ written'[j].len = size BY <3>1
      <3>3. written'[j].from <= p /\ p < written'[j].from + written'[j].len BY <1>1, <2>2, <3>2
      <3>. QED BY <3>3
    <2>. QED BY <1>1, <2>1, <2>2
  <1>3. \A p \in 0 .. at - 1 : p \in 0 .. at + size - 1 BY <1>1
  <1>4. CASE at' = at BY <1>2, <1>3, <1>4 DEF Whole
  <1>5. CASE at' = at + size
    <2>1. SUFFICES ASSUME NEW p \in 0 .. at' - 1
                   PROVE  \E j \in 1 .. Len(written') :
                            written'[j].from <= p /\ p < written'[j].from + written'[j].len
      BY DEF Whole
    <2>2. p \in 0 .. at + size - 1 BY <1>1, <1>5
    <2>. QED BY <1>2, <2>2
  <1>. QED BY <1>4, <1>5

THEOREM FaultStep == FaultInv /\ [Next]_vars => FaultInv'
  <1>. SUFFICES ASSUME FaultInv, [Next]_vars PROVE FaultInv' OBVIOUS
  <1>. SUFFICES ASSUME Fits PROVE (faults' <= 1 => Whole(at)') /\ Paid'
    <2>1. TypeOK' /\ Fits' = Fits BY FaultsGrow, SendTypingStep DEF FaultInv
    <2>. QED BY <2>1 DEF FaultInv, OneFault, Paid
  <1>1. TypeOK /\ OneFault /\ Paid BY DEF FaultInv
  <1>2. faults \in Nat /\ faults' \in Nat /\ faults <= faults' BY <1>1, FaultsGrow
  <1>3. at \in Nat /\ size \in Nat /\ try \in {1, 2} BY <1>1, SendAssumption DEF TypeOK
  <1>4. faults <= 1 => Whole(at) BY <1>1 DEF OneFault
  <1>5. CASE Chunk
    <2>1. Paid' BY <1>5 DEF Chunk, Paid
    <2>2. Whole(at) => Whole(at)' BY <1>5 DEF Chunk, Whole
    <2>. QED BY <1>4, <1>5, <2>1, <2>2 DEF Chunk
  <1>6. CASE Finish \/ Overrun
    <2>1. Paid' BY <1>6 DEF Finish, Overrun, Paid
    <2>2. faults' = faults /\ (Whole(at) => Whole(at)')
      BY <1>6 DEF Finish, Overrun, Whole
    <2>. QED BY <1>4, <2>1, <2>2
  <1>7. CASE Obeyed
    <2>1. pc = "try" /\ Writes(size) /\ GoOn /\ faults' = faults BY <1>7 DEF Obeyed, Try
    <2>2. Whole(at) => Whole(at)' BY <1>1, <2>1, WholeWritten DEF GoOn
    <2>3. Paid' BY <2>1 DEF GoOn, Paid
    <2>. QED BY <1>4, <2>1, <2>2, <2>3
  <1>8. CASE AnswerLost
    <2>1. pc = "try" /\ Writes(size) /\ faults' = faults + 1 /\ (Again \/ GoOn)
      BY <1>8 DEF AnswerLost, Try, Fault
    <2>2. at' \in {at, at + size} BY <2>1 DEF Again, GoOn
    <2>3. Whole(at) => Whole(at)' BY <1>1, <2>1, <2>2, WholeWritten
    <2>4. faults' >= 1 BY <1>2, <2>1
    <2>5. Paid' BY <2>4 DEF Paid
    <2>. QED BY <1>2, <1>4, <2>3, <2>5
  <1>9. ASSUME pc = "try", faults' = faults + 1, Again,
               Whole(at) => \A p \in 0 .. at - 1 :
                 \E j \in 1 .. Len(written') :
                    written'[j].from <= p /\ p < written'[j].from + written'[j].len
        PROVE  (faults' <= 1 => Whole(at)') /\ Paid'
    <2>1. faults' >= 1 BY <1>2, <1>9
    <2>2. Paid' BY <2>1 DEF Paid
    <2>3. CASE try = 2
      <3>1. faults >= 1 BY <1>1, <1>9, <2>3 DEF Paid
      <3>2. ~(faults' <= 1) BY <1>2, <1>9, <3>1
      <3>. QED BY <2>2, <3>2
    <2>4. CASE try = 1
      <3>1. at' = at BY <1>9, <2>4 DEF Again
      <3>2. Whole(at) => Whole(at)' BY <1>9, <3>1 DEF Whole
      <3>. QED BY <1>2, <1>4, <2>2, <3>2
    <2>. QED BY <1>3, <2>3, <2>4
  <1>10. CASE Short
    <2>0. pc = "try" BY <1>10 DEF Short, Try
    <2>1. PICK n \in {m \in {1, size - 1} : 0 < m /\ m < size} : Writes(n) BY <1>10 DEF Short
    <2>2. n \in Nat BY <1>3, <2>1
    <2>3. CASE Fault(1) /\ Again
      BY <1>1, <1>3, <1>9, <2>0, <2>1, <2>2, <2>3, WholeWrites DEF Fault
    <2>4. CASE Fault(2) /\ GoOn
      <3>1. ~(faults' <= 1) BY <1>2, <2>4 DEF Fault
      <3>2. Paid' BY <2>4 DEF GoOn, Paid
      <3>. QED BY <3>1, <3>2
    <2>. QED BY <1>10, <2>3, <2>4 DEF Short
  <1>11. CASE Unwritten
    <2>1. CommandFits(size) BY <1>1, <1>11, FitsSize DEF Unwritten, Try
    <2>2. pc = "try" /\ faults' = faults + 1 /\ Again /\ written' = written
      BY <1>11, <2>1 DEF Unwritten, Try, Fault
    <2>. QED BY <1>9, <2>2 DEF Whole
  <1>12. CASE UNCHANGED vars
    <2>1. Paid' BY <1>1, <1>12 DEF vars, Paid, Fits
    <2>2. Whole(at) => Whole(at)' BY <1>12 DEF vars, Whole
    <2>. QED BY <1>4, <1>12, <2>1, <2>2 DEF vars
  <1>. QED BY <1>5, <1>6, <1>7, <1>8, <1>10, <1>11, <1>12 DEF Next

(* A single fault costs no byte: of a chunk that has gone by without having been *)
(* written whole, both tries have failed. *)
THEOREM SendOneFault == Spec => []OneFault
  <1>1. Init => FaultInv
    BY SendAssumption DEF Init, FaultInv, TypeOK, OneFault, Whole, Paid
  <1>2. FaultInv => OneFault BY DEF FaultInv
  <1>. QED BY <1>1, <1>2, FaultStep, PTL DEF Spec

-----------------------------------------------------------------------------
(* Without faults. *)

(* Where the first j writes end. *)
End(w, j) == IF j = 0 THEN 0 ELSE w[j].from + w[j].len
Chained(w, to) ==
  (\A j \in 1 .. Len(w) : w[j].from = End(w, j - 1)) /\ End(w, Len(w)) = to

LEMMA ExactIs == Exact <=> (Fits /\ faults = 0 => Chained(written, at))
  BY Zenon DEF Exact, Chained, End

LEMMA ChainedOn ==
  ASSUME NEW w \in Seq(Writing), NEW to \in Nat, NEW n \in Nat, Chained(w, to)
  PROVE  Chained(Append(w, [from |-> to, len |-> n]), to + n)
  <1>. DEFINE e == [from |-> to, len |-> n]
              v == Append(w, e)
              N == Len(w)
  <1>1. e \in Writing /\ e.from = to /\ e.len = n BY DEF Writing
  <1>. HIDE DEF e
  <1>2. N \in Nat /\ Len(v) = N + 1 /\ v[N + 1] = e /\ \A j \in 1 .. N : v[j] = w[j]
    BY <1>1, Appended
  <1>. HIDE DEF v, N
  <1>3. \A j \in 0 .. N : End(v, j) = End(w, j) BY <1>2 DEF End
  <1>4. (\A j \in 1 .. N : w[j].from = End(w, j - 1)) /\ End(w, N) = to
    BY DEF Chained, N
  <1>5. ASSUME NEW j \in 1 .. N + 1 PROVE v[j].from = End(v, j - 1)
    <2>1. j - 1 \in 0 .. N BY <1>2
    <2>2. CASE j \in 1 .. N BY <1>2, <1>3, <1>4, <2>1, <2>2
    <2>3. CASE j = N + 1
      <3>1. j - 1 = N BY <1>2, <2>3
      <3>. QED BY <1>1, <1>2, <1>3, <1>4, <2>1, <2>3, <3>1
    <2>. QED BY <1>2, <2>2, <2>3
  <1>6. End(v, N + 1) = to + n BY <1>1, <1>2 DEF End
  <1>7. Chained(v, to + n) BY <1>2, <1>5, <1>6 DEF Chained
  <1>. QED BY <1>7 DEF v, e

THEOREM ExactStep == TypeOK /\ Exact /\ [Next]_vars => Exact'
  <1>. SUFFICES ASSUME TypeOK, Exact, [Next]_vars PROVE Exact' OBVIOUS
  <1>. SUFFICES ASSUME Fits', faults' = 0 PROVE Chained(written, at)'
    BY Zenon DEF Exact, Chained, End
  <1>0. Fits BY FaultsGrow
  <1>1. faults \in Nat /\ faults = 0 /\ Chained(written, at)
    <2>1. faults \in Nat /\ faults <= faults' BY FaultsGrow
    <2>2. faults = 0 BY <2>1
    <2>. QED BY <1>0, <2>2, ExactIs
  <1>2. CASE Obeyed
    <2>1. /\ written \in Seq(Writing) /\ at \in Nat /\ size \in Nat
          /\ written' = Append(written, [from |-> at, len |-> size]) /\ at' = at + size
      BY <1>2, SendAssumption DEF Obeyed, Writes, GoOn, TypeOK, Writing
    <2>. QED BY <1>1, <2>1, ChainedOn
  <1>3. CASE Chunk \/ Finish \/ Overrun \/ UNCHANGED vars
    BY <1>1, <1>3 DEF Chunk, Finish, Overrun, vars
  <1>4. CASE AnswerLost \/ Short \/ Unwritten
    <2>1. pc = "try" => CommandFits(size) BY <1>0, FitsSize
    <2>2. faults' = faults + 1 \/ faults' = faults + 2
      BY <1>4, <2>1 DEF AnswerLost, Short, Unwritten, Try, Fault
    <2>. QED BY <1>1, <2>2
  <1>. QED BY <1>2, <1>3, <1>4 DEF Next

(* Without faults everything is written once and in order. *)
THEOREM SendExact == Spec => []Exact
  <1>1. ASSUME Init PROVE Exact
    <2>1. Len(written) = 0 /\ at = 0 BY <1>1 DEF Init
    <2>2. Chained(written, at) BY <2>1 DEF Chained, End
    <2>. QED BY <2>2, ExactIs
  <1>2. Init => TypeOK BY SendAssumption DEF Init, TypeOK
  <1>. QED BY <1>1, <1>2, SendTypingStep, ExactStep, PTL DEF Spec
-----------------------------------------------------------------------------
(* What fits, and what becomes of the rest. *)

(* With the buffer of the code, of 1500 characters, a command for up to 739 bytes is *)
(* printed in full, one for 740 to 749 is cut off, and more overrun numStr: send() is *)
(* right up to 739 bytes, where its header promises 1024.                             *)
THEOREM SendLimit ==
  ASSUME BufferSize = 1500, TypeOK
  PROVE  /\ Fits <=> amount <= 739 \/ maxSend <= 739
         /\ \A n \in Nat : CommandFits(n) <=> n <= 739
         /\ \A n \in Nat : HexFits(n) <=> n <= 749
  <1>1. amount \in Nat /\ maxSend \in Nat BY SendAssumption DEF TypeOK
  <1>2. ASSUME NEW n \in Nat PROVE CommandFits(n) <=> n <= 739
    <2>1. CASE n < 100 BY <2>1 DEF CommandFits, Digits
    <2>2. CASE n >= 100 /\ n < 1000 BY <2>2 DEF CommandFits, Digits
    <2>3. CASE n >= 1000 BY <2>3 DEF CommandFits, Digits
    <2>. QED BY <2>1, <2>2, <2>3
  <1>3. \A n \in Nat : HexFits(n) <=> n <= 749 BY DEF HexFits
  <1>4. Fits <=> amount <= 739 \/ maxSend <= 739
    <2>. DEFINE most == IF amount < maxSend THEN amount ELSE maxSend
    <2>1. most \in Nat /\ (most <= 739 <=> amount <= 739 \/ maxSend <= 739) BY <1>1
    <2>2. Fits <=> CommandFits(most) BY DEF Fits
    <2>. HIDE DEF most
    <2>. QED BY <1>2, <2>1, <2>2
  <1>. QED BY <1>2, <1>3, <1>4

(* How a call ends: at the end of its data, or past the end of its buffer. *)
AtEnd ==
  /\ pc = "done" => at = amount
  /\ pc = "wild" => ~Fits

LEMMA AtEndStep == TypeOK /\ AtEnd /\ [Next]_vars => AtEnd'
  <1>. SUFFICES ASSUME TypeOK, AtEnd, [Next]_vars PROVE AtEnd' OBVIOUS
  <1>0. Fits' = Fits BY FaultsGrow
  <1>1. CASE Chunk \/ Finish BY <1>1 DEF Chunk, Finish, AtEnd
  <1>2. CASE Overrun BY <1>0, <1>2, FitsSize DEF Overrun, AtEnd
  <1>3. CASE Obeyed \/ AnswerLost \/ Short \/ Unwritten
    <2>1. pc = "try" /\ (Again \/ GoOn)
      BY <1>3 DEF Obeyed, AnswerLost, Short, Unwritten, Try
    <2>2. pc' \in {"next", "try"} BY <2>1 DEF Again, GoOn
    <2>. QED BY <2>2 DEF AtEnd
  <1>4. CASE UNCHANGED vars BY <1>0, <1>4 DEF AtEnd, vars
  <1>. QED BY <1>1, <1>2, <1>3, <1>4 DEF Next

(* What the call promises when it returns, for as long as its commands fit: with one *)
(* fault at most all its data have been written.                                     *)
WholeAtEnd == Fits /\ faults <= 1 /\ pc \in {"done", "wild"} => pc = "done" /\ Whole(amount)

(* A call whose commands fit never writes past its buffer, and with one fault at most *)
(* it returns when all its data have been written: what SendsLong says is true of     *)
(* every length up to the limit.                                                      *)
THEOREM SendWhole == Spec => []WholeAtEnd
  <1>1. Init => AtEnd BY DEF Init, AtEnd
  <1>2. Init => TypeOK BY SendAssumption DEF Init, TypeOK
  <1>3. AtEnd /\ OneFault => WholeAtEnd BY DEF AtEnd, OneFault, WholeAtEnd
  <1>. QED BY <1>1, <1>2, <1>3, AtEndStep, SendTypingStep, SendOneFault, PTL DEF Spec

(* Data of one chunk that does not fit: nothing of them is ever written. *)
CutOff == amount <= maxSend /\ ~CommandFits(amount) => written = << >>

(* The only chunk of such data is all of them. *)
OnlyChunk == amount <= maxSend => at \in {0, amount} /\ (pc = "try" => size = amount)

(* Data of 740 to 749 bytes are never written, not one byte, although no fault occurs *)
(* and send() returns true: the command is cut off, and so is every retry.            *)
THEOREM SendCutOff == Spec => []CutOff
  <1>1. Init => OnlyChunk /\ CutOff BY DEF Init, OnlyChunk, CutOff
  <1>2. TypeOK /\ OnlyChunk /\ CutOff /\ [Next]_vars => OnlyChunk' /\ CutOff'
    <2>. SUFFICES ASSUME TypeOK, OnlyChunk, CutOff, [Next]_vars PROVE OnlyChunk' /\ CutOff'
      OBVIOUS
    <2>7. UNCHANGED <<maxSend, amount>>
      BY DEF Next, vars, Chunk, Finish, Overrun, Obeyed, AnswerLost, Short, Unwritten, Try
    <2>8. CommandFits(amount)' <=> CommandFits(amount) BY <2>7 DEF CommandFits, Digits
    <2>. SUFFICES ASSUME amount <= maxSend
                  PROVE  /\ at' \in {0, amount} /\ (pc' = "try" => size' = amount)
                         /\ ~CommandFits(amount) => written' = << >>
      BY <2>7, <2>8 DEF OnlyChunk, CutOff
    <2>9. amount \in Nat /\ maxSend \in Nat BY SendAssumption DEF TypeOK
    <2>0. /\ amount \in Nat /\ maxSend \in Nat /\ size \in Nat /\ at \in {0, amount}
          /\ pc = "try" => size = amount /\ size > 0 /\ at + size <= amount
          /\ ~CommandFits(amount) => written = << >>
      BY <2>9 DEF TypeOK, OnlyChunk, CutOff
    <2>1. CASE Chunk
      <3>1. at = 0 BY <2>0, <2>1 DEF Chunk
      <3>. QED BY <2>0, <2>1, <3>1 DEF Chunk, ChunkSize
    <2>2. CASE Finish \/ Overrun BY <2>0, <2>2 DEF Finish, Overrun
    <2>3. CASE Obeyed \/ AnswerLost \/ Short \/ Unwritten
      <3>1. /\ pc = "try" /\ (Again \/ GoOn) /\ size' = size
            /\ CommandFits(size) \/ written' = written
        BY <2>3 DEF Obeyed, AnswerLost, Short, Unwritten, Try
      <3>2. at = 0 /\ size = amount BY <2>0, <3>1
      <3>3. at' \in {0, amount} BY <3>1, <3>2, <2>0 DEF Again, GoOn
      <3>. QED BY <2>0, <3>1, <3>2, <3>3
    <2>4. CASE UNCHANGED vars BY <2>0, <2>4 DEF vars
    <2>. QED BY <2>1, <2>2, <2>3, <2>4 DEF Next
  <1>3. Init => TypeOK BY SendAssumption DEF Init, TypeOK
  <1>. QED BY <1>1, <1>2, <1>3, SendTypingStep, PTL DEF Spec

-----------------------------------------------------------------------------
(* How long a call can last. *)

(* What is left to do: three steps for each byte are more than enough for a chunk and *)
(* its two tries, however small the chunk.                                            *)
Effort ==
  CASE pc = "next" -> 3 * (amount - at) + 1
    [] pc = "try" -> 3 * (amount - at) + 1 - try
    [] OTHER -> 0

EffortFalls == Effort' < Effort

(* Every step of a call brings it nearer to its end, whatever fails: no chunk is tried *)
(* a third time, and none is gone back to.  SendEnds follows if the steps are taken.   *)
THEOREM SendEffort == Spec => [](Effort \in Nat) /\ [][EffortFalls]_vars
  <1>1. ASSUME TypeOK PROVE Effort \in Nat
    <2>1. amount \in Nat BY <1>1, SendAssumption DEF TypeOK
    <2>2. /\ at \in 0 .. amount /\ size \in Int /\ try \in {1, 2}
          /\ pc = "try" => size > 0 /\ at + size <= amount
      BY <1>1, SendAssumption DEF TypeOK
    <2>. QED BY <2>1, <2>2 DEF Effort
  <1>2. TypeOK /\ TypeOK' /\ [Next]_vars => [EffortFalls]_vars
    <2>. SUFFICES ASSUME TypeOK, TypeOK', Next PROVE Effort' < Effort
      BY DEF EffortFalls
    <2>1. /\ amount \in Nat /\ at \in Nat /\ at <= amount /\ try \in {1, 2} /\ size \in Nat
          /\ pc = "try" => size > 0 /\ at + size <= amount
      BY SendAssumption DEF TypeOK
    <2>2. CASE Chunk
      <3>1. pc = "next" /\ pc' = "try" /\ UNCHANGED <<amount, at>> /\ try' = 1 BY <2>2 DEF Chunk
      <3>. QED BY <2>1, <3>1 DEF Effort
    <2>3. CASE Finish
      <3>1. pc = "next" /\ pc' = "done" BY <2>3 DEF Finish
      <3>. QED BY <2>1, <3>1 DEF Effort
    <2>4. CASE Overrun
      <3>1. pc = "try" /\ pc' = "wild" BY <2>4 DEF Overrun
      <3>. QED BY <2>1, <3>1 DEF Effort
    <2>5. CASE Obeyed \/ AnswerLost \/ Short \/ Unwritten
      <3>1. pc = "try" /\ UNCHANGED amount /\ (Again \/ GoOn)
        BY <2>5 DEF Obeyed, AnswerLost, Short, Unwritten, Try
      <3>2. CASE GoOn
        <4>1. pc' = "next" /\ at' = at + size BY <3>2 DEF GoOn
        <4>. QED BY <2>1, <3>1, <4>1 DEF Effort
      <3>3. CASE try < 2 /\ Again
        <4>1. pc' = "try" /\ at' = at /\ try' = 2 /\ try = 1 BY <2>1, <3>1, <3>3 DEF Again
        <4>. QED BY <2>1, <3>1, <4>1 DEF Effort
      <3>. QED BY <3>1, <3>2, <3>3 DEF Again
    <2>. QED BY <2>2, <2>3, <2>4, <2>5 DEF Next
  <1>. QED BY <1>1, <1>2, SendTyping, PTL DEF Spec
=============================================================================
