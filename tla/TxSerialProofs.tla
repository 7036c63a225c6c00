--------------------------- MODULE TxSerialProofs ---------------------------
(* Theorems about TxSerial, for every ring size, FIFO depth and bound. *)
EXTENDS TxSerial, TLAPS

(* The indices of the ring, for every size. *)
\* What `%=` computes for the indices the code gives it: an index that has
\* just been incremented is at most _size - 1, and only that one wraps.
LEMMA WrapIs ==
  ASSUME NEW i \in 0 .. Size - 1
  PROVE  Wrap(i) = IF i = Size - 1 THEN 0 ELSE i
BY SizeAssumption DEF Wrap

\* Stepping through the elements and wrapping at the end is the same thing.
LEMMA PlaceIs ==
  ASSUME NEW i \in Slots, NEW k \in 0 .. Size - 1
  PROVE  /\ Place(i, k) \in Slots
         /\ Place(i, 0) = i
         /\ k < Size - 1 => Wrap(Place(i, k) + 1) = Place(i, k + 1)
         /\ k < Size - 1 => Place(Wrap(i + 1), k) = Place(i, k + 1)
         /\ Wrap(i + 1) \in Slots
BY SizeAssumption, WrapIs DEF Place, Slots

\* Fewer than _size - 1 consecutive elements are all different.
LEMMA PlacesDiffer ==
  ASSUME NEW i \in Slots, NEW j \in 0 .. Size - 2, NEW k \in 0 .. j - 1
  PROVE  Place(i, j) # Place(i, k)
BY SizeAssumption DEF Place, Slots

-----------------------------------------------------------------------------
\* The part of the state that decides who runs when.
Wakeup == NoContention /\ NoLostWakeup /\ WakeupSupport

\* Types and the wakeup discipline are inductive together: that no index is
\* read out of range depends on the handler staying out of txIrq() in prime().
LEMMA WakeupStep == TypeOK /\ Wakeup /\ [Next]_vars => TypeOK' /\ Wakeup'
<1> SUFFICES ASSUME TypeOK, Wakeup, [Next]_vars PROVE TypeOK' /\ Wakeup'
  OBVIOUS
<1> USE SizeAssumption, FifoAssumption, BoundAssumption
    DEF TypeOK, Slots, PCs, thread, ghosts, At, writable, Available,
        Wakeup, NoContention, NoLostWakeup, WakeupSupport
<1>1. ASSUME NEW n, StartCall(n) PROVE TypeOK' /\ Wakeup'
  BY <1>1 DEF StartCall
<1>2. CASE Call
  BY <1>1, <1>2 DEF Call, Putc, Puts, Write
<1>3. CASE PutIndex
  BY <1>3 DEF PutIndex
<1>4. CASE PutStore
  BY <1>4 DEF PutStore
<1>5. CASE PutWrap
  BY <1>5, WrapIs DEF PutWrap
<1>6. CASE PutReturn
  BY <1>6 DEF PutReturn
<1>7. CASE PrimeTest
  BY <1>7 DEF PrimeTest
<1>8. CASE PrimeDetach
  BY <1>8 DEF PrimeDetach
<1>9. CASE ThreadTxIrq
  BY <1>9 DEF ThreadTxIrq
<1>10. CASE ThreadPutc
  BY <1>10, WrapIs DEF ThreadPutc
<1>11. CASE PrimeAttach
  BY <1>11 DEF PrimeAttach
<1>12. CASE IsrEnter
  BY <1>12 DEF IsrEnter
<1>13. CASE IsrPutc
  BY <1>13, WrapIs DEF IsrPutc
<1>14. CASE IsrDetach
  BY <1>14 DEF IsrDetach
<1>15. CASE IsrFull
  BY <1>15 DEF IsrFull
<1>16. CASE HwShift
  BY <1>16 DEF HwShift
<1>17. CASE UNCHANGED vars
  BY <1>17 DEF vars
<1> QED
  BY <1>2, <1>3, <1>4, <1>5, <1>6, <1>7, <1>8, <1>9, <1>10, <1>11, <1>12,
     <1>13, <1>14, <1>15, <1>16, <1>17 DEF Next, Thread, Isr

LEMMA WakeupInvariant == Spec => [](TypeOK /\ Wakeup)
<1>1. Init => TypeOK /\ Wakeup
  BY SizeAssumption, FifoAssumption
     DEF Init, TypeOK, Slots, PCs, Wakeup, NoContention, NoLostWakeup,
         WakeupSupport, writable, Available
<1>2. QED
  BY <1>1, WakeupStep, PTL DEF Spec

\* Every variable keeps its type; in particular no index leaves the buffer.
THEOREM TxTyping == Spec => []TypeOK
BY WakeupInvariant, PTL

\* The handler never runs while prime() executes txIrq() in thread context.
THEOREM TxNoContention == Spec => []NoContention
<1>1. Wakeup => NoContention
  BY DEF Wakeup
<1>2. QED
  BY <1>1, WakeupInvariant, PTL

\* Bytes left behind by a finished call always have their interrupt attached.
THEOREM TxNoLostWakeup == Spec => []NoLostWakeup
<1>1. Wakeup => NoLostWakeup
  BY DEF Wakeup
<1>2. QED
  BY <1>1, WakeupInvariant, PTL

\* What the lemmas on the steps of the ring assume, and what they show.
Clean == ~overrun /\ ~raced
Ring == RingHoldsPending /\ InOrder

\* The numbers and places that RingHoldsPending speaks of.
LEMMA RingTypes ==
  ASSUME TypeOK, RingHoldsPending, Clean
  PROVE  /\ nput \in Nat /\ Len(sent) \in Nat
         /\ Pending = nput - Len(sent)
         /\ Pending \in 0 .. Size - 2
         /\ Oldest \in Slots
         /\ Free \in Slots
         /\ Free = Place(Oldest, Pending)
<1>1. nput \in Nat /\ Len(sent) \in Nat
  BY DEF TypeOK
<1>2. Pending \in 0 .. Size - 2 /\ Oldest \in Slots /\ Free = Place(Oldest, Pending)
  BY SizeAssumption DEF RingHoldsPending, Clean, Capacity
<1>3. Free \in Slots
  BY <1>2, PlaceIs, SizeAssumption
<1>4. QED
  BY <1>1, <1>2, <1>3 DEF Pending

\* PutIndex publishes an index and keeps the free element free.
LEMMA RingPutIndex ==
  ASSUME TypeOK, Ring, Clean, Clean', PutIndex
  PROVE  Ring'
<1>1. ~(Pending >= Capacity)
  BY Zenon DEF PutIndex, Clean
<1>2. Pending < Capacity /\ Pending' = Pending
  BY <1>1, RingTypes, SizeAssumption DEF PutIndex, Pending, Capacity, Ring
<1>3. Oldest' = Oldest /\ Free' = Free
  BY DEF PutIndex, At, Oldest, Free
<1>4. RingHoldsPending'
  BY <1>2, <1>3 DEF PutIndex, At, RingHoldsPending, Capacity, Clean, Ring
<1>5. InOrder'
  BY DEF PutIndex, InOrder, Ring, Clean
<1>6. QED
  BY <1>4, <1>5 DEF Ring

\* PutStore writes the free element, which no pending byte occupies.
LEMMA RingPutStore ==
  ASSUME TypeOK, Ring, Clean, PutStore
  PROVE  Ring'
<1>1. /\ Pending' = Pending /\ Oldest' = Oldest /\ Free' = Free
      /\ UNCHANGED <<pc, wloc, slot, sent, nput, held, overrun, raced>>
  BY DEF PutStore, Pending, Oldest, Free, ghosts
<1>2. buf' = [buf EXCEPT ![Free] = nput + 1]
  BY DEF PutStore, Free
<1>3. ASSUME NEW k \in 0 .. Pending - 1
      PROVE  buf'[Place(Oldest, k)] = Len(sent) + 1 + k
  <2>1. Place(Oldest, k) # Free /\ Place(Oldest, k) \in Slots
    BY RingTypes, PlacesDiffer, PlaceIs, SizeAssumption DEF Ring
  <2>2. buf[Place(Oldest, k)] = Len(sent) + 1 + k
    BY DEF Ring, RingHoldsPending, Clean
  <2>3. QED
    BY <1>2, <2>1, <2>2 DEF TypeOK
<1>4. buf'[Free] = nput + 1
  BY <1>2, RingTypes DEF TypeOK, Ring
<1>5. RingHoldsPending'
  BY <1>1, <1>3, <1>4 DEF RingHoldsPending, Ring, Clean, Capacity, PutStore
<1>6. InOrder'
  BY <1>1 DEF InOrder, Ring
<1>7. QED
  BY <1>5, <1>6 DEF Ring

\* PutReturn makes the stored byte the last pending one.
LEMMA RingPutReturn ==
  ASSUME TypeOK, Ring, Clean, PutReturn
  PROVE  Ring'
<1> USE SizeAssumption
<1>1. /\ pc = "end" /\ pc' \in {"put", "prime"}
      /\ stored /\ ~stored' /\ nput' = nput + 1
      /\ UNCHANGED <<buf, wloc, rloc, slot, sent, overrun, raced>>
  BY DEF PutReturn, At
<1>2. /\ Oldest' = Oldest /\ Free = slot /\ Free' = wloc
      /\ Pending' = Pending + 1
  BY <1>1, RingTypes DEF Oldest, Free, Pending, Ring
<1>3. Pending < Capacity /\ wloc = Wrap(slot + 1) /\ buf[Free] = nput + 1
  BY <1>1 DEF Ring, RingHoldsPending, Clean
<1>4. Free' = Place(Oldest, Pending + 1)
  <2>1. slot = Place(Oldest, Pending) /\ Oldest \in Slots /\ Pending \in 0 .. Size - 2
    BY <1>2, RingTypes DEF Ring
  <2>2. Wrap(Place(Oldest, Pending) + 1) = Place(Oldest, Pending + 1)
    BY <2>1, PlaceIs
  <2>3. QED
    BY <1>2, <1>3, <2>1, <2>2
<1>5. Pending + 1 \in 0 .. Capacity
  BY <1>3, RingTypes DEF Ring, Capacity
<1>6. ASSUME NEW k \in 0 .. Pending
      PROVE  buf[Place(Oldest, k)] = Len(sent) + 1 + k
  <2>1. CASE k = Pending
    BY <2>1, <1>3, RingTypes DEF Ring
  <2>2. CASE k # Pending
    BY <2>2, RingTypes DEF Ring, RingHoldsPending, Clean
  <2>3. QED
    BY <2>1, <2>2
<1>7. RingHoldsPending'
  <2>1. \A k \in 0 .. Pending' - 1 : buf'[Place(Oldest', k)] = Len(sent') + 1 + k
    <3>1. Pending' - 1 = Pending
      BY <1>2, RingTypes DEF Ring
    <3>2. QED
      BY <1>1, <1>2, <1>6, <3>1
  <2>2. Pending' \in 0 .. Capacity /\ Oldest' \in Slots /\ Free' = Place(Oldest', Pending')
    BY <1>2, <1>4, <1>5, RingTypes DEF Ring
  <2>3. QED
    BY <1>1, <2>1, <2>2 DEF RingHoldsPending, Capacity
<1>8. InOrder'
  BY <1>1 DEF InOrder, Ring
<1>9. QED
  BY <1>7, <1>8 DEF Ring

\* A step that gives the oldest pending byte to the UART.
LEMMA RingTake ==
  ASSUME TypeOK, Ring, Clean, Pending > 0,
         sent' = Append(sent, Len(sent) + 1),
         Oldest' = Wrap(Oldest + 1), Free' = Free,
         UNCHANGED <<buf, nput, stored, wloc, slot>>,
         pc' # "get", pc' = pc \/ (pc' = "txIrq" /\ pc = "get")
  PROVE  Ring'
<1> USE SizeAssumption
<1>1. Len(sent') = Len(sent) + 1 /\ Pending' = Pending - 1
  BY RingTypes DEF Pending, Ring, TypeOK
<1>2. Oldest' \in Slots /\ Pending' \in 0 .. Capacity
  BY <1>1, RingTypes, PlaceIs DEF Ring, Capacity
<1>3. ASSUME NEW k \in 0 .. Size - 3
      PROVE  Place(Oldest', k) = Place(Oldest, k + 1)
  BY RingTypes, PlaceIs DEF Ring
<1>4. Free' = Place(Oldest', Pending')
  BY <1>1, <1>3, RingTypes DEF Ring
<1>5. ASSUME NEW k \in 0 .. Pending' - 1
      PROVE  buf'[Place(Oldest', k)] = Len(sent') + 1 + k
  <2>1. k + 1 \in 0 .. Pending - 1 /\ k \in 0 .. Size - 3
    BY <1>1, RingTypes DEF Ring
  <2>2. buf[Place(Oldest, k + 1)] = Len(sent) + 1 + (k + 1)
    BY <2>1 DEF Ring, RingHoldsPending, Clean
  <2>3. QED
    BY <1>1, <1>3, <2>1, <2>2, RingTypes DEF Ring
<1>6. RingHoldsPending'
  <2>1. /\ pc' \in {"wrap", "end"} => Pending' < Capacity
        /\ pc' = "wrap" => wloc' = slot' + 1
        /\ pc' = "end" => wloc' = Wrap(slot' + 1)
        /\ stored' => pc' \in {"put", "wrap", "end"} /\ buf'[Free'] = nput' + 1
    BY <1>1, RingTypes DEF Ring, RingHoldsPending, Clean, Capacity
  <2>2. QED
    BY <1>2, <1>4, <1>5, <2>1 DEF RingHoldsPending, Capacity
<1>7. InOrder'
  <2>1. ASSUME NEW i \in 1 .. Len(sent) + 1
        PROVE  sent'[i] = i
    BY RingTypes DEF TypeOK, Ring, InOrder, Clean
  <2>2. QED
    BY <1>1, <2>1 DEF InOrder
<1>8. QED
  BY <1>6, <1>7 DEF Ring
\* Every step keeps the pending bytes in their places.
LEMMA RingStep ==
  ASSUME TypeOK, Wakeup, Ring, Clean, Clean', [Next]_vars
  PROVE  Ring'
<1> USE DEF thread, ghosts
<1>1. ASSUME UNCHANGED <<buf, wloc, rloc, slot, stored, held, nput, sent, overrun, raced>>,
             \/ pc' = pc
             \/ /\ pc \in {"idle", "prime", "detach", "txIrq", "attach"}
                /\ pc' \in {"idle", "put", "prime", "detach", "txIrq", "attach"}
      PROVE  Ring'
  <2>1. Pending' = Pending /\ Oldest' = Oldest /\ Free' = Free
    BY <1>1 DEF Pending, Oldest, Free
  <2>2. pc' \in {"wrap", "end", "get"} => pc = pc'
    BY <1>1
  <2>3. stored' => pc' \in {"put", "wrap", "end"}
    BY <1>1 DEF Ring, RingHoldsPending, Clean
  <2>4. QED
    BY <1>1, <2>1, <2>2, <2>3 DEF Ring, RingHoldsPending, InOrder, Clean, Capacity
<1>2. CASE PutWrap
  <2>1. /\ Pending' = Pending /\ Oldest' = Oldest /\ Free' = Free
        /\ wloc' = Wrap(slot' + 1)
        /\ Pending < Capacity
    BY <1>2 DEF PutWrap, At, Pending, Oldest, Free, Ring, RingHoldsPending, Clean
  <2>2. QED
    BY <1>2, <2>1 DEF PutWrap, At, Ring, RingHoldsPending, InOrder, Clean, Capacity
<1>3. CASE ThreadTxIrq
  <2>1. CASE pc' = "get"
    <3>1. /\ pc = "txIrq" /\ wloc # rloc /\ held' = buf[rloc] /\ rloc' = rloc + 1
          /\ UNCHANGED <<buf, wloc, slot, stored, nput, sent, overrun, raced>>
      BY <1>3, <2>1 DEF ThreadTxIrq, At, Available
    <3>2. Oldest' = Oldest /\ Oldest = rloc /\ Free' = Free /\ Free = wloc /\ Pending' = Pending
      BY <2>1, <3>1 DEF Oldest, Free, Pending, TypeOK
    <3>3. Pending > 0
      BY <3>1, <3>2, RingTypes, PlaceIs, SizeAssumption DEF Ring
    <3>4. held' = Len(sent) + 1
      BY <3>1, <3>2, <3>3, RingTypes, PlaceIs, SizeAssumption
         DEF Ring, RingHoldsPending, Clean
    <3>5. QED
      BY <2>1, <3>1, <3>2, <3>3, <3>4 DEF Ring, RingHoldsPending, InOrder, Clean, Capacity
  <2>2. CASE pc' # "get"
    BY <1>1, <1>3, <2>2 DEF ThreadTxIrq, At
  <2>3. QED
    BY <2>1, <2>2
<1>4. CASE ThreadPutc
  <2>1. /\ pc = "get" /\ pc' = "txIrq" /\ rloc' = Wrap(rloc) /\ sent' = Append(sent, held)
        /\ UNCHANGED <<buf, wloc, slot, stored, nput>>
    BY <1>4 DEF ThreadPutc, At
  <2>2. Pending > 0 /\ held = Len(sent) + 1
    BY <2>1 DEF Ring, RingHoldsPending, Clean
  <2>3. Oldest' = Wrap(Oldest + 1) /\ Free' = Free
    BY <2>1 DEF Oldest, Free, TypeOK
  <2>4. QED
    BY <2>1, <2>2, <2>3, RingTake
<1>5. CASE IsrPutc
  <2>1. /\ pc # "get" /\ UNCHANGED <<buf, wloc, slot, stored, nput, pc>>
        /\ sent' = Append(sent, buf[rloc]) /\ rloc' = Wrap(rloc + 1)
    BY <1>5 DEF IsrPutc, Wakeup, NoContention
  <2>2. Pending # 0
    BY Zenon, <1>5 DEF IsrPutc, Clean
  <2>3. Pending > 0 /\ buf[rloc] = Len(sent) + 1
    <3>1. Oldest = rloc
      BY <2>1 DEF Oldest
    <3>2. QED
      BY <2>2, <3>1, RingTypes, PlaceIs, SizeAssumption DEF Ring, RingHoldsPending, Clean
  <2>4. Oldest' = Wrap(Oldest + 1) /\ Free' = Free
    BY <2>1 DEF Oldest, Free
  <2>5. QED
    BY <2>1, <2>3, <2>4, RingTake
<1>6. ASSUME NEW n, StartCall(n) PROVE Ring'
  BY <1>1, <1>6 DEF StartCall, At
<1>7. CASE Call
  BY <1>6, <1>7 DEF Call, Putc, Puts, Write
<1>8. CASE PrimeTest
  BY <1>1, <1>8 DEF PrimeTest, At
<1>9. CASE PrimeDetach
  BY <1>1, <1>9 DEF PrimeDetach, At
<1>10. CASE PrimeAttach
  BY <1>1, <1>10 DEF PrimeAttach, At
<1>11. CASE IsrEnter \/ IsrDetach \/ IsrFull \/ HwShift
  BY <1>1, <1>11 DEF IsrEnter, IsrDetach, IsrFull, HwShift
<1>12. CASE UNCHANGED vars
  BY <1>1, <1>12 DEF vars
<1> QED
  BY <1>2, <1>3, <1>4, <1>5, <1>7, <1>8, <1>9, <1>10, <1>11, <1>12,
     RingPutIndex, RingPutStore, RingPutReturn DEF Next, Thread, Isr

\* A full ring or a raced put() is never forgotten, so a clean state has only
\* clean states before it.
LEMMA CleanBefore == ASSUME [Next]_vars, Clean' PROVE Clean
<1> USE DEF Clean, ghosts
<1>1. CASE PutIndex
  BY Zenon, <1>1 DEF PutIndex
<1>2. CASE IsrPutc
  BY Zenon, <1>2 DEF IsrPutc
<1>3. CASE Call
  BY <1>3 DEF Call, Putc, Puts, Write, StartCall
<1>4. CASE PutStore \/ PutWrap \/ PutReturn
  BY <1>4 DEF PutStore, PutWrap, PutReturn
<1>5. CASE PrimeTest \/ PrimeDetach \/ PrimeAttach
  BY <1>5 DEF PrimeTest, PrimeDetach, PrimeAttach
<1>8. CASE ThreadTxIrq
  BY <1>8 DEF ThreadTxIrq
<1>9. CASE ThreadPutc
  BY <1>9 DEF ThreadPutc
<1>6. CASE IsrEnter \/ IsrDetach \/ IsrFull \/ HwShift
  BY <1>6 DEF IsrEnter, IsrDetach, IsrFull, HwShift
<1>7. CASE UNCHANGED vars
  BY <1>7 DEF vars
<1> QED
  BY <1>1, <1>2, <1>3, <1>4, <1>5, <1>6, <1>7, <1>8, <1>9 DEF Next, Thread, Isr

LEMMA RingInvariant == Spec => []Ring
<1>1. Init => Ring
  <2> SUFFICES ASSUME Init PROVE Ring
    OBVIOUS
  <2>1. Len(sent) = 0 /\ Pending = 0 /\ Oldest = 0 /\ Free = 0 /\ pc = "idle"
    <3>1. pc = "idle" /\ wloc = 0 /\ rloc = 0 /\ nput = 0
      BY DEF Init
    <3>2. Len(sent) = 0
      BY DEF Init
    <3>3. Pending = 0
      BY <3>1, <3>2 DEF Pending
    <3>4. Oldest = 0 /\ Free = 0
      BY <3>1 DEF Oldest, Free
    <3>5. QED
      BY <3>1, <3>2, <3>3, <3>4
  <2>4. ~stored
    BY Zenon DEF Init
  <2>2. 0 \in Slots /\ Place(0, 0) = 0 /\ 0 \in 0 .. Capacity
    BY SizeAssumption, PlaceIs DEF Slots, Capacity
  <2>3. QED
    BY <2>1, <2>2, <2>4 DEF Ring, RingHoldsPending, InOrder
<1>2. TypeOK /\ Wakeup /\ Ring /\ [Next]_vars => Ring'
  <2> SUFFICES ASSUME TypeOK, Wakeup, Ring, [Next]_vars PROVE Ring'
    OBVIOUS
  <2>1. CASE Clean'
    BY <2>1, CleanBefore, RingStep
  <2>2. CASE ~Clean'
    BY <2>2 DEF Clean, Ring, RingHoldsPending, InOrder
  <2>3. QED
    BY <2>1, <2>2
<1>3. QED
  BY <1>1, <1>2, WakeupInvariant, PTL DEF Spec

\* The ring, as long as it is neither overfilled nor raced, holds exactly the
\* pending bytes, whatever its size and however often the indices have wrapped.
THEOREM TxRingHoldsPending == Spec => []RingHoldsPending
<1>1. Ring => RingHoldsPending
  BY DEF Ring
<1>2. QED
  BY <1>1, RingInvariant, PTL

\* The UART is then given the bytes of the program in order, each once.
THEOREM TxInOrder == Spec => []InOrder
<1>1. Ring => InOrder
  BY DEF Ring
<1>2. QED
  BY <1>1, RingInvariant, PTL
=============================================================================
