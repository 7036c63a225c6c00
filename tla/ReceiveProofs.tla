---------------------------- MODULE ReceiveProofs ----------------------------
(***************************************************************************)
(* For every number of sockets and slots, every size of the ring, and      *)
(* every interleaving of interrupt and thread: whom a received character   *)
(* is told to, that none is lost in the ring, and that whoever reads gets  *)
(* what was received, each character once and in order.                    *)
(***************************************************************************)
EXTENDS Receive, TLAPS

(* The indices of the ring, for every size. *)
\* What `%=` computes for the indices the code gives it: an index that has
\* just been incremented is at most _size - 1, and only that one wraps.
LEMMA WrapIs ==
  ASSUME NEW i \in 0 .. Size - 1
  PROVE  Wrap(i) = IF i = Size - 1 THEN 0 ELSE i
BY SizeAssumption DEF Wrap

\* Stepping through the elements and wrapping at the end is the same thing.
LEMMA PlaceIs ==
  ASSUME NEW i \in Slots, NEW k \in 0 .. Size - 1
  PROVE  /\ Place(i, k) \in Slots
         /\ Place(i, 0) = i
         /\ k < Size - 1 => Wrap(Place(i, k) + 1) = Place(i, k + 1)
         /\ k < Size - 1 => Place(Wrap(i + 1), k) = Place(i, k + 1)
         /\ Wrap(i + 1) \in Slots
BY SizeAssumption, WrapIs DEF Place, Slots

\* Fewer than _size - 1 consecutive elements are all different.
LEMMA PlacesDiffer ==
  ASSUME NEW i \in Slots, NEW j \in 0 .. Size - 2, NEW k \in 0 .. j - 1
  PROVE  Place(i, j) # Place(i, k)
BY SizeAssumption DEF Place, Slots

-----------------------------------------------------------------------------
(* Who is told. *)

Live(i) == owner[i] # Nobody /\ owner[i] \notin closing

(* What _cbs[i].data is to become, or is. *)
Data(i) == IF Live(i) THEN owner[i] ELSE Nobody

Attached ==
  \A i \in Ids :
    /\ cbs[i].callback = IF Live(i) THEN "handler" ELSE Nobody
    /\ IF writing # Nobody /\ writing.id = i
       THEN writing.data = Data(i) /\ (Live(i) => cbs[i].data = Nobody)
       ELSE cbs[i].data = Data(i)

Owned ==
  /\ \A i, j \in Ids : owner[i] = owner[j] /\ owner[i] # Nobody => i = j
  /\ \A h \in closing : \E i \in Ids : owner[i] = h

EvInv == EvTypeOK /\ Attached /\ Owned

(* One of the two writes of socket_attach() to a slot whose socket changes. *)
LEMMA AttachStep ==
  ASSUME EvInv, NEW i \in Ids, NEW callback \in {Nobody, "handler"},
         NEW data \in Handles \cup {Nobody},
         SocketAttach(i, callback, data),
         owner' \in [Ids -> Handles \cup {Nobody}], closing' \subseteq Handles,
         \A j \in Ids \ {i} : Live(j)' = Live(j) /\ owner'[j] = owner[j],
         callback = IF Live(i)' THEN "handler" ELSE Nobody,
         data = Data(i)', Live(i)' => cbs[i].data = Nobody
  PROVE  EvTypeOK' /\ Attached'
  <1>. DEFINE w == [id |-> i, data |-> data]
  <1>1. /\ writing = Nobody /\ writing' = w /\ w.id = i /\ w.data = data
        /\ w \in [id : Ids, data : Handles \cup {Nobody}]
        /\ cbs' = [cbs EXCEPT ![i].callback = callback]
    BY DEF SocketAttach
  <1>2. cbs \in [Ids -> [callback : {Nobody, "handler"}, data : Handles \cup {Nobody}]]
    BY DEF EvInv, EvTypeOK
  <1>3. /\ cbs' \in [Ids -> [callback : {Nobody, "handler"}, data : Handles \cup {Nobody}]]
        /\ cbs'[i].callback = callback /\ cbs'[i].data = cbs[i].data
        /\ \A j \in Ids \ {i} : cbs'[j] = cbs[j]
    BY <1>1, <1>2
  <1>. HIDE DEF w
  <1>4. EvTypeOK' BY <1>1, <1>3 DEF EvTypeOK
  <1>5. w # Nobody BY <1>1, NobodyAssumption
  <1>6. ASSUME NEW j \in Ids
        PROVE  /\ cbs'[j].callback = IF Live(j)' THEN "handler" ELSE Nobody
               /\ IF w # Nobody /\ w.id = j
                  THEN w.data = Data(j)' /\ (Live(j)' => cbs'[j].data = Nobody)
                  ELSE cbs'[j].data = Data(j)'
    <2>1. CASE j = i BY <1>1, <1>3, <1>5, <2>1
    <2>2. CASE j # i
      <3>1. Data(j)' = Data(j) BY <2>2 DEF Data
      <3>2. cbs[j].data = Data(j) /\ cbs[j].callback = IF Live(j) THEN "handler" ELSE Nobody
        BY <1>1 DEF EvInv, Attached
      <3>. QED BY <1>1, <1>3, <2>2, <3>1, <3>2
    <2>. QED BY <2>1, <2>2
  <1>. QED BY <1>1, <1>4, <1>6 DEF Attached

LEMMA EvStep == EvInv /\ [EvNext]_evvars => EvInv'
  <1>. SUFFICES ASSUME EvInv, [EvNext]_evvars PROVE EvInv' OBVIOUS
  <1>0. EvTypeOK /\ Attached /\ Owned BY DEF EvInv
  <1>1. CASE SocketAttachData
    <2>. DEFINE i == writing.id
    <2>1. /\ i \in Ids /\ writing # Nobody /\ writing.data \in Handles \cup {Nobody}
          /\ UNCHANGED <<owner, closing>> /\ writing' = Nobody
          /\ cbs' = [cbs EXCEPT ![i].data = writing.data]
      BY <1>0, <1>1 DEF SocketAttachData, EvTypeOK
    <2>2. cbs \in [Ids -> [callback : {Nobody, "handler"}, data : Handles \cup {Nobody}]]
      BY <1>0 DEF EvTypeOK
    <2>3. writing.data = Data(i) BY <1>0, <2>1 DEF Attached
    <2>. HIDE DEF i
    <2>4. /\ cbs' \in [Ids -> [callback : {Nobody, "handler"}, data : Handles \cup {Nobody}]]
          /\ cbs'[i].callback = cbs[i].callback /\ cbs'[i].data = writing.data
          /\ \A j \in Ids \ {i} : cbs'[j] = cbs[j]
      BY <2>1, <2>2
    <2>5. \A j \in Ids : Live(j)' = Live(j) /\ Data(j)' = Data(j) BY <2>1 DEF Live, Data
    <2>6. \A j \in Ids \ {i} : cbs[j].data = Data(j) BY <1>0 DEF Attached, i
    <2>7. Attached'
      BY <1>0, <2>1, <2>3, <2>4, <2>5, <2>6 DEF Attached
    <2>8. EvTypeOK' BY <1>0, <2>1, <2>4 DEF EvTypeOK
    <2>9. Owned' BY <1>0, <2>1 DEF Owned
    <2>. QED BY <2>7, <2>8, <2>9 DEF EvInv
  <1>2. ASSUME NEW h \in Handles, NEW i \in Ids, Open(h, i) PROVE EvInv'
    <2>1. /\ owner[i] = Nobody /\ (\A j \in Ids : owner[j] # h)
          /\ SocketAttach(i, "handler", h)
          /\ owner' = [owner EXCEPT ![i] = h] /\ closing' = closing
      BY <1>2 DEF Open
    <2>2. owner \in [Ids -> Handles \cup {Nobody}] /\ closing \subseteq Handles
      BY <1>0 DEF EvTypeOK
    <2>3. /\ owner' \in [Ids -> Handles \cup {Nobody}]
          /\ owner'[i] = h /\ \A j \in Ids \ {i} : owner'[j] = owner[j]
      BY <2>1, <2>2
    <2>4. h \notin closing /\ h # Nobody BY <1>0, <2>1, NobodyAssumption DEF Owned
    <2>5. Live(i)' /\ Data(i)' = h BY <2>1, <2>3, <2>4 DEF Live, Data
    <2>6. \A j \in Ids \ {i} : Live(j)' = Live(j) BY <2>1, <2>3 DEF Live
    <2>7. cbs[i].data = Nobody
      BY <1>0, <2>1 DEF Attached, Data, Live, SocketAttach
    <2>8. EvTypeOK' /\ Attached'
      BY <2>1, <2>2, <2>3, <2>5, <2>6, <2>7, AttachStep
    <2>9. Owned'
      <3>1. \A j, k \in Ids \ {i} : owner'[j] = owner'[k] /\ owner'[j] # Nobody => j = k
        BY <1>0, <2>3 DEF Owned
      <3>2. \A j \in Ids \ {i} : owner'[j] # owner'[i] BY <2>1, <2>3
      <3>3. \A g \in closing : \E j \in Ids \ {i} : owner[j] = g
        BY <1>0, <2>1, <2>2, NobodyAssumption DEF Owned
      <3>. QED BY <2>1, <2>3, <3>1, <3>2, <3>3 DEF Owned
    <2>. QED BY <2>8, <2>9 DEF EvInv
  <1>3. ASSUME NEW h \in Handles, NEW i \in Ids, Detach(h, i) PROVE EvInv'
    <2>1. /\ owner[i] = h /\ SocketAttach(i, Nobody, Nobody)
          /\ closing' = closing \cup {h} /\ owner' = owner
      BY <1>3 DEF Detach
    <2>2. owner \in [Ids -> Handles \cup {Nobody}] /\ closing' \subseteq Handles
      BY <1>0, <2>1 DEF EvTypeOK
    <2>3. ~Live(i)' /\ Data(i)' = Nobody BY <2>1 DEF Live, Data
    <2>4. \A j \in Ids \ {i} : Live(j)' = Live(j)
      BY <1>0, <2>1, NobodyAssumption DEF Live, Owned
    <2>5. EvTypeOK' /\ Attached'
      BY <2>1, <2>2, <2>3, <2>4, AttachStep
    <2>6. Owned' BY <1>0, <2>1 DEF Owned
    <2>. QED BY <2>5, <2>6 DEF EvInv
  <1>4. ASSUME NEW h \in Handles, NEW i \in Ids, Close(h, i) PROVE EvInv'
    <2>1. /\ owner[i] = h /\ h \in closing /\ writing = Nobody
          /\ owner' = [owner EXCEPT ![i] = Nobody] /\ closing' = closing \ {h}
          /\ UNCHANGED <<cbs, writing>>
      BY <1>4 DEF Close
    <2>2. owner \in [Ids -> Handles \cup {Nobody}] /\ closing \subseteq Handles
      BY <1>0 DEF EvTypeOK
    <2>3. /\ owner' \in [Ids -> Handles \cup {Nobody}]
          /\ owner'[i] = Nobody /\ \A j \in Ids \ {i} : owner'[j] = owner[j]
      BY <2>1, <2>2
    <2>4. \A j \in Ids \ {i} : owner[j] # h
      BY <1>0, <2>1, NobodyAssumption DEF Owned
    <2>5. \A j \in Ids : Live(j)' = Live(j) BY <2>1, <2>3, <2>4 DEF Live
    <2>6. \A j \in Ids : Data(j)' = Data(j)
      BY <2>1, <2>3, <2>5 DEF Data, Live
    <2>7. Attached' BY <1>0, <2>1, <2>5, <2>6 DEF Attached
    <2>8. EvTypeOK' BY <1>0, <2>1, <2>3 DEF EvTypeOK
    <2>9. Owned' BY <1>0, <2>1, <2>3 DEF Owned
    <2>. QED BY <2>7, <2>8, <2>9 DEF EvInv
  <1>5. CASE UNCHANGED evvars
    BY <1>0, <1>5 DEF evvars, EvInv, EvTypeOK, Attached, Owned, Live, Data
  <1>. QED BY <1>1, <1>2, <1>3, <1>4, <1>5 DEF EvNext, EvThread, Event

-----------------------------------------------------------------------------
(* Typing of the receive path. *)

LEMMA SeqWider ==
  ASSUME NEW S, NEW T, S \subseteq T, NEW s \in Seq(S)
  PROVE  s \in Seq(T)
  <1>1. \A i \in 1 .. Len(s) : s[i] \in T OBVIOUS
  <1>2. s \in [1 .. Len(s) -> T] BY <1>1
  <1>. QED BY <1>2

LEMMA ReceiveTyping ==
  ASSUME RxTypeOK, NEW c \in Chars, Receive(c)
  PROVE  RxTypeOK'
  <1>. DEFINE n == Len(sent)
  <1>1. sent \in Seq(Chars) /\ sent' = Append(sent, c) BY DEF RxTypeOK, Receive
  <1>2. n \in Nat /\ sent' \in Seq(Chars) /\ Len(sent') = n + 1 BY <1>1
  <1>3. 0 .. n \subseteq 0 .. n + 1 BY <1>2
  <1>4. buffer' \in Seq(0 .. Len(sent'))
    <2>1. buffer' \in Seq(0 .. n) BY DEF RxTypeOK, Receive
    <2>. HIDE DEF n
    <2>2. buffer' \in Seq(0 .. n + 1) BY <1>3, <2>1, SeqWider
    <2>. QED BY <1>2, <2>2
  <1>5. buf' \in [Slots -> 0 .. Len(sent')]
    <2>1. buf \in [Slots -> 0 .. n] /\ buf' = [buf EXCEPT ![wloc] = n + 1]
      BY DEF RxTypeOK, Receive
    <2>2. n + 1 \in 0 .. n + 1 BY <1>2
    <2>. HIDE DEF n
    <2>. QED BY <1>2, <1>3, <2>1, <2>2
  <1>6. wloc' \in Slots BY PlaceIs, SizeAssumption DEF RxTypeOK, Receive
  <1>7. mark' \in 0 .. Len(sent')
    BY <1>2, <1>3 DEF RxTypeOK, Receive
  <1>8. overrun' \in BOOLEAN
    BY Zenon DEF RxTypeOK, Receive, Overwrites
  <1>. HIDE DEF n
  <1>. QED BY <1>2, <1>4, <1>5, <1>6, <1>7, <1>8 DEF RxTypeOK, Receive

(* Which steps of the thread take a character, and what they leave. *)
LEMMA GetTyping ==
  ASSUME RxTypeOK, Get
  PROVE  /\ rloc' \in Slots /\ taken' \in Nat
         /\ UNCHANGED <<buf, wloc, sent, overrun>>
  BY PlaceIs, SizeAssumption DEF RxTypeOK, Get

LEMMA Longer ==
  ASSUME RxTypeOK
  PROVE  /\ << >> \in Seq(0 .. Len(sent))
         /\ Append(buffer, buf[rloc]) \in Seq(0 .. Len(sent))
  BY DEF RxTypeOK

LEMMA FinishTyping ==
  ASSUME RxTypeOK, taken' \in Nat, NEW whole, Finish(whole) 
  PROVE  /\ pc' \in {"idle", "look"} /\ op' \in {"none", "line", "read"}
         /\ buffer' = << >> /\ expired' \in BOOLEAN /\ from' \in Nat /\ since' \in Nat /\ mark' = mark
  <1>1. PICK urc \in URC(whole) : IF urc THEN pc' = "look" /\ from' = taken' /\ UNCHANGED <<op, since>>
                                  ELSE Return
    BY Zenon DEF Finish
  <1>2. (pc' = "look" /\ from' = taken' /\ UNCHANGED <<op, since>>) \/ Return
    <2>1. CASE urc BY <1>1, <2>1, Zenon
    <2>2. CASE ~urc BY <1>1, <2>2, Zenon
    <2>. QED BY <2>1, <2>2
  <1>3. buffer' = << >> /\ expired' = FALSE /\ mark' = mark BY Zenon DEF Finish
  <1>4. expired' \in BOOLEAN BY <1>3, Zenon
  <1>5. op \in {"none", "line", "read"} /\ since \in Nat BY DEF RxTypeOK
  <1>6. CASE Return BY <1>3, <1>4, <1>6 DEF Return
  <1>7. CASE pc' = "look" /\ from' = taken' /\ UNCHANGED <<op, since>> BY <1>3, <1>4, <1>5, <1>7
  <1>. QED BY <1>2, <1>6, <1>7

THEOREM RxTypingStep == RxTypeOK /\ [RxNext]_rxvars => RxTypeOK'
  <1>. SUFFICES ASSUME RxTypeOK, [RxNext]_rxvars PROVE RxTypeOK' OBVIOUS
  <1>1. ASSUME NEW c \in Chars, Receive(c) PROVE RxTypeOK' BY <1>1, ReceiveTyping
  <1>2. CASE Tx
    <2>1. Len(sent) \in 0 .. Len(sent) BY DEF RxTypeOK
    <2>. QED BY <1>2, <2>1 DEF Tx, RxTypeOK, ring
  <1>3. CASE Readline \/ Read BY <1>3 DEF Readline, Read, Begin, RxTypeOK, ring
  <1>4. CASE FlushLook \/ FlushFull
    <2>1. 0 \in 0 .. Len(sent) BY DEF RxTypeOK
    <2>. QED
      BY <1>4, <2>1, Longer
         DEF FlushLook, FlushFull, FlushDone, FlushAgain, Goto, RxTypeOK, ring
  <1>5. CASE FlushGet
    <2>1. buffer' \in Seq(0 .. Len(sent)) BY <1>5, Longer DEF FlushGet, RxTypeOK
    <2>. QED BY <1>5, <2>1, GetTyping DEF FlushGet, RxTypeOK
  <1>6. CASE Look
    <2>1. CASE UNCHANGED taken /\ Finish(FALSE)
      <3>1. taken' \in Nat BY <2>1 DEF RxTypeOK
      <3>. QED BY <1>6, <2>1, <3>1, FinishTyping, Longer DEF Look, RxTypeOK, ring
    <2>2. CASE UNCHANGED buffer /\ Goto(IF Readable THEN "take" ELSE "wfi")
      BY <1>6, <2>2 DEF Look, Goto, RxTypeOK, ring
    <2>. QED BY <1>6, <2>1, <2>2 DEF Look
  <1>7. CASE Sleep BY <1>7 DEF Sleep, Goto, RxTypeOK, ring
  <1>8. CASE Take
    <2>1. /\ rloc' \in Slots /\ taken' \in Nat
          /\ UNCHANGED <<buf, wloc, sent, overrun>>
      BY <1>8, GetTyping DEF Take
    <2>2. CASE Finish(TRUE)
      BY <2>1, <2>2, FinishTyping, Longer DEF RxTypeOK
    <2>3. CASE ~Finish(TRUE)
      <3>1. /\ buffer' = buffer \/ buffer' = Append(buffer, buf[rloc])
            /\ pc' = "look" /\ UNCHANGED <<op, expired, from, since, mark>>
        BY <1>8, <2>3 DEF Take
      <3>2. buffer' \in Seq(0 .. Len(sent)) BY <3>1, Longer DEF RxTypeOK
      <3>. QED BY <2>1, <3>1, <3>2 DEF RxTypeOK
    <2>. QED BY <2>2, <2>3
  <1>9. CASE Expire BY <1>9 DEF Expire, RxTypeOK, ring
  <1>10. CASE Tick BY <1>10 DEF Tick, Goto, RxTypeOK, ring
  <1>11. CASE UNCHANGED rxvars BY <1>11 DEF rxvars, ring, thread, RxTypeOK
  <1>. QED
    BY <1>1, <1>2, <1>3, <1>4, <1>5, <1>6, <1>7, <1>8, <1>9, <1>10, <1>11
       DEF RxNext, Calls, Work

-----------------------------------------------------------------------------
(* The ring. *)

Unread == Len(sent) - taken

(* RingHoldsUnread, with the write index where it has to be, and a thread that is *)
(* about to take a character only while there is one. *)
RingInv ==
  ~overrun =>
    /\ taken <= Len(sent) /\ Unread <= Capacity
    /\ wloc = Place(rloc, Unread)
    /\ \A k \in 0 .. Unread - 1 : buf[Place(rloc, k)] = taken + 1 + k
    /\ pc \in {"take", "drop"} => taken < Len(sent)

LEMMA RingTypes ==
  ASSUME RxTypeOK, RingInv, ~overrun
  PROVE  /\ taken \in Nat /\ Len(sent) \in Nat /\ Unread \in 0 .. Size - 2
         /\ rloc \in Slots /\ wloc = Place(rloc, Unread)
         /\ Size \in Nat /\ Size >= 2
         /\ \A k \in 0 .. Unread - 1 : buf[Place(rloc, k)] = taken + 1 + k
         /\ taken <= Len(sent)
         /\ pc \in {"take", "drop"} => taken < Len(sent)
  <1>1. taken \in Nat /\ Len(sent) \in Nat /\ rloc \in Slots BY DEF RxTypeOK
  <1>. QED BY <1>1, SizeAssumption DEF RingInv, Unread, Capacity

LEMMA RingInvImplies == RxTypeOK /\ RingInv => RingHoldsUnread
  <1>. SUFFICES ASSUME RxTypeOK, RingInv, ~overrun
                PROVE  /\ taken <= Len(sent) /\ Unread <= Capacity
                       /\ Readable <=> taken < Len(sent)
                       /\ \A k \in 0 .. Unread - 1 : buf[Place(rloc, k)] = taken + 1 + k
    BY DEF RingHoldsUnread, Unread
  <1>1. Readable <=> Unread # 0
    <2>1. CASE Unread = 0 BY <2>1, RingTypes, PlaceIs DEF Readable, Available
    <2>2. CASE Unread # 0
      <3>1. 0 \in 0 .. Unread - 1 BY <2>2, RingTypes
      <3>2. Place(rloc, Unread) # Place(rloc, 0) BY <3>1, RingTypes, PlacesDiffer
      <3>3. Place(rloc, 0) = rloc BY RingTypes, PlaceIs
      <3>. QED BY <2>2, <3>2, <3>3, RingTypes DEF Readable, Available
    <2>. QED BY <2>1, <2>2
  <1>2. Unread # 0 <=> taken < Len(sent) BY RingTypes DEF Unread
  <1>. QED BY <1>1, <1>2 DEF RingInv

(* A step that neither puts nor gets. *)
LEMMA RingKept ==
  ASSUME RingInv, UNCHANGED <<ring, taken>>,
         ~overrun /\ pc' \in {"take", "drop"} => taken < Len(sent)
  PROVE  RingInv'
  <1>1. UNCHANGED <<buf, wloc, rloc, sent, overrun, taken>> BY DEF ring
  <1>. QED BY <1>1, Zenon DEF RingInv, Unread

LEMMA RingReceive ==
  ASSUME RxTypeOK, RingInv, NEW c \in Chars, Receive(c)
  PROVE  RingInv'
  <1>. SUFFICES ASSUME ~overrun'
                PROVE  /\ taken' <= Len(sent') /\ Unread' <= Capacity
                       /\ wloc' = Place(rloc', Unread')
                       /\ \A k \in 0 .. Unread' - 1 : buf'[Place(rloc', k)] = taken' + 1 + k
                       /\ taken' < Len(sent')
    BY DEF RingInv
  <1>1. ~overrun /\ ~Overwrites BY Zenon DEF Receive
  <1>. DEFINE u == Unread
  <1>2. /\ taken' = taken /\ rloc' = rloc /\ Len(sent') = Len(sent) + 1
        /\ wloc' = Wrap(wloc + 1) /\ buf' = [buf EXCEPT ![wloc] = Len(sent) + 1]
        /\ buf \in [Slots -> 0 .. Len(sent)]
    BY DEF Receive, RxTypeOK
  <1>3. /\ taken \in Nat /\ Len(sent) \in Nat /\ u \in 0 .. Size - 3
        /\ rloc \in Slots /\ wloc = Place(rloc, u) /\ wloc \in Slots
        /\ Size \in Nat /\ Size >= 2 /\ taken + u = Len(sent)
    <2>1. Unread < Capacity BY <1>1, RingTypes DEF Overwrites, Unread, Capacity
    <2>2. wloc \in Slots BY DEF RxTypeOK
    <2>. QED BY <1>1, <2>1, <2>2, RingTypes DEF Unread, Capacity
  <1>4. Unread' = u + 1 BY <1>2, <1>3 DEF Unread
  <1>. HIDE DEF u
  <1>5. wloc' = Place(rloc, u + 1)
    <2>1. u \in 0 .. Size - 1 /\ u < Size - 1 BY <1>3
    <2>. QED BY <1>2, <1>3, <2>1, PlaceIs
  <1>6. ASSUME NEW k \in 0 .. u PROVE buf'[Place(rloc, k)] = taken + 1 + k
    <2>1. CASE k = u BY <1>2, <1>3, <2>1
    <2>2. CASE k # u
      <3>1. k \in 0 .. u - 1 /\ u \in 0 .. Size - 2 /\ k \in 0 .. Size - 1 BY <1>3, <2>2
      <3>2. Place(rloc, k) # wloc BY <1>3, <3>1, PlacesDiffer
      <3>3. Place(rloc, k) \in Slots BY <1>3, <3>1, PlaceIs
      <3>4. buf[Place(rloc, k)] = taken + 1 + k BY <1>1, <3>1, RingTypes DEF u
      <3>. QED BY <1>2, <3>2, <3>3, <3>4
    <2>. QED BY <2>1, <2>2
  <1>7. 0 .. Unread' - 1 = 0 .. u BY <1>3, <1>4
  <1>. QED BY <1>2, <1>3, <1>4, <1>5, <1>6, <1>7 DEF Capacity

LEMMA RingGet ==
  ASSUME RxTypeOK, RingInv, Get, pc \in {"take", "drop"}, pc' \notin {"take", "drop"}
  PROVE  RingInv'
  <1>. SUFFICES ASSUME ~overrun
                PROVE  /\ taken' <= Len(sent') /\ Unread' <= Capacity
                       /\ wloc' = Place(rloc', Unread')
                       /\ \A k \in 0 .. Unread' - 1 : buf'[Place(rloc', k)] = taken' + 1 + k
    BY DEF RingInv, Get
  <1>. DEFINE u == Unread
  <1>1. /\ taken' = taken + 1 /\ rloc' = Wrap(rloc + 1)
        /\ buf' = buf /\ wloc' = wloc /\ sent' = sent
    BY DEF Get
  <1>2. /\ taken \in Nat /\ Len(sent) \in Nat /\ u \in 1 .. Size - 2
        /\ rloc \in Slots /\ wloc = Place(rloc, u)
        /\ Size \in Nat /\ Size >= 2 /\ taken + u = Len(sent)
    BY RingTypes DEF Unread
  <1>3. Unread' = u - 1 BY <1>1, <1>2 DEF Unread
  <1>. HIDE DEF u
  <1>4. ASSUME NEW k \in 0 .. u - 1 PROVE Place(rloc', k) = Place(rloc, k + 1)
    <2>1. k \in 0 .. Size - 1 /\ k < Size - 1 BY <1>2
    <2>. QED BY <1>1, <1>2, <2>1, PlaceIs
  <1>5. wloc' = Place(rloc', u - 1)
    <2>1. u - 1 \in 0 .. u - 1 /\ (u - 1) + 1 = u BY <1>2
    <2>. QED BY <1>1, <1>2, <1>4, <2>1
  <1>6. ASSUME NEW k \in 0 .. (u - 1) - 1 PROVE buf'[Place(rloc', k)] = taken' + 1 + k
    <2>1. k \in 0 .. u - 1 /\ k + 1 \in 0 .. u - 1 /\ taken + 1 + (k + 1) = taken + 1 + 1 + k
      BY <1>2
    <2>2. buf[Place(rloc, k + 1)] = taken + 1 + (k + 1) BY <2>1, RingTypes DEF u
    <2>. QED BY <1>1, <1>4, <2>1, <2>2
  <1>7. taken' <= Len(sent') /\ u - 1 <= Capacity BY <1>1, <1>2 DEF Capacity
  <1>. QED BY <1>3, <1>5, <1>6, <1>7

LEMMA RingStep == RxTypeOK /\ RingInv /\ [RxNext]_rxvars => RingInv'
  <1>. SUFFICES ASSUME RxTypeOK, RingInv, [RxNext]_rxvars PROVE RingInv' OBVIOUS
  <1>0. ~overrun => (Readable <=> taken < Len(sent)) BY RingInvImplies DEF RingHoldsUnread
  <1>1. ASSUME NEW c \in Chars, Receive(c) PROVE RingInv' BY <1>1, RingReceive
  <1>2. CASE FlushGet BY <1>2, RingGet DEF FlushGet
  <1>3. CASE Take
    <2>1. pc = "take" /\ Get BY <1>3 DEF Take
    <2>2. pc' \in {"idle", "look"}
      <3>1. taken' \in Nat BY <2>1, GetTyping
      <3>2. Finish(TRUE) \/ pc' = "look" BY <1>3 DEF Take
      <3>. QED BY <3>1, <3>2, FinishTyping
    <2>. QED BY <2>1, <2>2, RingGet
  <1>4. CASE FlushLook
    <2>1. UNCHANGED <<ring, taken>>
      BY <1>4 DEF FlushLook, FlushDone, FlushAgain, Goto
    <2>2. pc' \in {"take", "drop"} => Readable
      BY <1>4 DEF FlushLook, FlushDone, FlushAgain, Goto
    <2>. QED BY <1>0, <2>1, <2>2, RingKept
  <1>5. CASE Look
    <2>1. UNCHANGED <<ring, taken>> /\ (pc' \in {"take", "drop"} => Readable)
      <3>1. CASE UNCHANGED taken /\ Finish(FALSE)
        <4>1. taken' \in Nat BY <3>1 DEF RxTypeOK
        <4>. QED BY <1>5, <3>1, <4>1, FinishTyping DEF Look
      <3>2. CASE UNCHANGED buffer /\ Goto(IF Readable THEN "take" ELSE "wfi")
        BY <1>5, <3>2 DEF Look, Goto
      <3>. QED BY <1>5, <3>1, <3>2 DEF Look
    <2>. QED BY <1>0, <2>1, RingKept
  <1>6. ASSUME UNCHANGED <<ring, taken>>, pc' \notin {"take", "drop"} PROVE RingInv'
    BY <1>6, RingKept
  <1>7. CASE Tx \/ Readline \/ Read \/ FlushFull \/ Sleep \/ Tick
    BY <1>6, <1>7 DEF Tx, Readline, Read, Begin, FlushFull, FlushAgain, Sleep, Tick, Goto
  <1>8. CASE Expire
    <2>1. UNCHANGED <<ring, taken, pc>> BY <1>8 DEF Expire
    <2>. QED BY <2>1, RingKept DEF RingInv
  <1>9. CASE UNCHANGED rxvars
    <2>1. UNCHANGED <<ring, taken, pc>> BY <1>9 DEF rxvars, thread
    <2>. QED BY <2>1, RingKept DEF RingInv
  <1>. QED
    BY <1>1, <1>2, <1>3, <1>4, <1>5, <1>7, <1>8, <1>9 DEF RxNext, Calls, Work

-----------------------------------------------------------------------------
(* The buffer of whoever reads. *)

Reading == {"look", "wfi", "asleep", "take"}

LineInv ==
  /\ pc = "idle" => buffer = << >>
  /\ pc \notin Reading => op = "none"
  /\ op = "line" => \A i \in 1 .. Len(buffer) : Printable(Char(buffer[i]))

LEMMA LineStep == RxTypeOK /\ LineInv /\ [RxNext]_rxvars => LineInv'
  <1>. SUFFICES ASSUME RxTypeOK, LineInv, [RxNext]_rxvars PROVE LineInv' OBVIOUS
  <1>1. ASSUME NEW c \in Chars, Receive(c) PROVE LineInv'
    <2>1. /\ sent \in Seq(Chars) /\ buffer \in Seq(0 .. Len(sent)) /\ sent' = Append(sent, c)
          /\ UNCHANGED <<op, buffer>>
      BY <1>1 DEF RxTypeOK, Receive
    <2>2. \A i \in 1 .. Len(buffer) : Char(buffer[i])' = Char(buffer[i])
      <3>1. \A p \in 0 .. Len(sent) : p # 0 => sent'[p] = sent[p] BY <2>1
      <3>2. \A i \in 1 .. Len(buffer) : buffer[i] \in 0 .. Len(sent) BY <2>1
      <3>. QED BY <2>1, <3>1, <3>2 DEF Char
    <2>3. (pc' = "idle" <=> pc = "idle") /\ (pc' \in Reading <=> pc \in Reading)
      BY <1>1 DEF Receive, Reading
    <2>. QED BY <2>1, <2>2, <2>3 DEF LineInv, Printable
  <1>2. CASE Tx BY <1>2 DEF Tx, LineInv, Reading, ring
  <1>3. CASE Readline \/ Read
    <2>1. buffer' = << >> /\ pc' = "look" BY <1>3 DEF Readline, Read, Begin, LineInv
    <2>. QED BY <2>1 DEF LineInv, Reading
  <1>4. CASE FlushLook \/ FlushFull \/ FlushGet
    <2>1. op' = "none" BY <1>4 DEF FlushLook, FlushFull, FlushGet, FlushDone, FlushAgain,
                                   Goto, LineInv, Reading
    <2>2. pc' = "idle" => buffer' = << >>
      BY <1>4 DEF FlushLook, FlushFull, FlushGet, FlushDone, FlushAgain, Goto
    <2>. QED BY <2>1, <2>2 DEF LineInv
  <1>5. ASSUME NEW whole, Finish(whole), taken' \in Nat PROVE LineInv'
    <2>1. buffer' = << >> BY <1>5, FinishTyping
    <2>2. pc' \notin Reading => op' = "none"
      <3>1. PICK urc \in URC(whole) : IF urc THEN pc' = "look" /\ from' = taken' /\ UNCHANGED <<op, since>>
                                      ELSE Return
        BY <1>5, Zenon DEF Finish
      <3>2. CASE urc BY <3>1, <3>2 DEF Reading
      <3>3. CASE ~urc BY <3>1, <3>3 DEF Return
      <3>. QED BY <3>2, <3>3
    <2>. QED BY <2>1, <2>2 DEF LineInv
  <1>6. CASE Look
    <2>1. CASE UNCHANGED taken /\ Finish(FALSE) BY <1>5, <2>1 DEF RxTypeOK
    <2>2. CASE UNCHANGED buffer /\ Goto(IF Readable THEN "take" ELSE "wfi")
      <3>1. pc' \in Reading /\ pc' # "idle" /\ UNCHANGED <<op, buffer, sent>>
        BY <1>6, <2>2 DEF Look, Goto, Reading, ring
      <3>. QED BY <3>1 DEF LineInv, Char
    <2>. QED BY <1>6, <2>1, <2>2 DEF Look
  <1>7. CASE Take
    <2>1. taken' \in Nat /\ sent' = sent /\ pc = "take" BY <1>7, GetTyping DEF Take
    <2>2. CASE Finish(TRUE) BY <1>5, <2>1, <2>2
    <2>3. CASE ~Finish(TRUE)
      <3>. DEFINE p == buf[rloc]
      <3>1. /\ buffer' = IF op = "read" \/ Printable(Char(p)) THEN Append(buffer, p) ELSE buffer
            /\ pc' = "look" /\ op' = op
        BY <1>7, <2>3 DEF Take
      <3>2. buffer \in Seq(0 .. Len(sent)) BY DEF RxTypeOK
      <3>3. ASSUME op = "line" PROVE \A i \in 1 .. Len(buffer') : Printable(Char(buffer'[i]))
        <4>1. \A i \in 1 .. Len(buffer) : Printable(Char(buffer[i])) BY <3>3 DEF LineInv
        <4>. HIDE DEF p
        <4>2. CASE Printable(Char(p))
          <5>1. /\ Len(buffer') = Len(buffer) + 1 /\ buffer'[Len(buffer) + 1] = p
                /\ \A i \in 1 .. Len(buffer) : buffer'[i] = buffer[i]
            BY <3>1, <3>2, <4>2
          <5>. QED BY <3>2, <4>1, <4>2, <5>1
        <4>3. CASE ~Printable(Char(p)) BY <3>1, <3>3, <4>1, <4>3
        <4>. QED BY <4>2, <4>3
      <3>. QED BY <2>1, <3>1, <3>3 DEF LineInv, Reading, Char
    <2>. QED BY <2>2, <2>3
  <1>8. CASE Sleep \/ Tick
    <2>1. pc' \in Reading /\ pc' # "idle" /\ UNCHANGED <<op, buffer, sent>>
      BY <1>8 DEF Sleep, Tick, Goto, Reading, ring
    <2>. QED BY <2>1 DEF LineInv, Char
  <1>9. CASE Expire \/ UNCHANGED rxvars
    <2>1. UNCHANGED <<pc, op, buffer, sent>> BY <1>9 DEF Expire, rxvars, thread, ring
    <2>. QED BY <2>1 DEF LineInv, Char
  <1>. QED
    BY <1>1, <1>2, <1>3, <1>4, <1>6, <1>7, <1>8, <1>9 DEF RxNext, Calls, Work

-----------------------------------------------------------------------------
(* What the reader has of what has been taken. *)

WholeInv == LineExact /\ (op # "none" => from <= taken)

LEMMA TakenNext ==
  ASSUME RxTypeOK, RingInv, ~overrun, pc \in {"take", "drop"}
  PROVE  buf[rloc] = taken + 1 /\ taken + 1 \in 1 .. Len(sent)
<1>1. Unread # 0 /\ 0 \in 0 .. Unread - 1
  BY RingTypes DEF Unread
<1>2. Place(rloc, 0) = rloc
  BY RingTypes, PlaceIs
<1>3. buf[Place(rloc, 0)] = taken + 1 + 0
  BY <1>1, RingTypes
<1>4. QED
  BY <1>2, <1>3, RingTypes

\* Nothing has been taken since the reading began, or nobody reads.
LEMMA WholeEmpty ==
  ASSUME RxTypeOK', buffer' = << >>, op' = "none" \/ from' = taken'
  PROVE  WholeInv'
<1>1. from' = taken' => from' + 1 .. taken' = {} /\ from' <= taken'
  <2>1. from' \in Nat /\ taken' \in Nat
    BY DEF RxTypeOK
  <2>2. \A n \in Nat : n + 1 .. n = {} /\ n <= n
    OBVIOUS
  <2>3. QED
    BY <2>1, <2>2
<1>2. Len(buffer') = 0
  OBVIOUS
<1>3. QED
  BY <1>1, <1>2 DEF WholeInv, LineExact

LEMMA WholeKept ==
  ASSUME WholeInv, UNCHANGED <<op, buffer, from, taken, sent, overrun>>
  PROVE  WholeInv'
BY DEF WholeInv, LineExact, Wanted

LEMMA WholeReceive ==
  ASSUME RxTypeOK, RingInv, WholeInv, NEW c \in Chars, Receive(c)
  PROVE  WholeInv'
<1>1. /\ UNCHANGED <<op, buffer, from, taken>> /\ sent' = Append(sent, c)
      /\ (~overrun' => ~overrun)
  BY Zenon DEF Receive
<1>2. sent \in Seq(Chars) /\ from \in Nat /\ taken \in Nat
  BY DEF RxTypeOK
<1>3. ASSUME ~overrun, NEW p \in from + 1 .. taken PROVE sent'[p] = sent[p]
  <2>1. p \in 1 .. Len(sent)
    BY <1>2, <1>3, RingTypes
  <2>2. QED
    BY <1>1, <1>2, <2>1
<1>4. ASSUME ~overrun, NEW p \in from + 1 .. taken PROVE Wanted(p)' <=> Wanted(p)
  BY <1>1, <1>3, <1>4 DEF Wanted
<1>5. ASSUME ~overrun', op' # "none" PROVE LineExact'
  <2>1. ~overrun /\ op # "none"
    BY <1>1, <1>5
  <2>2. ASSUME NEW k \in 1 .. Len(buffer)
        PROVE  /\ buffer[k] \in from + 1 .. taken /\ Wanted(buffer[k])'
               /\ \A j \in 1 .. k - 1 : buffer[j] < buffer[k]
    <3>1. PICK p \in from + 1 .. taken : p = buffer[k] /\ Wanted(p)
      BY <2>1 DEF WholeInv, LineExact
    <3>2. Wanted(p)'
      BY <1>4, <2>1, <3>1
    <3>3. Wanted(buffer[k])'
      BY <1>1, <3>1, <3>2 DEF Wanted
    <3>4. QED
      BY <2>1, <3>3 DEF WholeInv, LineExact
  <2>3. \A p \in from + 1 .. taken : Wanted(p)' => \E k \in 1 .. Len(buffer) : buffer[k] = p
    BY <1>4, <2>1 DEF WholeInv, LineExact
  <2>4. op = "line" => \A p \in from + 1 .. taken : sent'[p] = "nl" => buffer = << >> \/ p < buffer[1]
    BY <1>3, <2>1 DEF WholeInv, LineExact
  <2>5. QED
    BY <1>1, <2>2, <2>3, <2>4 DEF LineExact, Wanted
<1>6. LineExact'
  BY <1>5 DEF LineExact
<1>7. QED
  BY <1>1, <1>6 DEF WholeInv

\* A character that does not end the line goes to the end of the buffer if it is wanted.
LEMMA WholeTake ==
  ASSUME RxTypeOK, RxTypeOK', RingInv, WholeInv, Take, ~Finish(TRUE)
  PROVE  WholeInv'
<1>1. /\ pc = "take" /\ taken' = taken + 1 /\ UNCHANGED <<sent, overrun>>
      /\ ~Ends(Char(buf[rloc])) /\ op' = op /\ from' = from
      /\ buffer' = IF op = "read" \/ Printable(Char(buf[rloc])) THEN Append(buffer, buf[rloc]) ELSE buffer
  BY DEF Take, Get
<1>2. from \in Nat /\ taken \in Nat /\ buffer \in Seq(0 .. Len(sent)) /\ Len(buffer) \in Nat
  BY DEF RxTypeOK
<1>3. op # "none" => from' <= taken'
  BY <1>1, <1>2 DEF WholeInv
<1>4. ASSUME ~overrun, op # "none" PROVE LineExact'
  <2>1. PICK q \in 1 .. Len(sent) : q = taken + 1 /\ buf[rloc] = q
    BY <1>1, <1>4, TakenNext
  <2>2. Char(q) = sent[q] /\ from + 1 <= q /\ q = taken + 1
    BY <1>2, <1>4, <2>1 DEF Char, WholeInv
  <2>3. from + 1 .. taken' = (from + 1 .. taken) \cup {q}
    BY <1>1, <1>2, <2>2
  <2>4. \A p : Wanted(p)' <=> Wanted(p)
    BY <1>1 DEF Wanted
  <2>5. buffer' = IF Wanted(q) THEN Append(buffer, q) ELSE buffer
    BY <1>1, <2>1, <2>2 DEF Wanted
  <2>6. /\ \A k \in 1 .. Len(buffer) :
             /\ buffer[k] \in from + 1 .. taken /\ Wanted(buffer[k])
             /\ \A j \in 1 .. k - 1 : buffer[j] < buffer[k]
        /\ \A p \in from + 1 .. taken : Wanted(p) => \E k \in 1 .. Len(buffer) : buffer[k] = p
        /\ op = "line" =>
             \A p \in from + 1 .. taken : sent[p] = "nl" => buffer = << >> \/ p < buffer[1]
    BY <1>4 DEF WholeInv, LineExact
  <2>7. op = "line" /\ sent[q] = "nl" => buffer = << >> /\ ~Wanted(q)
    BY <1>1, <2>1, <2>2 DEF Ends, Wanted, Printable
  <2>8. CASE ~Wanted(q)
    <3>1. buffer' = buffer
      BY <2>5, <2>8
    <3>2. \A k \in 1 .. Len(buffer) : buffer[k] \in from + 1 .. taken'
      BY <2>3, <2>6
    <3>3. \A p \in from + 1 .. taken' : Wanted(p) => \E k \in 1 .. Len(buffer) : buffer[k] = p
      BY <2>3, <2>6, <2>8
    <3>4. op = "line" =>
            \A p \in from + 1 .. taken' : sent[p] = "nl" => buffer = << >> \/ p < buffer[1]
      BY <2>3, <2>6, <2>7
    <3>5. \A k \in 1 .. Len(buffer) : Wanted(buffer[k])'
      BY <1>1, <2>6, <3>1 DEF Wanted
    <3>6. QED
      BY <1>1, <2>4, <2>6, <3>1, <3>2, <3>3, <3>4, <3>5 DEF LineExact, Wanted
  <2>9. CASE Wanted(q)
    <3>1. /\ Len(buffer') = Len(buffer) + 1
          /\ \A k \in 1 .. Len(buffer) : buffer'[k] = buffer[k]
          /\ buffer'[Len(buffer) + 1] = q
      BY <1>2, <2>5, <2>9
    <3>2. ASSUME NEW k \in 1 .. Len(buffer')
          PROVE  /\ buffer'[k] \in from + 1 .. taken' /\ Wanted(buffer'[k])
                 /\ \A j \in 1 .. k - 1 : buffer'[j] < buffer'[k]
      <4>1. CASE k \in 1 .. Len(buffer)
        <5>1. buffer'[k] = buffer[k] /\ \A j \in 1 .. k - 1 : buffer'[j] = buffer[j]
          BY <1>2, <3>1, <4>1
        <5>2. QED
          BY <2>3, <2>6, <4>1, <5>1
      <4>2. CASE k = Len(buffer) + 1
        <5>1. buffer'[k] = q /\ \A j \in 1 .. k - 1 : j \in 1 .. Len(buffer) /\ buffer'[j] = buffer[j]
          BY <1>2, <3>1, <4>2
        <5>2. \A j \in 1 .. Len(buffer) : buffer[j] < q
          BY <1>2, <2>2, <2>6
        <5>3. QED
          BY <2>3, <2>9, <5>1, <5>2
      <4>3. QED
        BY <1>2, <3>1, <4>1, <4>2
    <3>3. ASSUME NEW p \in from + 1 .. taken', Wanted(p)
          PROVE  \E k \in 1 .. Len(buffer') : buffer'[k] = p
      <4>1. CASE p = q
        <5>1. Len(buffer) + 1 \in 1 .. Len(buffer')
          BY <1>2, <3>1
        <5>2. QED
          BY <3>1, <4>1, <5>1
      <4>2. CASE p \in from + 1 .. taken
        <5>1. PICK k \in 1 .. Len(buffer) : buffer[k] = p
          BY <2>6, <3>3, <4>2
        <5>2. k \in 1 .. Len(buffer')
          BY <1>2, <3>1
        <5>3. QED
          BY <3>1, <5>1, <5>2
      <4>3. QED
        BY <2>3, <4>1, <4>2
    <3>4. ASSUME op = "line", NEW p \in from + 1 .. taken', sent[p] = "nl" PROVE p < buffer'[1]
      <4>1. p \in from + 1 .. taken
        BY <2>3, <2>7, <2>9, <3>4
      <4>2. CASE buffer = << >>
        BY <1>2, <2>2, <3>1, <4>1, <4>2
      <4>3. CASE buffer # << >>
        <5>1. 1 \in 1 .. Len(buffer)
          BY <1>2, <4>3
        <5>2. buffer'[1] = buffer[1]
          BY <3>1, <5>1
        <5>3. QED
          BY <2>6, <3>4, <4>1, <4>3, <5>2
      <4>4. QED
        BY <4>2, <4>3
    <3>5. QED
      BY <1>1, <2>4, <3>2, <3>3, <3>4 DEF LineExact, Wanted
  <2>10. QED
    BY <2>8, <2>9
<1>5. LineExact'
  BY <1>1, <1>4 DEF LineExact
<1>6. QED
  BY <1>1, <1>3, <1>5 DEF WholeInv

LEMMA WholeStep ==
  RxTypeOK /\ RxTypeOK' /\ RingInv /\ LineInv /\ LineInv' /\ WholeInv /\ [RxNext]_rxvars => WholeInv'
<1> SUFFICES ASSUME RxTypeOK, RxTypeOK', RingInv, LineInv, LineInv', WholeInv, [RxNext]_rxvars
             PROVE  WholeInv'
  OBVIOUS
<1>1. ASSUME NEW c \in Chars, Receive(c) PROVE WholeInv'
  BY <1>1, WholeReceive
<1>2. CASE Readline \/ Read
  <2>1. buffer' = << >> /\ from' = taken'
    BY <1>2 DEF Readline, Read, Begin, LineInv
  <2>2. QED
    BY <2>1, WholeEmpty
<1>3. ASSUME NEW whole, Finish(whole) PROVE WholeInv'
  <2>1. buffer' = << >>
    BY <1>3 DEF Finish
  <2>2. PICK urc \in URC(whole) : IF urc THEN pc' = "look" /\ from' = taken' /\ UNCHANGED <<op, since>>
                                  ELSE Return
    BY <1>3, Zenon DEF Finish
  <2>3. op' = "none" \/ from' = taken'
    <3>1. CASE urc
      BY <2>2, <3>1, Zenon
    <3>2. CASE ~urc
      BY <2>2, <3>2, Zenon DEF Return
    <3>3. QED
      BY <3>1, <3>2
  <2>4. QED
    BY <2>1, <2>3, WholeEmpty
<1>4. CASE Take
  BY <1>3, <1>4, WholeTake
<1>5. CASE Look
  <2>1. CASE Finish(FALSE)
    BY <1>3, <2>1
  <2>2. CASE UNCHANGED buffer /\ Goto(IF Readable THEN "take" ELSE "wfi")
    <3>1. UNCHANGED <<op, buffer, from, taken, sent, overrun>>
      BY <1>5, <2>2 DEF Look, Goto, ring
    <3>2. QED
      BY <3>1, WholeKept
  <2>3. QED
    BY <1>5, <2>1, <2>2 DEF Look
<1>6. CASE Tx \/ FlushLook \/ FlushFull \/ FlushGet
  <2>1. op' = "none"
    BY <1>6 DEF Tx, FlushLook, FlushFull, FlushGet, FlushDone, FlushAgain, Goto, LineInv, Reading
  <2>2. QED
    BY <2>1 DEF WholeInv, LineExact
<1>7. CASE Sleep \/ Tick \/ Expire \/ UNCHANGED rxvars
  <2>1. UNCHANGED <<op, buffer, from, taken, sent, overrun>>
    BY <1>7 DEF Sleep, Tick, Expire, Goto, rxvars, ring, thread
  <2>2. QED
    BY <2>1, WholeKept
<1>8. QED
  BY <1>1, <1>2, <1>4, <1>5, <1>6, <1>7 DEF RxNext, Calls, Work

-----------------------------------------------------------------------------
(* What readline() has dropped. *)

DropInv == OnlyNotifications /\ (op = "line" => since <= from)

\* A character that comes is behind everything that has been read.
LEMMA DropReceive ==
  ASSUME RxTypeOK, RingInv, WholeInv, DropInv, NEW c \in Chars, Receive(c)
  PROVE  DropInv'
  <1>. SUFFICES ASSUME ~overrun', op' = "line", NEW p \in since + 1 .. from, Printable(sent'[p])
                PROVE  \E q \in since + 1 .. p : sent'[q] = "urc" /\ Begins(q)' /\ SameLine(q, p)'
    BY DEF OnlyNotifications, DropInv, Receive
  <1>1. /\ ~overrun /\ op = "line" /\ since' = since /\ sent' = Append(sent, c)
    BY Zenon DEF Receive
  <1>2. /\ sent \in Seq(Chars) /\ since \in Nat /\ from \in Nat /\ from <= Len(sent)
    BY <1>1, RingTypes DEF RxTypeOK, WholeInv
  <1>3. \A r \in 1 .. from : sent'[r] = sent[r] BY <1>1, <1>2
  <1>4. p \in 1 .. from /\ Printable(sent[p]) BY <1>2, <1>3
  <1>5. PICK q \in since + 1 .. p : sent[q] = "urc" /\ Begins(q) /\ SameLine(q, p)
    BY <1>1, <1>4 DEF DropInv, OnlyNotifications
  <1>6. SameLine(q, p)' BY <1>2, <1>3, <1>5 DEF SameLine
  <1>7. Begins(q)'
    <2>1. SUFFICES ASSUME NEW r \in since + 1 .. q - 1, Printable(sent'[r]) PROVE ~SameLine(r, q)'
      BY <1>1 DEF Begins
    <2>2. r \in 1 .. from /\ q \in 1 .. from BY <1>2
    <2>3. ~SameLine(r, q) BY <1>3, <1>5, <2>1, <2>2 DEF Begins
    <2>. QED BY <1>2, <1>3, <2>2, <2>3 DEF SameLine
  <1>8. sent'[q] = "urc" BY <1>2, <1>3, <1>5
  <1>. QED BY <1>5, <1>6, <1>7, <1>8

\* A line that is a notification joins what has been dropped: its first character in the
\* buffer begins a line of the stream, or continues one of which a part has been dropped.
LEMMA DropLine ==
  ASSUME RxTypeOK, RingInv, LineInv, WholeInv, DropInv, ~overrun, op = "line",
         buffer # << >>, Char(Head(buffer)) = "urc",
         NEW p \in since + 1 .. taken, Printable(sent[p])
  PROVE  \E q \in since + 1 .. p : sent[q] = "urc" /\ Begins(q) /\ SameLine(q, p)
  <1>1. CASE p <= from
    <2>1. p \in since + 1 .. from BY <1>1 DEF RxTypeOK
    <2>. QED BY <2>1 DEF DropInv, OnlyNotifications
  <1>2. CASE ~(p <= from)
    <2>. DEFINE b == buffer[1]
    <2>1. /\ since \in Nat /\ from \in Nat /\ taken \in Nat
          /\ buffer \in Seq(0 .. Len(sent)) /\ Len(buffer) \in Nat
      BY DEF RxTypeOK
    <2>2. Head(buffer) = b /\ 1 \in 1 .. Len(buffer) BY <2>1
    <2>3. b \in from + 1 .. taken /\ sent[b] = "urc"
      BY <2>1, <2>2 DEF WholeInv, LineExact, Char
    <2>4. ASSUME NEW r \in from + 1 .. taken, Printable(sent[r]) PROVE b <= r
      <3>1. PICK k \in 1 .. Len(buffer) : buffer[k] = r BY <2>4 DEF WholeInv, LineExact, Wanted
      <3>2. \A j \in 1 .. k - 1 : buffer[j] < r BY <3>1 DEF WholeInv, LineExact
      <3>. QED BY <2>1, <2>3, <2>4, <3>1, <3>2
    <2>5. p \in from + 1 .. taken /\ b <= p BY <1>2, <2>1, <2>4
    <2>6. SameLine(b, p)
      <3>1. \A r \in from + 1 .. taken : sent[r] = "nl" => r < b
        BY DEF WholeInv, LineExact
      <3>. QED BY <2>1, <2>3, <2>5, <3>1 DEF SameLine
    <2>. HIDE DEF b
    <2>7. CASE b \in since + 1 .. p /\ Begins(b) BY <2>3, <2>6, <2>7
    <2>8. CASE ~Begins(b)
      <3>1. PICK r \in since + 1 .. b - 1 : Printable(sent[r]) /\ SameLine(r, b)
        BY <2>8 DEF Begins
      <3>2. r \in since + 1 .. from BY <2>1, <2>3, <2>4, <3>1
      <3>3. PICK q \in since + 1 .. r : sent[q] = "urc" /\ Begins(q) /\ SameLine(q, r)
        BY <3>1, <3>2 DEF DropInv, OnlyNotifications
      <3>4. SameLine(q, p) BY <2>1, <2>3, <2>5, <2>6, <3>1, <3>3 DEF SameLine
      <3>5. q \in since + 1 .. p BY <2>1, <2>3, <2>5, <3>2, <3>3
      <3>. QED BY <3>3, <3>4, <3>5
    <2>9. b \in since + 1 .. p BY <2>1, <2>3, <2>5 DEF DropInv
    <2>. QED BY <2>7, <2>8, <2>9
  <1>. QED BY <1>1, <1>2

\* _readline() is left, and called again after a notification.
LEMMA DropFinish ==
  ASSUME RxTypeOK, RingInv, LineInv, WholeInv, DropInv, NEW whole, Finish(whole),
         UNCHANGED <<sent, overrun>>,
         taken' = taken \/ (taken' = taken + 1 /\ (~overrun => sent[taken + 1] = "nl"))
  PROVE  DropInv'
  <1>. SUFFICES ASSUME op' = "line"
                PROVE  /\ ~overrun => \A p \in since' + 1 .. from' : Printable(sent[p]) =>
                            \E q \in since' + 1 .. p :
                              sent[q] = "urc" /\ Begins(q)' /\ SameLine(q, p)'
                       /\ since' <= from'
    BY DEF DropInv, OnlyNotifications
  <1>1. PICK urc \in URC(whole) : IF urc THEN pc' = "look" /\ from' = taken' /\ UNCHANGED <<op, since>>
                                  ELSE Return
    BY Zenon DEF Finish
  <1>2. urc /\ from' = taken' /\ op = "line" /\ since' = since
    <2>1. CASE urc BY <1>1, <2>1
    <2>2. CASE ~urc
      <3>1. Return BY <1>1, <2>2, Zenon
      <3>. QED BY <3>1 DEF Return
    <2>. QED BY <2>1, <2>2
  <1>3. buffer # << >> /\ Char(Head(buffer)) = "urc"
    <2>. SUFFICES ASSUME ~(buffer # << >> /\ Char(Head(buffer)) = "urc") PROVE FALSE OBVIOUS
    <2>1. URC(whole) = {FALSE} BY Zenon DEF URC
    <2>2. urc = FALSE BY <2>1, Zenon
    <2>. QED BY <1>2, <2>2
  <1>4. since' <= from'
    <2>1. since \in Nat /\ from \in Nat /\ taken \in Nat BY DEF RxTypeOK
    <2>2. since <= from /\ from <= taken BY <1>2 DEF DropInv, WholeInv
    <2>. QED BY <1>2, <2>1, <2>2
  <1>5. ASSUME ~overrun, NEW p \in since' + 1 .. from', Printable(sent[p])
        PROVE  \E q \in since' + 1 .. p : sent[q] = "urc" /\ Begins(q)' /\ SameLine(q, p)'
    <2>1. since \in Nat /\ taken \in Nat BY DEF RxTypeOK
    <2>2. p # taken + 1 \/ taken' = taken BY <1>5 DEF Printable
    <2>3. p \in since + 1 .. taken BY <1>2, <2>1, <2>2
    <2>4. PICK q \in since + 1 .. p : sent[q] = "urc" /\ Begins(q) /\ SameLine(q, p)
      BY <1>2, <1>3, <1>5, <2>3, DropLine
    <2>. QED BY <1>2, <2>4 DEF Begins, SameLine
  <1>. QED BY <1>4, <1>5

LEMMA DropStep ==
  RxTypeOK /\ RxTypeOK' /\ RingInv /\ LineInv /\ LineInv' /\ WholeInv /\ DropInv /\ [RxNext]_rxvars
    => DropInv'
  <1>. SUFFICES ASSUME RxTypeOK, RxTypeOK', RingInv, LineInv, LineInv', WholeInv, DropInv,
                       [RxNext]_rxvars
                PROVE  DropInv'
    OBVIOUS
  <1>1. ASSUME NEW c \in Chars, Receive(c) PROVE DropInv' BY <1>1, DropReceive
  <1>2. CASE Readline \/ Read
    <2>1. since' = from' /\ from' \in Nat BY <1>2 DEF Readline, Read, Begin, RxTypeOK
    <2>2. \A n \in Nat : n + 1 .. n = {} /\ n <= n OBVIOUS
    <2>3. since' + 1 .. from' = {} /\ since' <= from' BY <2>1, <2>2
    <2>. QED BY <2>3 DEF DropInv, OnlyNotifications
  <1>3. ASSUME UNCHANGED <<op, from, since, sent, overrun>> PROVE DropInv'
    BY <1>3 DEF DropInv, OnlyNotifications, Begins, SameLine
  <1>4. CASE Take
    <2>1. pc = "take" /\ taken' = taken + 1 /\ UNCHANGED <<sent, overrun>> BY <1>4 DEF Take, Get
    <2>2. CASE Finish(TRUE) /\ Ends(Char(buf[rloc]))
      <3>1. ~overrun => sent[taken + 1] = "nl"
        <4>. SUFFICES ASSUME ~overrun PROVE sent[taken + 1] = "nl" OBVIOUS
        <4>1. buf[rloc] = taken + 1 /\ taken + 1 \in 1 .. Len(sent) BY <2>1, TakenNext
        <4>2. Char(taken + 1) = sent[taken + 1] BY <4>1 DEF Char
        <4>. QED BY <2>2, <4>1, <4>2 DEF Ends
      <3>. QED BY <2>1, <2>2, <3>1, DropFinish
    <2>3. CASE ~Ends(Char(buf[rloc])) BY <1>3, <1>4, <2>1, <2>3 DEF Take
    <2>. QED BY <1>4, <2>2, <2>3 DEF Take
  <1>5. CASE Look
    <2>1. UNCHANGED <<sent, overrun>> BY <1>5 DEF Look, ring
    <2>2. CASE UNCHANGED taken /\ Finish(FALSE) BY <2>1, <2>2, DropFinish
    <2>3. CASE UNCHANGED buffer /\ Goto(IF Readable THEN "take" ELSE "wfi")
      BY <1>3, <2>1, <2>3 DEF Goto
    <2>. QED BY <1>5, <2>2, <2>3 DEF Look
  <1>6. CASE Tx \/ FlushLook \/ FlushFull \/ FlushGet
    <2>1. op' = "none"
      BY <1>6 DEF Tx, FlushLook, FlushFull, FlushGet, FlushDone, FlushAgain, Goto, LineInv, Reading
    <2>. QED BY <2>1 DEF DropInv, OnlyNotifications
  <1>7. CASE Sleep \/ Tick \/ Expire \/ UNCHANGED rxvars
    <2>1. UNCHANGED <<op, from, since, sent, overrun>>
      BY <1>7 DEF Sleep, Tick, Expire, Goto, rxvars, ring, thread
    <2>. QED BY <1>3, <2>1
  <1>. QED BY <1>1, <1>2, <1>4, <1>5, <1>6, <1>7 DEF RxNext, Calls, Work

-----------------------------------------------------------------------------
(* Interrupt and thread together. *)

Inv == RxTypeOK /\ RingInv /\ LineInv /\ WholeInv /\ DropInv /\ EvInv

(* A step of the whole is a step of each of its two parts. *)
LEMMA Parts == [Next]_vars => [RxNext]_rxvars /\ [EvNext]_evvars
  <1>1. RxNext <=> (\E c \in Chars : Receive(c)) \/ Calls \/ Work \/ Expire \/ Tick
    BY Zenon DEF RxNext
  <1>2. EvNext <=> Event \/ EvThread BY Zenon DEF EvNext
  <1>3. CASE \E c \in Chars : RxIrq(c) BY <1>1, <1>2, <1>3, Zenon DEF RxIrq
  <1>4. CASE Thread BY <1>1, <1>2, <1>4, Zenon DEF Thread
  <1>5. CASE (Expire \/ Tick) /\ UNCHANGED evvars BY <1>1, <1>5, Zenon
  <1>6. CASE UNCHANGED vars BY <1>6 DEF vars
  <1>. QED BY <1>3, <1>4, <1>5, <1>6, Zenon DEF Next

LEMMA Invariant == Spec => []Inv
  <1>1. Init => Inv
    <2>. SUFFICES ASSUME Init PROVE Inv OBVIOUS
    <2>1. RxTypeOK
      <3>1. Len(sent) = 0 /\ 0 \in 0 .. 0 BY DEF Init, RxInit
      <3>2. 0 \in Slots BY SizeAssumption DEF Slots
      <3>3. expired \in BOOLEAN /\ overrun \in BOOLEAN BY Zenon DEF Init, RxInit
      <3>4. buf \in [Slots -> 0 .. Len(sent)]
        BY <3>1 DEF Init, RxInit
      <3>5. buffer \in Seq(0 .. Len(sent)) /\ sent \in Seq(Chars) BY DEF Init, RxInit
      <3>. QED BY <3>1, <3>2, <3>3, <3>4, <3>5 DEF Init, RxInit, RxTypeOK
    <2>2. RingInv
      BY SizeAssumption DEF Init, RxInit, RingInv, Unread, Place, Capacity
    <2>3. EvTypeOK BY DEF Init, EvInit, EvTypeOK
    <2>4. Attached /\ Owned BY DEF Init, EvInit, Attached, Owned, Live, Data
    <2>5. LineInv BY DEF Init, RxInit, LineInv
    <2>6. WholeInv BY DEF Init, RxInit, WholeInv, LineExact
    <2>7. DropInv BY DEF Init, RxInit, DropInv, OnlyNotifications
    <2>. QED BY <2>1, <2>2, <2>3, <2>4, <2>5, <2>6, <2>7 DEF Inv, EvInv
  <1>2. Inv /\ [Next]_vars => Inv'
    BY Parts, RxTypingStep, RingStep, LineStep, WholeStep, DropStep, EvStep DEF Inv
  <1>. QED BY <1>1, <1>2, PTL DEF Spec

(* Every variable of the two parts keeps its type; the indices stay in the ring. *)
THEOREM ReceiveTypeOK == Spec => []TypeOK
  <1>1. Inv => TypeOK BY DEF Inv, EvInv, TypeOK
  <1>. QED BY <1>1, Invariant, PTL

(* The ring holds exactly what has come and has not been taken, in order. *)
THEOREM ReceiveRing == Spec => []RingHoldsUnread
  <1>1. Inv => RingHoldsUnread BY RingInvImplies DEF Inv
  <1>. QED BY <1>1, Invariant, PTL

(* The reader has the printable characters since it began (read(): all), each once and *)
(* in order, and no line runs into the next: the ring gives the characters one after   *)
(* the other, and _readline() keeps or drops each.                                     *)
THEOREM ReceiveLineExact == Spec => []LineExact
  <1>1. Inv => LineExact BY DEF Inv, WholeInv
  <1>. QED BY <1>1, Invariant, PTL

(* The handler is given the socket that has the slot, or nothing. *)
THEOREM ReceiveOwnOrNone == Spec => []OwnOrNone
  <1>1. ASSUME EvInv PROVE OwnOrNone
    <2>1. SUFFICES ASSUME NEW i \in Ids, cbs[i].callback # Nobody
                   PROVE  Live(i) /\ cbs[i].data \in {Nobody, owner[i]}
      BY DEF OwnOrNone, Called, Live
    <2>2. Live(i) BY <1>1, <2>1 DEF EvInv, Attached
    <2>. QED BY <1>1, <2>2 DEF EvInv, Attached, Data
  <1>2. Inv => EvInv BY DEF Inv
  <1>. QED BY <1>1, <1>2, Invariant, PTL

(* A socket that has attached is told of everything until it detaches. *)
THEOREM ReceiveInformed == Spec => []Informed
  <1>1. ASSUME EvInv PROVE Informed
    <2>1. SUFFICES ASSUME NEW i \in Ids, Live(i), writing = Nobody
                   PROVE  cbs[i] = [callback |-> "handler", data |-> owner[i]]
      BY DEF Informed, Live
    <2>2. cbs[i].callback = "handler" /\ cbs[i].data = owner[i]
      BY <1>1, <2>1 DEF EvInv, Attached, Data
    <2>3. cbs[i] \in [callback : {Nobody, "handler"}, data : Handles \cup {Nobody}]
      BY <1>1 DEF EvInv, EvTypeOK
    <2>. QED BY <2>2, <2>3
  <1>2. Inv => EvInv BY DEF Inv
  <1>. QED BY <1>1, <1>2, Invariant, PTL

(* tx() writes its command only when all that had come when it began is gone. *)
THEOREM ReceiveFresh == Spec => Fresh
  <1>1. ASSUME Inv, [RxNext]_rxvars, pc = "flush", pc' = "idle", ~overrun
        PROVE  taken >= mark
    <2>1. RxTypeOK /\ RingInv BY <1>1 DEF Inv
    <2>2. ~Readable
      BY <1>1 DEF RxNext, rxvars, thread, Receive, Calls, Work, Tx, Readline, Read, Begin,
                  FlushLook, FlushFull, FlushAgain, FlushGet, Look, Sleep, Take, Expire, Tick, Goto
    <2>3. ~(taken < Len(sent)) BY <1>1, <2>1, <2>2, RingInvImplies DEF RingHoldsUnread
    <2>. QED BY <2>1, <2>3 DEF RxTypeOK
  <1>2. Inv /\ [RxNext]_rxvars =>
          [pc = "flush" /\ pc' = "idle" /\ ~overrun => taken >= mark]_rxvars
    BY <1>1
  <1>. QED BY <1>2, Parts, Invariant, PTL DEF Spec, Fresh

(* What readline() has dropped belongs to lines that began with a notification. *)
THEOREM ReceiveOnlyNotifications == Spec => []OnlyNotifications
  <1>1. Inv => OnlyNotifications BY DEF Inv, DropInv
  <1>. QED BY <1>1, Invariant, PTL

-----------------------------------------------------------------------------
(* How long flushRx() and reading can last. *)

Flushing == pc \in {"flush", "drop"}

(* Two steps for each character, and one for each line that has to be thrown away. *)
FlushEffort ==
  4 * Unread + (IF pc = "flush" THEN 2 ELSE 1) + (IF buffer = << >> THEN 0 ELSE 2)

(* The way of a thread whose time has run out. *)
LateEffort == IF pc = "wfi" THEN 3 ELSE IF pc \in {"take", "asleep"} THEN 2 ELSE 1

NewChar == Len(sent') = Len(sent) + 1

(* As long as no character is lost, each step of tx() that is not its last brings      *)
(* flushRx() nearer to its end, and each character that comes lets it go on a little.  *)
(* A reader whose time has run out is at most three steps from its end, or from the    *)
(* next line if what it has is a notification, and a character does not hold it up.    *)
EffortFalls ==
  /\ Flushing /\ pc' # "idle" /\ ~overrun' =>
       Flushing' /\ IF NewChar THEN FlushEffort' = FlushEffort + 4 ELSE FlushEffort' < FlushEffort
  /\ expired /\ op # "none" /\ op' # "none" /\ expired' =>
       LateEffort' < LateEffort \/ (NewChar /\ LateEffort' = LateEffort)

LEMMA UnreadType ==
  ASSUME Inv, ~overrun PROVE Unread \in Nat /\ FlushEffort \in Nat \ {0}
  <1>1. Unread \in 0 .. Size - 2 /\ Size \in Nat BY RingTypes DEF Inv
  <1>. QED BY <1>1 DEF FlushEffort

LEMMA FlushFalls ==
  ASSUME Inv, Inv', [RxNext]_rxvars, rxvars' # rxvars, Flushing, pc' # "idle", ~overrun'
  PROVE  Flushing' /\ IF NewChar THEN FlushEffort' = FlushEffort + 4 ELSE FlushEffort' < FlushEffort
  <1>1. op = "none" /\ taken \in Nat /\ Len(sent) \in Nat
    <2>1. op = "none" BY DEF Inv, LineInv, Flushing, Reading
    <2>. QED BY <2>1 DEF Inv, RxTypeOK
  <1>2. ASSUME NEW c \in Chars, Receive(c)
        PROVE  NewChar /\ Flushing' /\ FlushEffort' = FlushEffort + 4
    <2>1. Len(sent') = Len(sent) + 1 BY <1>2 DEF Receive, Inv, RxTypeOK
    <2>2. pc' = pc /\ buffer' = buffer /\ taken' = taken BY <1>2 DEF Receive, Flushing
    <2>3. Unread' = Unread + 1 BY <1>1, <2>1, <2>2 DEF Unread
    <2>4. Unread \in Int BY <1>1 DEF Unread
    <2>. QED BY <2>1, <2>2, <2>3, <2>4 DEF NewChar, Flushing, FlushEffort
  <1>3. CASE FlushLook \/ FlushFull
    <2>1. pc = "flush" /\ sent' = sent /\ taken' = taken
      BY <1>3 DEF FlushLook, FlushFull, FlushDone, FlushAgain, Goto, ring
    <2>2. \/ pc' = "drop" /\ buffer' = buffer
          \/ pc' = "flush" /\ buffer # << >> /\ buffer' = << >>
      <3>1. Len(buffer) = FlushMax => buffer # << >>
        BY MaxAssumption
      <3>. QED BY <1>3, <3>1 DEF FlushLook, FlushFull, FlushDone, FlushAgain, Goto
    <2>3. Unread' = Unread /\ Unread \in Int BY <1>1, <2>1 DEF Unread
    <2>. QED BY <1>1, <2>1, <2>2, <2>3 DEF NewChar, Flushing, FlushEffort
  <1>4. CASE FlushGet
    <2>1. pc = "drop" /\ pc' = "flush" /\ sent' = sent /\ taken' = taken + 1
      BY <1>4 DEF FlushGet, Get
    <2>2. Unread' = Unread - 1 /\ Unread \in Int BY <1>1, <2>1 DEF Unread
    <2>3. buffer # << >> => buffer' # << >>
      <3>1. Append(buffer, buf[rloc]) # << >>
        <4>1. buffer \in Seq(0 .. Len(sent)) BY DEF Inv, RxTypeOK
        <4>2. Len(Append(buffer, buf[rloc])) = Len(buffer) + 1 /\ Len(buffer) \in Nat BY <4>1
        <4>. QED BY <4>2
      <3>2. buffer' \in {Append(buffer, buf[rloc]), buffer} BY <1>4 DEF FlushGet
      <3>. QED BY <3>1, <3>2
    <2>. QED BY <1>1, <2>1, <2>2, <2>3 DEF NewChar, Flushing, FlushEffort
  <1>5. ~(Calls \/ Look \/ Sleep \/ Take \/ Expire \/ Tick)
    BY <1>1 DEF Calls, Tx, Readline, Read, Begin, Look, Sleep, Take, Expire, Tick, Flushing
  <1>. QED BY <1>2, <1>3, <1>4, <1>5 DEF RxNext, Work

LEMMA LateFalls ==
  ASSUME Inv, Inv', [RxNext]_rxvars, rxvars' # rxvars,
         expired, op # "none", op' # "none", expired'
  PROVE  LateEffort' < LateEffort \/ (NewChar /\ LateEffort' = LateEffort)
  <1>1. pc \in Reading BY DEF Inv, LineInv
  <1>2. ASSUME NEW c \in Chars, Receive(c)
        PROVE  LateEffort' < LateEffort \/ (NewChar /\ LateEffort' = LateEffort)
    <2>1. Len(sent') = Len(sent) + 1 BY <1>2 DEF Receive, Inv, RxTypeOK
    <2>2. pc' = IF pc = "asleep" THEN "look" ELSE pc BY <1>2 DEF Receive
    <2>. QED BY <1>1, <2>1, <2>2 DEF NewChar, LateEffort, Reading
  <1>3. ~Look
    BY DEF Look, Finish, Return, Goto
  <1>4. CASE Sleep BY <1>4 DEF Sleep, Goto, LateEffort
  <1>5. CASE Take
    <2>1. pc = "take" /\ (Finish(TRUE) \/ pc' = "look") BY <1>5 DEF Take
    <2>2. ~Finish(TRUE)
      <3>. SUFFICES ASSUME Finish(TRUE) PROVE FALSE OBVIOUS
      <3>1. expired' = FALSE BY Zenon DEF Finish
      <3>. QED BY <3>1
    <2>3. pc = "take" /\ pc' = "look" BY <2>1, <2>2, Zenon
    <2>. QED BY <2>3 DEF LateEffort
  <1>6. CASE Tick BY <1>6 DEF Tick, Goto, LateEffort
  <1>7. ~(Calls \/ FlushLook \/ FlushFull \/ FlushGet \/ Expire)
    BY <1>1 DEF Calls, Tx, Readline, Read, Begin, FlushLook, FlushFull, FlushGet, Expire, Reading
  <1>. QED BY <1>2, <1>3, <1>4, <1>5, <1>6, <1>7 DEF RxNext, Work

(* flushRx() ends unless characters keep coming, and a reading whose time has run out   *)
(* does not wait for another one: what can be said of ReadReturns without fairness.    *)
THEOREM ReceiveEffort ==
  Spec => /\ [](~overrun => FlushEffort \in Nat \ {0})
          /\ [][EffortFalls]_rxvars
  <1>1. Inv => (~overrun => FlushEffort \in Nat \ {0}) BY UnreadType
  <1>2. Inv /\ Inv' /\ [RxNext]_rxvars => [EffortFalls]_rxvars
    <2>. SUFFICES ASSUME Inv, Inv', [RxNext]_rxvars, rxvars' # rxvars PROVE EffortFalls
      BY Zenon
    <2>1. Flushing /\ pc' # "idle" /\ ~overrun' =>
            Flushing' /\ IF NewChar THEN FlushEffort' = FlushEffort + 4
                         ELSE FlushEffort' < FlushEffort
      BY FlushFalls
    <2>2. expired /\ op # "none" /\ op' # "none" /\ expired' =>
            LateEffort' < LateEffort \/ (NewChar /\ LateEffort' = LateEffort)
      BY LateFalls
    <2>. QED BY <2>1, <2>2 DEF EffortFalls
  <1>. QED BY <1>1, <1>2, Parts, Invariant, PTL DEF Spec

=============================================================================
