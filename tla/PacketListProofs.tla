-------------------------- MODULE PacketListProofs --------------------------
(* Theorems about PacketList, for all sockets, blocks, lengths and bounds. *)
EXTENDS PacketList, TLAPS

\* Where the elements of a concatenation come from.
LEMMA ConcatIs ==
  ASSUME NEW S, NEW s \in Seq(S), NEW t \in Seq(S)
  PROVE  /\ s \o t \in Seq(S)
         /\ Len(s \o t) = Len(s) + Len(t)
         /\ \A j \in 1 .. Len(s) + Len(t) :
              (s \o t)[j] = IF j <= Len(s) THEN s[j] ELSE t[j - Len(s)]
OBVIOUS

\* Removing the element at k moves the later ones forward by one place.
LEMMA RemoveAtIs ==
  ASSUME NEW S, NEW s \in Seq(S), NEW k \in 1 .. Len(s)
  PROVE  /\ RemoveAt(s, k) \in Seq(S)
         /\ Len(RemoveAt(s, k)) = Len(s) - 1
         /\ \A j \in 1 .. Len(s) - 1 :
              RemoveAt(s, k)[j] = IF j < k THEN s[j] ELSE s[j + 1]
<1>1. /\ SubSeq(s, 1, k - 1) \in Seq(S)
      /\ Len(SubSeq(s, 1, k - 1)) = k - 1
      /\ \A j \in 1 .. k - 1 : SubSeq(s, 1, k - 1)[j] = s[j]
  OBVIOUS
<1>2. /\ SubSeq(s, k + 1, Len(s)) \in Seq(S)
      /\ Len(SubSeq(s, k + 1, Len(s))) = Len(s) - k
      /\ \A j \in 1 .. Len(s) - k : SubSeq(s, k + 1, Len(s))[j] = s[k + j]
  OBVIOUS
<1> DEFINE before == SubSeq(s, 1, k - 1)
           after == SubSeq(s, k + 1, Len(s))
<1>3. /\ before \o after \in Seq(S)
      /\ Len(before \o after) = Len(s) - 1
      /\ \A j \in 1 .. Len(s) - 1 :
           (before \o after)[j] = IF j < k THEN before[j] ELSE after[j - (k - 1)]
  <2>1. before \in Seq(S) /\ after \in Seq(S) /\ Len(before) = k - 1 /\ Len(after) = Len(s) - k
    BY <1>1, <1>2
  <2> HIDE DEF before, after
  <2>2. /\ before \o after \in Seq(S)
        /\ Len(before \o after) = Len(before) + Len(after)
        /\ \A j \in 1 .. Len(before) + Len(after) :
             (before \o after)[j] = IF j <= Len(before) THEN before[j] ELSE after[j - Len(before)]
    BY <2>1, ConcatIs
  <2>3. Len(before) + Len(after) = Len(s) - 1 /\ \A j \in 1 .. Len(s) - 1 : j <= Len(before) <=> j < k
    BY <2>1
  <2>4. QED
    BY <2>1, <2>2, <2>3
<1>5. \A j \in 1 .. Len(s) - 1 : j >= k => after[j - (k - 1)] = s[j + 1]
  <2> SUFFICES ASSUME NEW j \in k .. Len(s) - 1 PROVE after[j - (k - 1)] = s[j + 1]
    OBVIOUS
  <2>1. j - (k - 1) \in 1 .. Len(s) - k /\ k + (j - (k - 1)) = j + 1
    OBVIOUS
  <2> QED
    BY <1>2, <2>1
<1>6. RemoveAt(s, k) = before \o after
  BY DEF RemoveAt
<1>7. \A j \in 1 .. Len(s) - 1 : j < k => before[j] = s[j]
  BY <1>1
<1>8. QED
  <2> HIDE DEF before, after
  <2> QED
    BY <1>3, <1>5, <1>6, <1>7

\* What holds between any two steps.  WalkSound says that what a call finds is
\* the oldest packet of its socket, ListSound that the block it frees can be
\* cut out of the list, and Contiguous needs both.
IInv == TypeOK /\ ListSound /\ WalkSound /\ Contiguous

\* The links of the list are all different.
LEMMA CellsDiffer ==
  ASSUME IInv, NEW j \in 0 .. Len(list), NEW k \in 0 .. Len(list), Cell(j) = Cell(k)
  PROVE  j = k
<1>1. list \in Seq(Blocks) /\ \A m, n \in 1 .. Len(list) : list[m] = list[n] => m = n
  BY DEF IInv, TypeOK, ListSound
<1>2. \A m \in 1 .. Len(list) : list[m] # Root
  BY <1>1, LinkAssumption
<1>3. QED
  BY <1>1, <1>2 DEF Cell

\* Where a walk that has not come to the end of the list stands.
LEMMA HereIs ==
  ASSUME IInv, at # Null, Here # Null
  PROVE  \E k \in 1 .. Len(list) :
           /\ at = Cell(k - 1) /\ Here = list[k] /\ Here \in Blocks
           /\ \A j \in 1 .. k - 1 : Packet(j).id # want.id
           /\ k = CHOOSE j \in DOMAIN list : list[j] = Here
<1>1. PICK k \in 0 .. Len(list) : at = Cell(k) /\ \A j \in 1 .. k : packet[list[j]].id # want.id
  BY DEF IInv, WalkSound
<1>2. Here = Item(k + 1)
  BY <1>1 DEF IInv, ListSound, Here
<1>3. k + 1 \in 1 .. Len(list) /\ Here = list[k + 1]
  BY <1>1, <1>2 DEF Item, IInv, TypeOK
<1>a. list \in Seq(Blocks) /\ \A i, j \in 1 .. Len(list) : list[i] = list[j] => i = j
  BY DEF IInv, ListSound, TypeOK
<1>4. \A j \in DOMAIN list : list[j] = Here => j = k + 1
  BY <1>3, <1>a
<1>5. k + 1 = CHOOSE j \in DOMAIN list : list[j] = Here
  BY <1>3, <1>4 DEF IInv, TypeOK
<1>6. at = Cell((k + 1) - 1) /\ \A j \in 1 .. (k + 1) - 1 : Packet(j).id # want.id
  BY <1>1 DEF Packet
<1>7. Here \in Blocks
  BY <1>3, <1>a
<1>8. QED
  BY <1>3, <1>5, <1>6, <1>7

LEMMA InitInv == Init => IInv
<1> SUFFICES ASSUME Init PROVE IInv
  OBVIOUS
<1>1. TypeOK
  BY LinkAssumption, LenAssumption DEF Init, TypeOK, Links
<1>2. Len(list) = 0
  BY DEF Init
<1>3. ListSound
  BY <1>2 DEF Init, ListSound, Cell, Item, Links
<1>4. WalkSound /\ Contiguous
  BY <1>2 DEF Init, WalkSound, Contiguous
<1>5. QED
  BY <1>1, <1>3, <1>4 DEF IInv

-----------------------------------------------------------------------------
(* A packet is appended. *)

LEMMA EnqueueInv ==
  ASSUME IInv, NEW i \in Ids, NEW n \in Lens, Enqueue(i, n)
  PROVE  IInv'
<1>a. PICK L \in Nat : L = Len(list)
  BY DEF IInv, TypeOK
<1> USE <1>a
<1>0. PICK b \in Blocks \ heap :
        /\ heap' = heap \cup {b}
        /\ packet' = [packet EXCEPT ![b] = Bytes(i, arrived[i], n)]
        /\ link' = [link EXCEPT ![b] = Null, ![end] = b]
        /\ end' = b
        /\ list' = Append(list, b)
  BY DEF Enqueue
<1>1. /\ at = Null /\ at' = Null /\ want' = want /\ out' = out /\ taken' = taken
      /\ arrived[i] + n <= MaxBytes
      /\ arrived' = [arrived EXCEPT ![i] = arrived[i] + n]
  BY DEF Enqueue
<1>2. /\ L \in Nat /\ list \in Seq(Blocks) /\ n \in Nat
      /\ arrived[i] \in Nat /\ arrived'[i] = arrived[i] + n
  BY <1>1, LenAssumption DEF IInv, TypeOK
<1>3. /\ Len(list') = L + 1 /\ list'[L + 1] = b /\ list' \in Seq(Blocks)
      /\ \A k \in 1 .. L : list'[k] = list[k] /\ list[k] \in heap /\ list[k] # b
  BY <1>0, <1>2 DEF IInv, ListSound
<1>4. TypeOK'
  <2>1. Bytes(i, arrived[i], n) \in [id : Ids, first : Nat, len : Nat]
    BY <1>2 DEF Bytes
  <2>2. arrived' \in [Ids -> 0 .. MaxBytes]
    BY <1>1, <1>2, LenAssumption DEF IInv, TypeOK
  <2>3. link' \in [Links -> Blocks \cup {Null}] /\ end' \in Links
    BY <1>0 DEF IInv, TypeOK, Links
  <2>4. packet' \in [Blocks -> [id : Ids, first : Nat, len : Nat]]
    BY <1>0, <2>1 DEF IInv, TypeOK
  <2>5. QED
    BY <1>0, <1>1, <1>3, <2>2, <2>3, <2>4 DEF IInv, TypeOK
<1>5. ListSound'
  <2>1. heap' = {list'[k] : k \in 1 .. Len(list')}
    <3>1. {list'[k] : k \in 1 .. L + 1} = {list[k] : k \in 1 .. L} \cup {b}
      BY <1>2, <1>3
    <3>2. QED
      BY <1>0, <1>3, <3>1 DEF IInv, ListSound
  <2>2. \A j, k \in 1 .. Len(list') : list'[j] = list'[k] => j = k
    BY <1>2, <1>3 DEF IInv, ListSound
  <2>3. ASSUME NEW k \in 0 .. L + 1 PROVE link'[Cell(k)'] = Item(k + 1)'
    <3>1. CASE k = L + 1
      <4>1. Cell(k)' = b /\ Item(k + 1)' = Null /\ b # end
        BY <3>1, <1>2, <1>3, LinkAssumption DEF Cell, Item, IInv, ListSound
      <4>2. QED
        BY <4>1, <1>0 DEF IInv, TypeOK, Links
    <3>2. CASE k = L
      <4>1. Cell(k)' = end /\ Item(k + 1)' = b
        BY <3>2, <1>2, <1>3 DEF Cell, Item, IInv, ListSound
      <4>2. QED
        BY <4>1, <1>0 DEF IInv, TypeOK
    <3>3. CASE k < L
      <4>1. Cell(k)' = Cell(k) /\ Item(k + 1)' = Item(k + 1)
        BY <3>3, <1>2, <1>3 DEF Cell, Item
      <4>2. Cell(k) # end /\ Cell(k) # b /\ Cell(k) \in Links
        <5>1. Cell(k) # Cell(L)
          BY <3>3, <1>2, CellsDiffer
        <5>2. QED
          BY <5>1, <3>3, <1>2, <1>3, LinkAssumption DEF IInv, ListSound, Cell, Links
      <4>3. link[Cell(k)] = Item(k + 1)
        BY <3>3, <1>2 DEF IInv, ListSound
      <4>4. link'[Cell(k)] = link[Cell(k)]
        BY <1>0, <4>2 DEF IInv, TypeOK
      <4>5. QED
        BY <4>1, <4>3, <4>4
    <3>4. QED
      BY <3>1, <3>2, <3>3, <1>2
  <2>4. end' = Cell(L + 1)'
    BY <1>0, <1>2, <1>3 DEF Cell
  <2>5. QED
    BY <1>3, <2>1, <2>2, <2>3, <2>4 DEF ListSound
<1>6. WalkSound'
  BY <1>1 DEF WalkSound
<1>7. Contiguous'
  <2>1. /\ \A k \in 1 .. L : Packet(k)' = Packet(k) /\ Packet(k).id \in Ids
        /\ Packet(L + 1)' = Bytes(i, arrived[i], n)
    BY <1>0, <1>2, <1>3 DEF Packet, IInv, TypeOK
  <2>2. \A k \in 1 .. L : /\ Packet(k).first \in Nat /\ Packet(k).len \in Nat
                          /\ arrived[Packet(k).id] \in Nat
    <3>1. \A h \in Ids : arrived[h] \in Nat
      BY LenAssumption DEF IInv, TypeOK
    <3>2. \A k \in 1 .. L : Packet(k) \in [id : Ids, first : Nat, len : Nat]
      BY <1>2 DEF Packet, IInv, TypeOK
    <3>3. QED
      BY <3>1, <3>2
  <2>3. /\ Packet(L + 1)'.id = i /\ Packet(L + 1)'.first = arrived[i] /\ Packet(L + 1)'.len = n
    BY <2>1 DEF Bytes
  <2>4. ASSUME NEW j \in 1 .. L + 1, NEW k \in 1 .. L + 1, Follows(j, k)'
        PROVE  Packet(k)'.first = Packet(j)'.first + Packet(j)'.len
    <3>1. j \in 1 .. L /\ j < k
      BY <2>4, <1>2 DEF Follows
    <3>2. CASE k = L + 1
      <4>1. Packet(j).id = i /\ LastOfIts(j)
        BY <2>4, <3>1, <3>2, <2>1, <2>3, <1>2 DEF Follows, LastOfIts
      <4>2. QED
        BY <4>1, <3>1, <3>2, <2>1, <2>3, <1>2 DEF IInv, Contiguous
    <3>3. CASE k # L + 1
      <4>1. Follows(j, k)
        <5>1. k \in 1 .. L /\ Packet(k)' = Packet(k) /\ Packet(j)' = Packet(j)
          BY <3>1, <3>3, <2>1
        <5>2. \A m \in j + 1 .. k - 1 : m \in 1 .. L /\ Packet(m)' = Packet(m)
          BY <3>1, <5>1, <2>1
        <5>3. QED
          BY <2>4, <3>1, <5>1, <5>2 DEF Follows
      <4>2. QED
        BY <4>1, <3>1, <3>3, <2>1, <1>2 DEF IInv, Contiguous
    <3>4. QED
      BY <3>2, <3>3
  <2>5. ASSUME NEW k \in 1 .. L + 1
        PROVE  /\ FirstOfIts(k)' => Packet(k)'.first = taken[Packet(k)'.id]
               /\ LastOfIts(k)' => Packet(k)'.first + Packet(k)'.len = arrived'[Packet(k)'.id]
               /\ Packet(k)'.first + Packet(k)'.len <= arrived'[Packet(k)'.id]
    <3>1. CASE k = L + 1
      <4>1. ASSUME FirstOfIts(k)' PROVE arrived[i] = taken[i]
        <5>1. \A m \in 1 .. L : Packet(m).id # i
          BY <4>1, <3>1, <2>1, <2>3, <1>2 DEF FirstOfIts
        <5>2. QED
          BY <5>1 DEF IInv, Contiguous
      <4>2. QED
        BY <4>1, <3>1, <2>3, <1>2
    <3>2. CASE k \in 1 .. L
      <4>1. FirstOfIts(k)' => FirstOfIts(k)
        BY <3>2, <2>1, <1>2 DEF FirstOfIts
      <4>2. ASSUME LastOfIts(k)' PROVE LastOfIts(k) /\ Packet(k).id # i
        BY <4>2, <3>2, <2>1, <2>3, <1>2, <1>3 DEF LastOfIts
      <4>3. arrived[Packet(k).id] <= arrived'[Packet(k).id]
        <5>1. \A h \in Ids : arrived[h] <= arrived'[h]
          <6>1. arrived \in [Ids -> 0 .. MaxBytes] /\ n \in Nat /\ MaxBytes \in Nat
            BY LenAssumption DEF IInv, TypeOK
          <6>2. QED
            BY <1>1, <6>1
        <5>2. QED
          BY <5>1, <3>2, <2>1
      <4>4. Packet(k).id # i => arrived'[Packet(k).id] = arrived[Packet(k).id]
        BY <1>1, <3>2, <2>1 DEF IInv, TypeOK
      <4>5. arrived'[Packet(k).id] \in Nat
        BY <1>4, <3>2, <2>1 DEF TypeOK
      <4>6. /\ FirstOfIts(k) => Packet(k).first = taken[Packet(k).id]
            /\ LastOfIts(k) => Packet(k).first + Packet(k).len = arrived[Packet(k).id]
            /\ Packet(k).first + Packet(k).len <= arrived[Packet(k).id]
        BY <3>2 DEF IInv, Contiguous
      <4>7. Packet(k)' = Packet(k)
        BY <3>2, <2>1
      <4>8. LastOfIts(k)' => Packet(k).first + Packet(k).len = arrived'[Packet(k).id]
        BY <4>2, <4>4, <4>6
      <4>9. Packet(k).first + Packet(k).len <= arrived'[Packet(k).id]
        BY <4>3, <4>5, <4>6, <3>2, <2>2
      <4>10. QED
        BY <4>1, <4>6, <4>7, <4>8, <4>9
    <3>3. QED
      BY <3>1, <3>2, <1>2
  <2>6. ASSUME NEW h \in Ids, \A k \in 1 .. L + 1 : Packet(k)'.id # h
        PROVE  taken[h] = arrived'[h]
    <3>1. h # i /\ \A k \in 1 .. L : Packet(k).id # h
      BY <2>6, <2>1, <2>3, <1>2
    <3>2. QED
      BY <3>1, <1>1 DEF IInv, Contiguous, TypeOK
  <2>7. QED
    BY <1>1, <1>3, <2>4, <2>5, <2>6 DEF Contiguous
<1>8. QED
  BY <1>4, <1>5, <1>6, <1>7 DEF IInv

-----------------------------------------------------------------------------
(* A packet is removed. *)

LEMMA ReturnPacketInv ==
  ASSUME IInv, ReturnPacket
  PROVE  IInv'
<1>1. at # Null /\ Here # Null /\ packet[Here].id = want.id
  BY DEF ReturnPacket, Found
<1>a. PICK k \in 1 .. Len(list) :
        /\ at = Cell(k - 1) /\ Here = list[k] /\ Here \in Blocks
        /\ \A j \in 1 .. k - 1 : Packet(j).id # want.id
        /\ k = CHOOSE j \in DOMAIN list : list[j] = Here
  BY <1>1, HereIs
<1>2. /\ at = Cell(k - 1) /\ Here = list[k] /\ Here \in Blocks
      /\ \A j \in 1 .. k - 1 : Packet(j).id # want.id
  BY <1>a
<1>3. PICK L \in Nat : L = Len(list)
  BY DEF IInv, TypeOK
<1> DEFINE Old(j) == IF j < k THEN j ELSE j + 1
<1>4. /\ list \in Seq(Blocks) /\ k \in 1 .. L
      /\ Packet(k).id = want.id
      /\ \A j \in 1 .. L : Packet(j) \in [id : Ids, first : Nat, len : Nat]
      /\ \A i \in Ids : arrived[i] \in 0 .. MaxBytes /\ taken[i] \in 0 .. MaxBytes
      /\ want.id \in Ids
  <2>1. /\ list \in Seq(Blocks) /\ want.id \in Ids
        /\ packet \in [Blocks -> [id : Ids, first : Nat, len : Nat]]
    BY DEF IInv, TypeOK
  <2>2. \A i \in Ids : arrived[i] \in 0 .. MaxBytes /\ taken[i] \in 0 .. MaxBytes
    BY DEF IInv, TypeOK
  <2>3. \A j \in 1 .. L : Packet(j) \in [id : Ids, first : Nat, len : Nat]
    <3>1. \A j \in 1 .. L : list[j] \in Blocks
      BY <1>3, <2>1
    <3>2. QED
      BY <2>1, <3>1 DEF Packet
  <2>4. k \in 1 .. L /\ Packet(k).id = want.id
    BY <1>1, <1>2, <1>3 DEF Packet
  <2>5. QED
    BY <2>1, <2>2, <2>3, <2>4
<1>5. /\ list' \in Seq(Blocks) /\ Len(list') = L - 1
      /\ \A j \in 1 .. L - 1 : list'[j] = list[Old(j)]
  <2>1. list' = RemoveAt(list, k)
    BY <1>a DEF ReturnPacket
  <2>2. QED
    BY <2>1, <1>3, <1>4, RemoveAtIs
<1>6. /\ end' = IF end = Here THEN at ELSE end
      /\ link' = [link EXCEPT ![at] = link[Here]]
      /\ heap' = heap \ {Here}
      /\ at' = Null /\ want' = want /\ arrived' = arrived /\ packet' = packet
      /\ out' = IF Packet(k).len = 0 THEN << >> ELSE Bytes(want.id, Packet(k).first, Packet(k).len)
      /\ taken' = [taken EXCEPT ![want.id] = taken[want.id] + Packet(k).len]
  BY <1>1, <1>2 DEF ReturnPacket, Return, Give, Packet
<1>7. FirstOfIts(k)
  BY <1>2, <1>4 DEF FirstOfIts
<1>8. /\ taken[want.id] = Packet(k).first
      /\ Packet(k).first + Packet(k).len <= arrived[want.id]
  BY <1>3, <1>4, <1>7 DEF IInv, Contiguous
<1>9. \A i \in Ids : taken'[i] = IF i = want.id THEN Packet(k).first + Packet(k).len ELSE taken[i]
  BY <1>4, <1>6, <1>8 DEF IInv, TypeOK
<1>10. TypeOK'
  <2>1. taken' \in [Ids -> 0 .. MaxBytes]
    <3>1. \A i \in Ids : taken'[i] \in 0 .. MaxBytes
      BY <1>4, <1>8, <1>9, LenAssumption
    <3>2. QED
      BY <3>1, <1>6 DEF IInv, TypeOK
  <2>2. out' \in {<< >>} \cup [id : Ids, first : Nat, len : Nat]
    BY <1>4, <1>6 DEF Bytes
  <2>3. link' \in [Links -> Blocks \cup {Null}] /\ end' \in Links
    BY <1>1, <1>2, <1>6 DEF IInv, TypeOK, Links
  <2>4. QED
    BY <1>5, <1>6, <2>1, <2>2, <2>3 DEF IInv, TypeOK
<1>11. ListSound'
  <2>1. /\ heap = {list[j] : j \in 1 .. L}
        /\ \A i, j \in 1 .. L : list[i] = list[j] => i = j
        /\ \A j \in 0 .. L : link[Cell(j)] = Item(j + 1)
        /\ end = Cell(L)
    BY <1>3 DEF IInv, ListSound
  <2>2. heap' = {list'[j] : j \in 1 .. L - 1}
    <3>1. ASSUME NEW b \in heap' PROVE \E j \in 1 .. L - 1 : b = list'[j]
      <4>1. PICK i \in 1 .. L : b = list[i]
        BY <3>1, <2>1, <1>6
      <4>2. i # k
        BY <3>1, <4>1, <1>2, <1>6
      <4>3. PICK j \in 1 .. L - 1 : i = Old(j)
        <5>1. CASE i < k
          <6>1. i \in 1 .. L - 1 /\ Old(i) = i
            BY <5>1, <1>4
          <6>2. QED
            BY <6>1
        <5>2. CASE i > k
          <6>1. i - 1 \in 1 .. L - 1 /\ Old(i - 1) = i
            BY <5>2, <1>4
          <6>2. QED
            BY <6>1
        <5>3. QED
          BY <4>2, <5>1, <5>2, <1>4
      <4>4. QED
        BY <4>1, <4>3, <1>5
    <3>2. ASSUME NEW j \in 1 .. L - 1 PROVE list'[j] \in heap'
      <4>1. Old(j) \in 1 .. L /\ Old(j) # k
        BY <1>4
      <4>2. list[Old(j)] \in heap /\ list[Old(j)] # list[k]
        BY <4>1, <2>1, <1>4
      <4>3. QED
        BY <4>2, <1>2, <1>5, <1>6
    <3>3. QED
      BY <3>1, <3>2
  <2>3. ASSUME NEW i \in 1 .. L - 1, NEW j \in 1 .. L - 1, list'[i] = list'[j] PROVE i = j
    <3>1. Old(i) \in 1 .. L /\ Old(j) \in 1 .. L
      BY <1>4
    <3>2. Old(i) = Old(j)
      BY <3>1, <2>1, <2>3, <1>5
    <3>3. QED
      BY <3>2, <1>4
  <2>4. \A j \in 0 .. L - 1 : Cell(j)' = IF j < k THEN Cell(j) ELSE Cell(j + 1)
    <3> SUFFICES ASSUME NEW j \in 0 .. L - 1
                 PROVE  Cell(j)' = IF j < k THEN Cell(j) ELSE Cell(j + 1)
      OBVIOUS
    <3>1. CASE j = 0
      BY <3>1, <1>4 DEF Cell
    <3>2. CASE j \in 1 .. L - 1
      <4>1. list'[j] = IF j < k THEN list[j] ELSE list[j + 1]
        BY <3>2, <1>5
      <4>2. j # 0 /\ j + 1 # 0
        BY <3>2
      <4>3. QED
        BY <4>1, <4>2 DEF Cell
    <3>3. QED
      BY <3>1, <3>2
  <2>5. \A j \in 1 .. L : Item(j)' = IF j < k THEN Item(j) ELSE Item(j + 1)
    BY <1>3, <1>4, <1>5 DEF Item
  <2>6. \A j \in 0 .. L : Cell(j) \in Links /\ (Cell(j) = at => j = k - 1)
    <3>1. \A j \in 0 .. L : Cell(j) \in Links
      BY <1>4, <1>3 DEF Cell, Links
    <3>2. \A j \in 0 .. L : Cell(j) = Cell(k - 1) => j = k - 1
      BY <1>3, <1>4, CellsDiffer
    <3>3. QED
      BY <3>1, <3>2, <1>2
  <2>7. ASSUME NEW j \in 0 .. L - 1 PROVE link'[Cell(j)'] = Item(j + 1)'
    <3>1. CASE j < k - 1
      <4>1. Cell(j)' = Cell(j) /\ Item(j + 1)' = Item(j + 1) /\ Cell(j) # at
        BY <3>1, <2>4, <2>5, <2>6, <1>4
      <4>2. QED
        BY <4>1, <2>1, <2>6, <1>4, <1>6 DEF IInv, TypeOK
    <3>2. CASE j = k - 1
      <4>1. Cell(j)' = at /\ Item(j + 1)' = Item(k + 1)
        <5>1. j < k /\ ~(j + 1 < k) /\ j + 1 = k /\ j + 1 \in 1 .. L
          BY <3>2, <1>4
        <5>2. QED
          BY <5>1, <3>2, <2>4, <2>5, <1>2
      <4>2. Cell(k) = Here
        BY <1>2, <1>4 DEF Cell
      <4>3. link'[at] = link[Here] /\ link[Here] = Item(k + 1)
        <5>1. link[Cell(k)] = Item(k + 1)
          BY <2>1, <1>4
        <5>2. link'[at] = link[Here]
          <6>1. link \in [Links -> Blocks \cup {Null}] /\ at \in Links
            BY <1>2, <2>6, <1>4 DEF IInv, TypeOK
          <6>2. QED
            BY <1>6, <6>1
        <5>3. QED
          BY <5>1, <5>2, <4>2
      <4>4. QED
        BY <4>1, <4>3
    <3>3. CASE j > k - 1
      <4>1. Cell(j)' = Cell(j + 1) /\ Item(j + 1)' = Item(j + 2) /\ Cell(j + 1) # at
        BY <3>3, <2>4, <2>5, <2>6, <1>4
      <4>2. Cell(j + 1) \in Links /\ link[Cell(j + 1)] = Item(j + 2)
        <5>1. j + 1 \in 0 .. L /\ (j + 1) + 1 = j + 2
          OBVIOUS
        <5>2. QED
          BY <5>1, <2>1, <2>6
      <4>3. QED
        BY <4>1, <4>2, <1>6 DEF IInv, TypeOK
    <3>4. QED
      BY <3>1, <3>2, <3>3, <1>4
  <2>8. PICK M \in Nat : M = L - 1
    BY <1>4
  <2>9. end' = Cell(M)'
    <3>1. CASE k = L
      <4>1. end = Here
        BY <3>1, <2>1, <1>2, <1>4 DEF Cell
      <4>2. Cell(M)' = Cell(k - 1)
        BY <3>1, <2>4, <2>8, <1>4
      <4>3. QED
        BY <4>1, <4>2, <1>2, <1>6
    <3>2. CASE k < L
      <4>1. end # Here
        <5>1. end = list[L] /\ list[L] # list[k]
          BY <3>2, <2>1, <1>4 DEF Cell
        <5>2. QED
          BY <5>1, <1>2
      <4>2. Cell(M)' = Cell(L)
        BY <3>2, <2>4, <2>8, <1>4
      <4>3. QED
        BY <4>1, <4>2, <2>1, <1>6
    <3>3. QED
      BY <3>1, <3>2, <1>4
  <2>10. QED
    BY <2>2, <2>3, <2>7, <2>8, <2>9, <1>5 DEF ListSound
<1>12. WalkSound'
  BY <1>6 DEF WalkSound
<1>13. Contiguous'
  <2>1. \A j \in 1 .. L - 1 : Old(j) \in 1 .. L /\ Old(j) # k /\ Packet(j)' = Packet(Old(j))
    BY <1>4, <1>5, <1>6 DEF Packet
  <2>2. \A i \in 1 .. L : i # k => \E j \in 1 .. L - 1 : Old(j) = i
    <3> SUFFICES ASSUME NEW i \in 1 .. L, i # k PROVE \E j \in 1 .. L - 1 : Old(j) = i
      OBVIOUS
    <3>1. CASE i < k
      <4>1. i \in 1 .. L - 1 /\ Old(i) = i
        BY <3>1, <1>4
      <4>2. QED
        BY <4>1
    <3>2. CASE i > k
      <4>1. i - 1 \in 1 .. L - 1 /\ Old(i - 1) = i
        BY <3>2, <1>4
      <4>2. QED
        BY <4>1
    <3>3. QED
      BY <3>1, <3>2, <1>4
  <2>3. \A i, j \in 1 .. L - 1 : i < j <=> Old(i) < Old(j)
    BY <1>4
  <2>4. \A i \in 1 .. L : i < k => Packet(i).id # want.id
    BY <1>2, <1>4
  <2> HIDE DEF Old
  <2>5. ASSUME NEW i \in 1 .. L - 1, NEW j \in 1 .. L - 1, Follows(i, j)'
        PROVE  Packet(j)'.first = Packet(i)'.first + Packet(i)'.len
    <3>1. /\ i < j /\ Packet(Old(i)).id = Packet(Old(j)).id
          /\ \A m \in i + 1 .. j - 1 : Packet(Old(m)).id # Packet(Old(i)).id
      BY <2>1, <2>5 DEF Follows
    <3>2. ASSUME NEW m \in Old(i) + 1 .. Old(j) - 1 PROVE Packet(m).id # Packet(Old(i)).id
      <4>1. m \in 1 .. L /\ Old(i) < m /\ m < Old(j)
        BY <2>1
      <4>2. CASE m = k
        BY <4>1, <4>2, <2>1, <2>4, <1>4
      <4>3. CASE m # k
        <5>1. PICK n \in 1 .. L - 1 : Old(n) = m
          BY <4>1, <4>3, <2>2
        <5>2. n \in i + 1 .. j - 1
          BY <4>1, <5>1, <2>3
        <5>3. QED
          BY <5>1, <5>2, <3>1
      <4>4. QED
        BY <4>2, <4>3
    <3>3. Follows(Old(i), Old(j))
      BY <3>1, <3>2, <2>3 DEF Follows
    <3>4. QED
      BY <3>3, <2>1, <1>3 DEF IInv, Contiguous
  <2>6. ASSUME NEW j \in 1 .. L - 1
        PROVE  /\ FirstOfIts(j)' => Packet(j)'.first = taken'[Packet(j)'.id]
               /\ LastOfIts(j)' => Packet(j)'.first + Packet(j)'.len = arrived'[Packet(j)'.id]
               /\ Packet(j)'.first + Packet(j)'.len <= arrived'[Packet(j)'.id]
    <3> DEFINE o == Old(j)
    <3>1. /\ o \in 1 .. L /\ o # k /\ Packet(j)' = Packet(o) /\ arrived' = arrived
          /\ Packet(o).id \in Ids
      BY <2>1, <1>4, <1>6
    <3>2. /\ FirstOfIts(o) => Packet(o).first = taken[Packet(o).id]
          /\ LastOfIts(o) => Packet(o).first + Packet(o).len = arrived[Packet(o).id]
          /\ Packet(o).first + Packet(o).len <= arrived[Packet(o).id]
      BY <3>1, <1>3 DEF IInv, Contiguous
    <3>3. ASSUME FirstOfIts(j)' PROVE Packet(o).first = taken'[Packet(o).id]
      <4>1. \A m \in 1 .. o - 1 : m # k => Packet(m).id # Packet(o).id
        <5> SUFFICES ASSUME NEW m \in 1 .. o - 1, m # k PROVE Packet(m).id # Packet(o).id
          OBVIOUS
        <5>1. m \in 1 .. L
          BY <3>1
        <5>2. PICK n \in 1 .. L - 1 : Old(n) = m
          BY <5>1, <2>2
        <5>3. n \in 1 .. j - 1
          BY <5>2, <2>3, <3>1
        <5>4. QED
          BY <5>2, <5>3, <3>3, <3>1, <2>1 DEF FirstOfIts
      <4>2. CASE Packet(o).id # want.id
        <5>1. FirstOfIts(o)
          BY <4>1, <4>2, <1>4, <3>1 DEF FirstOfIts
        <5>2. QED
          BY <5>1, <4>2, <3>1, <3>2, <1>9
      <4>3. CASE Packet(o).id = want.id
        <5>1. Follows(k, o)
          BY <4>1, <4>3, <3>1, <2>4, <1>4 DEF Follows
        <5>2. Packet(o).first = Packet(k).first + Packet(k).len
          BY <5>1, <3>1, <1>3, <1>4 DEF IInv, Contiguous
        <5>3. QED
          BY <5>2, <4>3, <1>4, <1>9
      <4>4. QED
        BY <4>2, <4>3
    <3>4. ASSUME LastOfIts(j)' PROVE LastOfIts(o)
      <4> SUFFICES ASSUME NEW m \in o + 1 .. Len(list) PROVE Packet(m).id # Packet(o).id
        BY DEF LastOfIts
      <4>1. m \in 1 .. L /\ o < m
        BY <3>1, <1>3
      <4>2. CASE m = k
        BY <4>1, <4>2, <3>1, <2>4, <1>4
      <4>3. CASE m # k
        <5>1. PICK n \in 1 .. L - 1 : Old(n) = m
          BY <4>1, <4>3, <2>2
        <5>2. n \in j + 1 .. L - 1
          BY <4>1, <5>1, <2>3
        <5>3. QED
          BY <5>1, <5>2, <3>4, <3>1, <2>1, <1>5 DEF LastOfIts
      <4>4. QED
        BY <4>2, <4>3
    <3>5. QED
      BY <3>1, <3>2, <3>3, <3>4
  <2>7. ASSUME NEW i \in Ids, \A j \in 1 .. L - 1 : Packet(j)'.id # i
        PROVE  taken'[i] = arrived[i]
    <3>1. \A m \in 1 .. L : m # k => Packet(m).id # i
      BY <2>7, <2>1, <2>2
    <3>2. CASE i = want.id
      <4>1. LastOfIts(k)
        BY <3>1, <3>2, <1>3, <1>4 DEF LastOfIts
      <4>2. QED
        BY <4>1, <3>2, <1>3, <1>4, <1>9 DEF IInv, Contiguous
    <3>3. CASE i # want.id
      BY <3>1, <3>3, <1>3, <1>4, <1>9 DEF IInv, Contiguous
    <3>4. QED
      BY <3>2, <3>3
  <2>8. QED
    BY <2>5, <2>6, <2>7, <1>5, <1>6 DEF Contiguous
<1>14. QED
  BY <1>10, <1>11, <1>12, <1>13 DEF IInv

-----------------------------------------------------------------------------
(* A packet is shortened. *)

LEMMA ReturnPartInv ==
  ASSUME IInv, ReturnPart
  PROVE  IInv'
<1>1. at # Null /\ Here # Null /\ packet[Here].id = want.id
  BY DEF ReturnPart, Found
<1>a. PICK k \in 1 .. Len(list) :
        /\ at = Cell(k - 1) /\ Here = list[k] /\ Here \in Blocks
        /\ \A j \in 1 .. k - 1 : Packet(j).id # want.id
        /\ k = CHOOSE j \in DOMAIN list : list[j] = Here
  BY <1>1, HereIs
<1>2. Here = list[k] /\ Here \in Blocks /\ \A j \in 1 .. k - 1 : Packet(j).id # want.id
  BY <1>a
<1>3. PICK L \in Nat : L = Len(list)
  BY DEF IInv, TypeOK
<1>b. PICK a \in Nat : a = want.amount
  BY DEF IInv, TypeOK
<1>4. /\ list \in Seq(Blocks) /\ k \in 1 .. L
      /\ Packet(k).id = want.id
      /\ \A j \in 1 .. L : Packet(j) \in [id : Ids, first : Nat, len : Nat]
      /\ \A i \in Ids : arrived[i] \in 0 .. MaxBytes /\ taken[i] \in 0 .. MaxBytes
      /\ want.id \in Ids
  BY <1>1, <1>2, <1>3 DEF IInv, TypeOK, Packet
<1>5. /\ a < Packet(k).len
      /\ at' = Null /\ want' = want /\ arrived' = arrived
      /\ link' = link /\ end' = end /\ heap' = heap /\ list' = list
      /\ out' = IF a = 0 THEN << >> ELSE Bytes(want.id, Packet(k).first, a)
      /\ taken' = [taken EXCEPT ![want.id] = taken[want.id] + a]
      /\ packet' = [packet EXCEPT ![Here].len = @ - a, ![Here].first = @ + a]
  BY <1>1, <1>2, <1>b, <1>4, LenAssumption DEF ReturnPart, Return, Give, Packet, IInv, TypeOK
<1>6. FirstOfIts(k)
  BY <1>2, <1>4 DEF FirstOfIts
<1>7. /\ taken[want.id] = Packet(k).first
      /\ Packet(k).first + Packet(k).len <= arrived[want.id]
  BY <1>3, <1>4, <1>6 DEF IInv, Contiguous
<1>8. \A i \in Ids : taken'[i] = IF i = want.id THEN Packet(k).first + a ELSE taken[i]
  BY <1>4, <1>5, <1>7 DEF IInv, TypeOK
<1>9. /\ packet' \in [Blocks -> [id : Ids, first : Nat, len : Nat]]
      /\ \A b \in Blocks : b # Here => packet'[b] = packet[b]
      /\ packet'[Here].id = want.id
      /\ packet'[Here].len = Packet(k).len - a
      /\ packet'[Here].first = Packet(k).first + a
  <2>1. packet[Here] = Packet(k) /\ packet \in [Blocks -> [id : Ids, first : Nat, len : Nat]]
    BY <1>2 DEF Packet, IInv, TypeOK
  <2>2. Packet(k).len - a \in Nat /\ Packet(k).first + a \in Nat
    BY <1>4, <1>5, <1>b
  <2>3. PICK p \in [id : Ids, first : Nat, len : Nat] :
          p = [packet[Here] EXCEPT !.len = @ - a, !.first = @ + a]
    <3>1. PICK r \in [id : Ids, first : Nat, len : Nat] : r = packet[Here]
      BY <1>2, <2>1
    <3>2. r.len - a \in Nat /\ r.first + a \in Nat
      BY <2>1, <2>2, <3>1
    <3>3. [r EXCEPT !.len = @ - a, !.first = @ + a] \in [id : Ids, first : Nat, len : Nat]
      BY <3>2
    <3>4. QED
      BY <3>1, <3>3
  <2>4. packet' = [packet EXCEPT ![Here] = p]
    BY <1>5, <2>1, <2>3
  <2>5. p.id = want.id /\ p.len = Packet(k).len - a /\ p.first = Packet(k).first + a
    BY <1>4, <2>1, <2>3
  <2>6. Here \in Blocks
    BY <1>1, <1>2
  <2>7. QED
    BY <2>1, <2>4, <2>5, <2>6
<1>10. TypeOK'
  <2>1. taken' \in [Ids -> 0 .. MaxBytes]
    <3>1. \A i \in Ids : taken'[i] \in 0 .. MaxBytes
      BY <1>4, <1>5, <1>7, <1>8, LenAssumption
    <3>2. QED
      BY <3>1, <1>5 DEF IInv, TypeOK
  <2>2. out' \in {<< >>} \cup [id : Ids, first : Nat, len : Nat]
    BY <1>4, <1>5 DEF Bytes
  <2>3. QED
    BY <1>5, <1>9, <2>1, <2>2 DEF IInv, TypeOK
<1>11. ListSound'
  BY <1>5 DEF IInv, ListSound, Cell, Item
<1>12. WalkSound'
  BY <1>5 DEF WalkSound
<1>13. Contiguous'
  <2>1. /\ \A j \in 1 .. L : Packet(j)'.id = Packet(j).id
        /\ \A j \in 1 .. L : j # k => Packet(j)' = Packet(j)
        /\ Packet(k)'.first = Packet(k).first + a
        /\ Packet(k)'.len = Packet(k).len - a
    <3>1. \A j \in 1 .. L : list[j] \in Blocks /\ (j # k => list[j] # Here)
      BY <1>2, <1>3, <1>4 DEF IInv, ListSound
    <3>2. \A j \in 1 .. L : j # k => Packet(j)' = Packet(j)
      BY <3>1, <1>5, <1>9 DEF Packet
    <3>3. Packet(k)' = packet'[Here]
      BY <1>2, <1>5 DEF Packet
    <3>4. QED
      BY <3>2, <3>3, <1>4, <1>9
  <2>2. \A j \in 1 .. L :
          (FirstOfIts(j)' <=> FirstOfIts(j)) /\ (LastOfIts(j)' <=> LastOfIts(j))
    <3>1. Len(list') = L
      BY <1>3, <1>5
    <3>2. \A j \in 1 .. L : FirstOfIts(j)' <=> FirstOfIts(j)
      BY <2>1 DEF FirstOfIts
    <3>3. \A j \in 1 .. L : LastOfIts(j)' <=> LastOfIts(j)
      <4> SUFFICES ASSUME NEW j \in 1 .. L PROVE LastOfIts(j)' <=> LastOfIts(j)
        OBVIOUS
      <4>1. \A m \in j + 1 .. L : m \in 1 .. L
        OBVIOUS
      <4>2. QED
        BY <4>1, <3>1, <2>1, <1>3 DEF LastOfIts
    <3>4. QED
      BY <3>2, <3>3
  <2>3. \A i, j \in 1 .. L : Follows(i, j)' <=> Follows(i, j)
    BY <2>1, <1>5 DEF Follows
  <2>4. Packet(k)'.first + Packet(k)'.len = Packet(k).first + Packet(k).len
    BY <2>1, <1>4, <1>5
  <2>5. ASSUME NEW i \in 1 .. L, NEW j \in 1 .. L, Follows(i, j)'
        PROVE  Packet(j)'.first = Packet(i)'.first + Packet(i)'.len
    <3>1. Packet(j).first = Packet(i).first + Packet(i).len
      BY <2>3, <2>5, <1>3 DEF IInv, Contiguous
    <3>2. j # k
      <4>1. Follows(i, j)
        BY <2>3, <2>5
      <4>2. QED
        BY <4>1, <1>6, <1>4 DEF Follows, FirstOfIts
    <3>3. QED
      BY <3>1, <3>2, <2>1, <2>4
  <2>6. ASSUME NEW j \in 1 .. L
        PROVE  /\ FirstOfIts(j)' => Packet(j)'.first = taken'[Packet(j)'.id]
               /\ LastOfIts(j)' => Packet(j)'.first + Packet(j)'.len = arrived'[Packet(j)'.id]
               /\ Packet(j)'.first + Packet(j)'.len <= arrived'[Packet(j)'.id]
    <3>1. /\ FirstOfIts(j) => Packet(j).first = taken[Packet(j).id]
          /\ LastOfIts(j) => Packet(j).first + Packet(j).len = arrived[Packet(j).id]
          /\ Packet(j).first + Packet(j).len <= arrived[Packet(j).id]
      BY <1>3 DEF IInv, Contiguous
    <3>2. Packet(j)'.first + Packet(j)'.len = Packet(j).first + Packet(j).len
      BY <2>1, <2>4
    <3>3. ASSUME FirstOfIts(j) PROVE Packet(j)'.first = taken'[Packet(j).id]
      <4>1. CASE j = k
        BY <4>1, <2>1, <1>4, <1>8
      <4>2. CASE j # k
        <5>1. Packet(j).id # want.id
          BY <4>2, <3>3, <1>2, <1>4 DEF FirstOfIts
        <5>2. QED
          BY <5>1, <4>2, <3>1, <3>3, <2>1, <1>4, <1>8
      <4>3. QED
        BY <4>1, <4>2
    <3>4. QED
      BY <3>1, <3>2, <3>3, <2>1, <2>2, <1>5
  <2>7. ASSUME NEW i \in Ids, \A j \in 1 .. L : Packet(j)'.id # i
        PROVE  taken'[i] = arrived[i]
    <3>1. i # want.id /\ \A j \in 1 .. L : Packet(j).id # i
      BY <2>7, <2>1, <1>4
    <3>2. QED
      BY <3>1, <1>3, <1>8 DEF IInv, Contiguous
  <2>8. QED
    BY <2>5, <2>6, <2>7, <1>3, <1>5 DEF Contiguous
<1>14. QED
  BY <1>10, <1>11, <1>12, <1>13 DEF IInv

-----------------------------------------------------------------------------
(* The walk. *)

LEMMA WalkInv ==
  ASSUME IInv, Walk
  PROVE  IInv'
<1>1. /\ at # Null /\ Here # Null /\ packet[Here].id # want.id /\ at' = Here
      /\ link' = link /\ end' = end /\ packet' = packet /\ heap' = heap /\ want' = want
      /\ out' = out /\ arrived' = arrived /\ taken' = taken /\ list' = list
  BY DEF Walk
<1>a. PICK k \in 1 .. Len(list) :
        /\ at = Cell(k - 1) /\ Here = list[k] /\ Here \in Blocks
        /\ \A j \in 1 .. k - 1 : Packet(j).id # want.id
        /\ k = CHOOSE j \in DOMAIN list : list[j] = Here
  BY <1>1, HereIs
<1>2. Here = list[k] /\ Here \in Blocks /\ \A j \in 1 .. k - 1 : Packet(j).id # want.id
  BY <1>a
<1>3. TypeOK'
  BY <1>1, <1>2 DEF IInv, TypeOK, Links
<1>4. ListSound' /\ Contiguous'
  BY <1>1 DEF IInv, ListSound, Contiguous, Cell, Item, Packet, Follows, FirstOfIts, LastOfIts
<1>5. WalkSound'
  <2>1. Cell(k)' = Here /\ k \in 0 .. Len(list)
    BY <1>1, <1>2 DEF Cell, IInv, TypeOK
  <2>2. \A j \in 1 .. k : packet[list[j]].id # want.id
    BY <1>1, <1>2 DEF Packet
  <2>3. QED
    BY <2>1, <2>2, <1>1 DEF WalkSound
<1>6. QED
  BY <1>3, <1>4, <1>5 DEF IInv

LEMMA CheckQueueInv ==
  ASSUME IInv, NEW i \in Ids, NEW n \in Amounts, CheckQueue(i, n)
  PROVE  IInv'
<1>1. /\ at' = Root /\ want' = [id |-> i, amount |-> n]
      /\ link' = link /\ end' = end /\ packet' = packet /\ heap' = heap
      /\ out' = out /\ arrived' = arrived /\ taken' = taken /\ list' = list
  BY DEF CheckQueue
<1>2. TypeOK'
  BY <1>1, LenAssumption DEF IInv, TypeOK, Links
<1>3. ListSound' /\ Contiguous'
  BY <1>1 DEF IInv, ListSound, Contiguous, Cell, Item, Packet, Follows, FirstOfIts, LastOfIts
<1>4. WalkSound'
  <2>1. Cell(0)' = Root /\ 0 \in 0 .. Len(list')
    BY <1>1 DEF Cell, IInv, TypeOK
  <2>2. QED
    BY <2>1, <1>1 DEF WalkSound
<1>5. QED
  BY <1>2, <1>3, <1>4 DEF IInv

LEMMA ReturnNothingInv ==
  ASSUME IInv, ReturnNothing
  PROVE  IInv'
<1>1. /\ at' = Null /\ want' = want
      /\ link' = link /\ end' = end /\ packet' = packet /\ heap' = heap
      /\ out' = << >> /\ arrived' = arrived /\ taken' = taken /\ list' = list
  BY DEF ReturnNothing, Return
<1>2. TypeOK'
  BY <1>1 DEF IInv, TypeOK
<1>3. ListSound' /\ Contiguous'
  BY <1>1 DEF IInv, ListSound, Contiguous, Cell, Item, Packet, Follows, FirstOfIts, LastOfIts
<1>4. WalkSound'
  BY <1>1 DEF WalkSound
<1>5. QED
  BY <1>2, <1>3, <1>4 DEF IInv

LEMMA NextInv == IInv /\ [Next]_vars => IInv'
<1> SUFFICES ASSUME IInv, [Next]_vars PROVE IInv'
  OBVIOUS
<1>1. ASSUME NEW i \in Ids, NEW n \in Lens, Enqueue(i, n) PROVE IInv'
  BY <1>1, EnqueueInv
<1>2. ASSUME NEW i \in Ids, NEW n \in Amounts, CheckQueue(i, n) PROVE IInv'
  BY <1>2, CheckQueueInv
<1>3. CASE Walk
  BY <1>3, WalkInv
<1>4. CASE ReturnNothing
  BY <1>4, ReturnNothingInv
<1>5. CASE ReturnPacket
  BY <1>5, ReturnPacketInv
<1>6. CASE ReturnPart
  BY <1>6, ReturnPartInv
<1>7. CASE UNCHANGED vars
  <2>1. /\ link' = link /\ end' = end /\ packet' = packet /\ heap' = heap /\ at' = at
        /\ want' = want /\ out' = out /\ arrived' = arrived /\ taken' = taken /\ list' = list
    BY <1>7 DEF vars
  <2>2. QED
    BY <2>1 DEF IInv, TypeOK, ListSound, WalkSound, Contiguous, Cell, Item, Packet,
                Follows, FirstOfIts, LastOfIts
<1>8. QED
  BY <1>1, <1>2, <1>3, <1>4, <1>5, <1>6, <1>7 DEF Next

LEMMA Invariance == Spec => []IInv
BY InitInv, NextInv, PTL DEF Spec

-----------------------------------------------------------------------------
(* Theorems. *)

\* Every variable keeps its type, `len -= amount` does not wrap, and no link is
\* read that does not exist.
THEOREM PacketTyping == Spec => []TypeOK
<1>1. IInv => TypeOK
  BY DEF IInv
<1>2. QED
  BY <1>1, Invariance, PTL

\* The list always consists of the allocated blocks, and _packets_end is its
\* last link.
THEOREM PacketsSound == Spec => []ListSound
<1>1. IInv => ListSound
  BY DEF IInv
<1>2. QED
  BY <1>1, Invariance, PTL

\* _check_queue() returns of the packets of a socket the oldest, and finds it.
THEOREM PacketsOldest == Spec => []WalkSound
<1>1. IInv => WalkSound
  BY DEF IInv
<1>2. QED
  BY <1>1, Invariance, PTL

\* The packets of each socket always hold its stream without gap or overlap.
THEOREM PacketsContiguous == Spec => []Contiguous
<1>1. IInv => Contiguous
  BY DEF IInv
<1>2. QED
  BY <1>1, Invariance, PTL

\* What the step of the list that returns n bytes is to the pipe.
LEMMA GiveTakes ==
  ASSUME IInv, Found, NEW n \in 0 .. packet[Here].len, Give(packet[Here], n), arrived' = arrived
  PROVE  \E i \in Ids, m \in 0 .. MaxBytes : Pipes!Take(i, m)
<1>1. at # Null /\ Here # Null /\ packet[Here].id = want.id
  BY DEF Found
<1>2. PICK k \in 1 .. Len(list) :
        /\ at = Cell(k - 1) /\ Here = list[k] /\ Here \in Blocks
        /\ \A j \in 1 .. k - 1 : Packet(j).id # want.id
        /\ k = CHOOSE j \in DOMAIN list : list[j] = Here
  BY <1>1, HereIs
<1>3. /\ Packet(k) = packet[Here] /\ \A j \in 1 .. k - 1 : Packet(j).id # want.id
      /\ want.id \in Ids /\ packet[Here] \in [id : Ids, first : Nat, len : Nat]
  BY <1>2 DEF Packet, IInv, TypeOK
<1>4. FirstOfIts(k)
  BY <1>1, <1>3 DEF FirstOfIts
<1>5. /\ packet[Here].first = taken[want.id]
      /\ packet[Here].first + packet[Here].len <= arrived[want.id]
  BY <1>1, <1>3, <1>4 DEF IInv, Contiguous
<1>6. arrived[want.id] \in 0 .. MaxBytes /\ taken[want.id] \in 0 .. MaxBytes
  BY <1>3 DEF IInv, TypeOK
<1>7. n \in 0 .. MaxBytes /\ taken[want.id] + n <= arrived[want.id]
  BY <1>3, <1>5, <1>6, LenAssumption
<1>8. Pipes!Take(want.id, n)
  BY <1>1, <1>5, <1>7 DEF Pipes!Take, Pipes!Bytes, Give, Bytes
<1>9. QED
  BY <1>3, <1>7, <1>8

\* A walk that comes to the end of the list has seen all packets, none of them
\* of its socket.
LEMMA WalkedAll ==
  ASSUME IInv, at # Null, Here = Null
  PROVE  \A j \in 1 .. Len(list) : Packet(j).id # want.id
<1>1. PICK k \in 0 .. Len(list) : at = Cell(k) /\ \A j \in 1 .. k : packet[list[j]].id # want.id
  BY DEF IInv, WalkSound
<1>2. link[Cell(k)] = Item(k + 1)
  BY DEF IInv, ListSound
<1>0. list \in Seq(Blocks) /\ Len(list) \in Nat
  BY DEF IInv, TypeOK
<1>3. \A j \in 1 .. Len(list) : list[j] # Null
  BY <1>0, LinkAssumption
<1>4. k = Len(list)
  <2>1. Item(k + 1) = Null
    BY <1>1, <1>2 DEF Here
  <2>2. CASE k < Len(list)
    <3>1. k + 1 \in 1 .. Len(list)
      BY <1>0, <2>2
    <3>2. QED
      BY <1>0, <1>3, <2>1, <3>1 DEF Item
  <2>3. QED
    BY <1>0, <2>2
<1>5. QED
  BY <1>1, <1>4 DEF Packet

\* Then everything that arrived for the socket has been taken.
LEMMA NothingLeft ==
  ASSUME IInv, at # Null, Here = Null
  PROVE  taken[want.id] = arrived[want.id]
<1>1. want.id \in Ids
  BY DEF IInv, TypeOK
<1>2. QED
  BY <1>1, WalkedAll DEF IInv, Contiguous

\* The linked list implements a pipe of bytes for each socket: nothing that has
\* been enqueued is lost, repeated, reordered or given to another socket.
THEOREM PacketsPipe == Spec => PipeSpec
<1>1. Init => Pipes!Init
  BY DEF Init, Pipes!Init
<1>2. IInv /\ [Next]_vars => [Pipes!Next]_<<arrived, taken, out>>
  <2> SUFFICES ASSUME IInv, [Next]_vars
               PROVE  Pipes!Next \/ (arrived' = arrived /\ taken' = taken /\ out' = out)
    OBVIOUS
  <2>1. ASSUME NEW i \in Ids, NEW n \in Lens, Enqueue(i, n) PROVE Pipes!Next
    <3>1. arrived[i] \in 0 .. MaxBytes /\ n \in Nat /\ arrived[i] + n <= MaxBytes
      BY <2>1, LenAssumption DEF IInv, TypeOK, Enqueue
    <3>2. n \in 0 .. MaxBytes
      BY <3>1, LenAssumption
    <3>3. Pipes!Put(i, n)
      BY <2>1 DEF Enqueue, Pipes!Put
    <3>4. QED
      BY <3>2, <3>3 DEF Pipes!Next
  <2>2. ASSUME NEW i \in Ids, NEW n \in Amounts, CheckQueue(i, n)
        PROVE  arrived' = arrived /\ taken' = taken /\ out' = out
    BY <2>2 DEF CheckQueue
  <2>3. CASE Walk
    BY <2>3 DEF Walk
  <2>4. CASE ReturnNothing
    <3>1. want.id \in Ids /\ arrived[want.id] \in 0 .. MaxBytes /\ taken[want.id] \in 0 .. MaxBytes
      BY DEF IInv, TypeOK
    <3>2. PICK i \in Ids : i = want.id
      BY <3>1
    <3>3. taken[i] <= arrived[i] => Pipes!Take(i, 0)
      BY <2>4, <3>1, <3>2, LenAssumption DEF ReturnNothing, Return, Pipes!Take, IInv, TypeOK
    <3>4. taken[i] = arrived[i]
      BY <2>4, <3>2, NothingLeft DEF ReturnNothing
    <3>5. QED
      BY <3>1, <3>2, <3>3, <3>4, LenAssumption DEF Pipes!Next
  <2>5. CASE ReturnPacket
    <3>1. packet[Here].len \in 0 .. packet[Here].len
      BY <2>5, HereIs DEF ReturnPacket, Found, IInv, TypeOK
    <3>2. QED
      BY <2>5, <3>1, GiveTakes DEF ReturnPacket, Return, Pipes!Next
  <2>6. CASE ReturnPart
    <3>1. want.amount \in 0 .. packet[Here].len
      BY <2>6, HereIs DEF ReturnPart, Found, IInv, TypeOK
    <3>2. QED
      BY <2>6, <3>1, GiveTakes DEF ReturnPart, Return, Pipes!Next
  <2>7. CASE UNCHANGED vars
    BY <2>7 DEF vars
  <2>8. QED
    BY <2>1, <2>2, <2>3, <2>4, <2>5, <2>6, <2>7 DEF Next
<1>3. QED
  BY <1>1, <1>2, Invariance, PTL DEF Spec, PipeSpec, Pipes!Spec

-----------------------------------------------------------------------------
(* The sequence that the list implements. *)

Sequence == [k \in 1 .. Len(list) |-> Packet(k)]

\* A walk is part of a call of _check_queue().
Asked == at # Null => want.amount \in Amounts

LEMMA AskedAlways == Spec => []Asked
<1>1. Init => Asked
  BY DEF Init, Asked
<1>2. Asked /\ [Next]_vars => Asked'
  BY DEF Asked, Next, vars, Enqueue, CheckQueue, Walk, ReturnNothing, ReturnPacket, ReturnPart, Return
<1>3. QED
  BY <1>1, <1>2, PTL DEF Spec

\* The sequence has the packets of the list, each at its place.
LEMMA SequenceIs ==
  ASSUME IInv
  PROVE  /\ Sequence \in Seq([id : Ids, first : Nat, len : Nat])
         /\ Len(Sequence) = Len(list)
         /\ \A k \in 1 .. Len(list) : Sequence[k] = Packet(k)
<1>1. list \in Seq(Blocks) /\ Len(list) \in Nat
  BY DEF IInv, TypeOK
<1>2. \A k \in 1 .. Len(list) : Packet(k) \in [id : Ids, first : Nat, len : Nat]
  <2>1. \A k \in 1 .. Len(list) : list[k] \in Blocks
    BY <1>1
  <2>2. packet \in [Blocks -> [id : Ids, first : Nat, len : Nat]]
    BY DEF IInv, TypeOK
  <2>3. QED
    BY <2>1, <2>2 DEF Packet
<1>3. QED
  BY <1>1, <1>2 DEF Sequence

\* A sequence with this length and these elements is that sequence.
LEMMA SameSequence ==
  ASSUME NEW S, NEW s \in Seq(S), NEW t \in Seq(S), Len(s) = Len(t),
         \A k \in 1 .. Len(s) : s[k] = t[k]
  PROVE  s = t
OBVIOUS

\* What _check_queue() finds is the oldest packet of its socket in the sequence.
LEMMA FoundIsOldest ==
  ASSUME IInv, Found
  PROVE  \E k \in 1 .. Len(Sequence) :
           /\ Sequence[k].id = want.id /\ \A j \in 1 .. k - 1 : Sequence[j].id # want.id
           /\ Sequence[k] = packet[Here] /\ Here = list[k] /\ Here \in Blocks
           /\ k = CHOOSE j \in DOMAIN list : list[j] = Here
<1>1. at # Null /\ Here # Null /\ packet[Here].id = want.id
  BY DEF Found
<1>2. PICK k \in 1 .. Len(list) :
        /\ at = Cell(k - 1) /\ Here = list[k] /\ Here \in Blocks
        /\ \A j \in 1 .. k - 1 : Packet(j).id # want.id
        /\ k = CHOOSE j \in DOMAIN list : list[j] = Here
  BY <1>1, HereIs
<1>0. Len(list) \in Nat
  BY DEF IInv, TypeOK
<1>3. \A j \in 1 .. k - 1 : Sequence[j].id # want.id
  <2>0. \A j \in 1 .. k - 1 : j \in 1 .. Len(list)
    BY <1>0
  <2>1. \A j \in 1 .. k - 1 : Sequence[j] = Packet(j)
    BY <2>0, SequenceIs
  <2>2. QED
    BY <1>2, <2>1
<1>4. k \in 1 .. Len(Sequence) /\ Sequence[k] = packet[Here]
  BY <1>2, SequenceIs DEF Packet
<1>5. QED
  BY <1>1, <1>2, <1>3, <1>4

\* A new packet goes to the end, and its block is none of the list.
LEMMA EnqueueAppends ==
  ASSUME IInv, IInv', NEW i \in Ids, NEW n \in Lens, Enqueue(i, n)
  PROVE  Sequence' = Append(Sequence, Bytes(i, arrived[i], n))
<1> DEFINE p == Bytes(i, arrived[i], n)
<1>0. list \in Seq(Blocks) /\ Len(list) \in Nat
  BY DEF IInv, TypeOK
<1>1. PICK b \in Blocks \ heap :
        packet' = [packet EXCEPT ![b] = Bytes(i, arrived[i], n)] /\ list' = Append(list, b)
  BY DEF Enqueue
<1>2. arrived[i] \in Nat /\ n \in Nat /\ p \in [id : Ids, first : Nat, len : Nat]
  BY LenAssumption DEF IInv, TypeOK, Bytes
<1>3. Len(list') = Len(list) + 1 /\ list'[Len(list) + 1] = b
      /\ \A k \in 1 .. Len(list) : list'[k] = list[k]
  BY <1>0, <1>1
<1>4. \A k \in 1 .. Len(list) : list[k] # b
  BY <1>1 DEF IInv, ListSound
<1>5. \A k \in 1 .. Len(list) : packet'[list'[k]] = packet[list[k]]
  <2> SUFFICES ASSUME NEW k \in 1 .. Len(list) PROVE packet'[list'[k]] = packet[list[k]]
    OBVIOUS
  <2>1. list'[k] = list[k] /\ list[k] # b
    BY <1>3, <1>4
  <2>2. list[k] \in Blocks
    BY <1>0
  <2>3. packet \in [Blocks -> [id : Ids, first : Nat, len : Nat]]
    BY DEF IInv, TypeOK
  <2>4. QED
    BY <1>1, <2>1, <2>2, <2>3
<1>6. packet'[list'[Len(list) + 1]] = p
  BY <1>1, <1>3 DEF IInv, TypeOK
<1>7. /\ Sequence' \in Seq([id : Ids, first : Nat, len : Nat]) /\ Len(Sequence') = Len(list')
      /\ \A k \in 1 .. Len(list') : Sequence'[k] = packet'[list'[k]]
  <2>1. Sequence' = [k \in 1 .. Len(list') |-> packet'[list'[k]]]
    BY DEF Sequence, Packet
  <2>2. /\ list' \in Seq(Blocks) /\ Len(list') \in Nat
        /\ packet' \in [Blocks -> [id : Ids, first : Nat, len : Nat]]
    <3>1. IInv'
      OBVIOUS
    <3>2. list' \in Seq(Blocks) /\ packet' \in [Blocks -> [id : Ids, first : Nat, len : Nat]]
      BY <3>1 DEF IInv, TypeOK
    <3>3. QED
      BY <3>2
  <2>3. \A k \in 1 .. Len(list') : packet'[list'[k]] \in [id : Ids, first : Nat, len : Nat]
    <3>1. \A k \in 1 .. Len(list') : list'[k] \in Blocks
      BY <2>2
    <3>2. QED
      BY <2>2, <3>1
  <2>4. QED
    BY <2>1, <2>2, <2>3
<1>8. /\ Append(Sequence, p) \in Seq([id : Ids, first : Nat, len : Nat])
      /\ Len(Append(Sequence, p)) = Len(list) + 1
      /\ Append(Sequence, p)[Len(list) + 1] = p
      /\ \A k \in 1 .. Len(list) : Append(Sequence, p)[k] = Packet(k)
  <2> HIDE DEF p
  <2>1. \A k \in 1 .. Len(list) : k \in 1 .. Len(Sequence)
    BY SequenceIs
  <2>2. QED
    BY <1>0, <1>2, <2>1, SequenceIs
<1>9. \A k \in 1 .. Len(list) + 1 : k \in 1 .. Len(list) \/ k = Len(list) + 1
  BY <1>0
<1>10. \A k \in 1 .. Len(Sequence') : Sequence'[k] = Append(Sequence, p)[k]
  <2> HIDE DEF p
  <2>1. \A k \in 1 .. Len(list) : Sequence'[k] = Append(Sequence, p)[k]
    <3> SUFFICES ASSUME NEW k \in 1 .. Len(list)
                 PROVE  Sequence'[k] = Append(Sequence, p)[k]
      OBVIOUS
    <3>1. k \in 1 .. Len(list')
      BY <1>0, <1>3
    <3>2. Sequence'[k] = packet[list[k]]
      BY <1>5, <1>7, <3>1
    <3>3. Append(Sequence, p)[k] = packet[list[k]]
      BY <1>8 DEF Packet
    <3>4. QED
      BY <3>2, <3>3
  <2>2. Sequence'[Len(list) + 1] = Append(Sequence, p)[Len(list) + 1]
    BY <1>0, <1>3, <1>6, <1>7, <1>8
  <2>3. Len(Sequence') = Len(list) + 1
    BY <1>3, <1>7
  <2>4. QED
    BY <2>1, <2>2, <2>3, <1>9
<1>11. QED
  <2> HIDE DEF p
  <2>1. Sequence' = Append(Sequence, p)
    BY <1>3, <1>7, <1>8, <1>10, SameSequence
  <2>2. QED
    BY <2>1 DEF p

\* The packet that is returned whole is cut out of the sequence.
LEMMA ReturnPacketTakes ==
  ASSUME IInv, ReturnPacket
  PROVE  Queue!TakeWhole(want.id, want.amount)
<1>1. /\ Found /\ packet[Here].len <= want.amount
      /\ out' = IF packet[Here].len = 0 THEN << >>
                ELSE Bytes(packet[Here].id, packet[Here].first, packet[Here].len)
      /\ list' = RemoveAt(list, CHOOSE j \in DOMAIN list : list[j] = Here)
      /\ packet' = packet
  BY DEF ReturnPacket, Give
<1>2. PICK k \in 1 .. Len(Sequence) :
        /\ Sequence[k].id = want.id /\ \A j \in 1 .. k - 1 : Sequence[j].id # want.id
        /\ Sequence[k] = packet[Here] /\ Here = list[k] /\ Here \in Blocks
        /\ k = CHOOSE j \in DOMAIN list : list[j] = Here
  BY <1>1, FoundIsOldest
<1>a. k \in 1 .. Len(list)
  BY SequenceIs
<1>b. list \in Seq(Blocks) /\ Len(list) \in Nat /\ packet \in [Blocks -> [id : Ids, first : Nat, len : Nat]]
  BY DEF IInv, TypeOK
<1>3. /\ list \in Seq(Blocks) /\ Len(list) \in Nat /\ k \in 1 .. Len(list)
      /\ Sequence[k] \in [id : Ids, first : Nat, len : Nat]
  BY <1>2, <1>a, <1>b
<1>4. out' = Queue!Out(Sequence[k], Sequence[k].len)
  BY <1>1, <1>2, <1>3 DEF Queue!Out, Bytes
<1>5. /\ Len(list') = Len(list) - 1
      /\ \A j \in 1 .. Len(list) - 1 : list'[j] = IF j < k THEN list[j] ELSE list[j + 1]
  <2>1. list' = RemoveAt(list, k)
    BY <1>1, <1>2
  <2>2. QED
    BY <2>1, <1>3, RemoveAtIs
<1>6. Sequence' = RemoveAt(Sequence, k)
  <2>1. /\ RemoveAt(Sequence, k) \in Seq([id : Ids, first : Nat, len : Nat])
        /\ Len(RemoveAt(Sequence, k)) = Len(list) - 1
        /\ \A j \in 1 .. Len(list) - 1 :
             RemoveAt(Sequence, k)[j] = IF j < k THEN Sequence[j] ELSE Sequence[j + 1]
    BY <1>2, SequenceIs, RemoveAtIs
  <2>2. Sequence' = [j \in 1 .. Len(list) - 1 |-> packet[list'[j]]]
    <3>1. Sequence' = [j \in 1 .. Len(list') |-> packet'[list'[j]]]
      BY DEF Sequence, Packet
    <3>2. Len(list') = Len(list) - 1 /\ packet' = packet
      BY <1>1, <1>5
    <3>3. QED
      BY <3>1, <3>2
  <2>3. ASSUME NEW j \in 1 .. Len(list) - 1
        PROVE  packet[list'[j]] = RemoveAt(Sequence, k)[j] /\ packet[list'[j]] \in [id : Ids, first : Nat, len : Nat]
    <3>1. j \in 1 .. Len(list) /\ j + 1 \in 1 .. Len(list)
      BY <1>3
    <3>2. Sequence[j] = packet[list[j]] /\ Sequence[j + 1] = packet[list[j + 1]]
      BY <3>1, SequenceIs DEF Packet
    <3>3. packet[list'[j]] = IF j < k THEN Sequence[j] ELSE Sequence[j + 1]
      BY <1>5, <3>2
    <3>4. list[j] \in Blocks /\ list[j + 1] \in Blocks
      BY <1>3, <3>1
    <3>5. packet[list'[j]] \in [id : Ids, first : Nat, len : Nat]
      BY <1>5, <3>4 DEF IInv, TypeOK
    <3>6. QED
      BY <2>1, <3>3, <3>5
  <2>4. Len(list) - 1 \in Nat
    BY <1>3
  <2>5. /\ Sequence' \in Seq([id : Ids, first : Nat, len : Nat])
        /\ Len(Sequence') = Len(list) - 1
        /\ \A j \in 1 .. Len(list) - 1 : Sequence'[j] = RemoveAt(Sequence, k)[j]
    BY <2>2, <2>3, <2>4
  <2>6. QED
    BY <2>1, <2>5, SameSequence
<1>7. Queue!Oldest(k, want.id) /\ Sequence[k].len <= want.amount
  BY <1>1, <1>2 DEF Queue!Oldest, Sequence
<1>8. Queue!RemoveAt(Sequence, k) = RemoveAt(Sequence, k)
  BY DEF Queue!RemoveAt, RemoveAt
<1>9. QED
  BY <1>4, <1>6, <1>7, <1>8 DEF Queue!TakeWhole, Sequence

\* The packet that is returned in part keeps its place, and the rest of its bytes.
LEMMA ReturnPartTakes ==
  ASSUME IInv, ReturnPart
  PROVE  Queue!TakePart(want.id, want.amount)
<1> DEFINE n == want.amount
<1>1. /\ Found /\ packet[Here].len > n
      /\ out' = IF n = 0 THEN << >> ELSE Bytes(packet[Here].id, packet[Here].first, n)
      /\ packet' = [packet EXCEPT ![Here].len = @ - n, ![Here].first = @ + n]
      /\ list' = list
  BY DEF ReturnPart, Give
<1>2. PICK k \in 1 .. Len(Sequence) :
        /\ Sequence[k].id = want.id /\ \A j \in 1 .. k - 1 : Sequence[j].id # want.id
        /\ Sequence[k] = packet[Here] /\ Here = list[k] /\ Here \in Blocks
        /\ k = CHOOSE j \in DOMAIN list : list[j] = Here
  BY <1>1, FoundIsOldest
<1>a. k \in 1 .. Len(list)
  BY SequenceIs
<1>b. list \in Seq(Blocks) /\ Len(list) \in Nat
      /\ packet \in [Blocks -> [id : Ids, first : Nat, len : Nat]] /\ n \in Nat
  BY DEF IInv, TypeOK
<1>c. \A i, j \in 1 .. Len(list) : list[i] = list[j] => i = j
  BY DEF IInv, ListSound
<1>3. /\ list \in Seq(Blocks) /\ Len(list) \in Nat /\ k \in 1 .. Len(list)
      /\ packet \in [Blocks -> [id : Ids, first : Nat, len : Nat]] /\ n \in Nat
      /\ \A i, j \in 1 .. Len(list) : list[i] = list[j] => i = j
  BY <1>a, <1>b, <1>c
<1>4. out' = Queue!Out(Sequence[k], n)
  <2>1. packet[Here] \in [id : Ids, first : Nat, len : Nat]
    BY <1>2, <1>3
  <2>2. [packet[Here] EXCEPT !.len = n] = Bytes(packet[Here].id, packet[Here].first, n)
    BY <2>1 DEF Bytes
  <2>3. QED
    BY <1>1, <1>2, <2>2 DEF Queue!Out
<1>5. Sequence' = [Sequence EXCEPT ![k].first = @ + n, ![k].len = @ - n]
  <2> DEFINE new == [Sequence EXCEPT ![k].first = @ + n, ![k].len = @ - n]
             rest == [packet[Here] EXCEPT !.len = @ - n, !.first = @ + n]
  <2>1. Sequence = [j \in 1 .. Len(list) |-> packet[list[j]]]
    BY DEF Sequence, Packet
  <2>2. Sequence' = [j \in 1 .. Len(list) |-> packet'[list[j]]]
    BY <1>1 DEF Sequence, Packet
  <2>3. new = [j \in 1 .. Len(list) |-> IF j = k THEN rest ELSE packet[list[j]]]
    BY <1>2, <1>3, <2>1
  <2>4. ASSUME NEW j \in 1 .. Len(list)
        PROVE  packet'[list[j]] = IF j = k THEN rest ELSE packet[list[j]]
    <3>1. list[j] \in Blocks
      BY <1>3
    <3>2. CASE j = k
      <4>1. list[j] = Here
        BY <1>2, <3>2
      <4>2. QED
        BY <1>1, <1>2, <1>3, <3>2, <4>1
    <3>3. CASE j # k
      <4>1. list[j] # Here
        BY <1>2, <1>3, <3>3
      <4>2. QED
        BY <1>1, <1>2, <1>3, <3>1, <3>3, <4>1
    <3>4. QED
      BY <3>2, <3>3
  <2>5. QED
    BY <2>2, <2>3, <2>4
<1>6. Queue!Oldest(k, want.id) /\ Sequence[k].len > n
  BY <1>1, <1>2 DEF Queue!Oldest, Sequence
<1>7. QED
  BY <1>2, <1>4, <1>5, <1>6 DEF Queue!TakePart, Sequence

\* At the end of the list there is no packet of the socket in the sequence.
LEMMA ReturnNothingTakes ==
  ASSUME IInv, ReturnNothing
  PROVE  Queue!TakeNothing(want.id)
<1>1. at # Null /\ Here = Null /\ out' = << >> /\ list' = list /\ packet' = packet
  BY DEF ReturnNothing
<1>2. \A j \in 1 .. Len(list) : Packet(j).id # want.id
  BY <1>1, WalkedAll
<1>3. \A j \in 1 .. Len(Sequence) : Sequence[j].id # want.id
  BY <1>2, SequenceIs
<1>4. Sequence' = Sequence
  BY <1>1 DEF Sequence, Packet
<1>5. QED
  BY <1>1, <1>3, <1>4 DEF Queue!TakeNothing, Sequence

\* The linked list implements a sequence of packets: _enqueue() appends one, and
\* _check_queue() takes the oldest of its socket, or as much of it as fits, in
\* one step, whatever links it walks along and whichever blocks are used again.
\* That is how Recv keeps the packets of the parser.
THEOREM PacketsQueue == Spec => QueueSpec
<1>1. Init => Queue!Init
  <2> SUFFICES ASSUME Init PROVE Queue!Init
    OBVIOUS
  <2>1. Len(list) = 0 /\ out = << >>
    BY DEF Init
  <2>2. Sequence = << >>
    BY <2>1 DEF Sequence
  <2>3. QED
    BY <2>1, <2>2 DEF Queue!Init, Sequence
<1>2. IInv /\ IInv' /\ Asked /\ [Next]_vars => [Queue!Next]_<<Sequence, out>>
  <2> SUFFICES ASSUME IInv, IInv', Asked, [Next]_vars
               PROVE  Queue!Next \/ (Sequence' = Sequence /\ out' = out)
    BY Zenon
  <2>0. want.id \in Ids
    BY DEF IInv, TypeOK
  <2>1. ASSUME NEW i \in Ids, NEW n \in Lens, Enqueue(i, n) PROVE Queue!Next
    <3>1. Bytes(i, arrived[i], n) \in [id : Ids, first : 0 .. MaxBytes, len : Lens]
      BY DEF Bytes, IInv, TypeOK
    <3>2. Queue!Enqueue(Bytes(i, arrived[i], n))
      <4>1. Sequence' = Append(Sequence, Bytes(i, arrived[i], n))
        BY <2>1, EnqueueAppends
      <4>2. out' = out
        BY <2>1 DEF Enqueue
      <4>3. QED
        BY <4>1, <4>2 DEF Queue!Enqueue, Sequence
    <3>3. QED
      BY <3>1, <3>2 DEF Queue!Next
  <2>2. ASSUME NEW i \in Ids, NEW n \in Amounts, CheckQueue(i, n)
        PROVE  Sequence' = Sequence /\ out' = out
    BY <2>2 DEF CheckQueue, Sequence, Packet
  <2>3. CASE Walk
    BY <2>3 DEF Walk, Sequence, Packet
  <2>4. CASE ReturnNothing
    <3>1. want.amount \in Amounts
      BY <2>4 DEF ReturnNothing, Asked
    <3>2. QED
      BY <2>0, <2>4, <3>1, ReturnNothingTakes DEF Queue!Next
  <2>5. CASE ReturnPacket
    <3>1. want.amount \in Amounts
      BY <2>5 DEF ReturnPacket, Found, Asked
    <3>2. QED
      BY <2>0, <2>5, <3>1, ReturnPacketTakes DEF Queue!Next
  <2>6. CASE ReturnPart
    <3>1. want.amount \in Amounts
      BY <2>6 DEF ReturnPart, Found, Asked
    <3>2. QED
      BY <2>0, <2>6, <3>1, ReturnPartTakes DEF Queue!Next
  <2>7. CASE UNCHANGED vars
    BY <2>7 DEF vars, Sequence, Packet
  <2>8. QED
    BY <2>1, <2>2, <2>3, <2>4, <2>5, <2>6, <2>7 DEF Next
<1>3. QED
  BY <1>1, <1>2, Invariance, AskedAlways, PTL DEF Spec, QueueSpec, Queue!Spec, Sequence

=============================================================================
