---------------------------- MODULE QueriesProofs ----------------------------
(***************************************************************************)
(* Theorems about Queries, for any number of tries, lines and commands     *)
(* under way: a call that begins on a quiet line reads the answers of its  *)
(* own commands, believes nothing else, and writes through no null pointer *)
(* as long as the modem is there.                                          *)
(***************************************************************************)
EXTENDS Queries, TLAPS

(* The calls, and which commands are theirs. *)
LEMMA Scripts ==
  ASSUME NEW o \in Ops
  PROVE  /\ Len(Script[o]) \in 1 .. 6
         /\ o = "date" => Len(Script[o]) = 6
         /\ o # "date" => Len(Script[o]) \in 1 .. 2
         /\ \A n \in 1 .. Len(Script[o]) :
              /\ Script[o][n] \in Cmds
              /\ Script[o][n] \in ScanOnly => o \in {"imei", "iccid", "battery"} /\ n = Len(Script[o])
              /\ Script[o][n] = "CCLK" => o = "location"
              /\ Script[o][n] = "CGCONTRDP" <=> o = "ip"
              /\ Script[o][n] = "DNSRESVDON" <=> o = "host"
  <1>1. CASE o = "alive"
    BY <1>1 DEF Script, Cmds, Valued, ScanOnly
  <1>5. CASE o = "gprs"
    BY <1>5 DEF Script, Cmds, Valued, ScanOnly
  <1>4. CASE o \in {"imei", "iccid", "battery"}
    BY <1>4 DEF Script, Cmds, Valued, ScanOnly
  <1>2. CASE o = "location"
    BY <1>2 DEF Script, Cmds, Valued, ScanOnly
  <1>6. CASE o \in {"ip", "host", "down"}
    BY <1>6 DEF Script, Cmds, Valued, ScanOnly
  <1>3. CASE o = "date"
    BY <1>3 DEF Script, Cmds, Valued, ScanOnly
  <1>. QED BY <1>1, <1>2, <1>3, <1>4, <1>5, <1>6 DEF Ops, Script
-----------------------------------------------------------------------------
(* How far an exchange has come, in a call that has begun on a quiet line and  *)
(* has not had a fault.                                                        *)

Ok == Line("OK", 0)

\* What is still to be read, whether it has arrived or not.
Due == lines \o wire

\* The command is on its way.
Waiting ==
  /\ cmds = << [kind |-> Cmd, own |-> TRUE] >> /\ Due = << >>
  /\ pc = FirstRead

\* The modem has obeyed it, and its answer is being read.
Answered ==
  /\ cmds = << >> /\ k \in obeyed
  /\ \/ pc \in {"rx", "line"} /\ Due = << Ok >>
     \/ pc \in {"scan", "line"} /\ \E v \in {0, 1} : Due = << Line(Cmd, v), Ok >>

Refused == cmds = << >> /\ pc = FirstRead /\ Due = << Line("ERROR", 0) >>

\* There is nothing to come: the modem is off, or has refused to tell the time.
Silent == cmds = << >> /\ Due = << >> /\ (on => pc = "rx" /\ Cmd = "CCLK")

Turn ==
  /\ ~stale
  /\ pc = "idle" /\ ~Leaver => cmds = << >> /\ Due = << >>
  /\ pc = "tx" => cmds = << >> /\ wire = << >>
  /\ pc \in {"scan", "line", "rx"} => Waiting \/ Answered \/ Refused \/ Silent
  /\ pc = "wild" => ~on

\* The commands that the modem has obeyed by then.
Way ==
  /\ pc # "idle" /\ op # "date" /\ ~Leaver => 1 .. k - 1 \subseteq obeyed
  /\ pc # "idle" /\ op = "date" /\ (k >= 5 => good) => 1 .. k - 1 \subseteq obeyed
  /\ pc = "idle" /\ ret /\ ~Leaver => obeyed = 1 .. Len(Script[op])

\* The reads are those of the command.
Reads ==
  /\ pc \in {"scan", "line"} => pc = FirstRead
  /\ obeyed \subseteq 1 .. Len(Script[op])

IInv == TypeOK /\ Reads /\ (clean => Turn /\ Way)

-----------------------------------------------------------------------------
(* Lines and commands. *)

LineType == [kind : LineKinds, v : {0, 1}, own : BOOLEAN]
CmdType == [kind : Cmds, own : BOOLEAN]

LEMMA AgedLines ==
  ASSUME NEW s \in Seq(LineType)
  PROVE  Aged(s) \in Seq(LineType)
  <1>1. \A x \in LineType : [x EXCEPT !.own = FALSE] \in LineType
    BY DEF LineType
  <1>. QED BY <1>1 DEF Aged

LEMMA AgedCmds ==
  ASSUME NEW s \in Seq(CmdType)
  PROVE  Aged(s) \in Seq(CmdType) /\ Len(Aged(s)) = Len(s)
  <1>1. \A x \in CmdType : [x EXCEPT !.own = FALSE] \in CmdType
    BY DEF CmdType
  <1>. QED BY <1>1 DEF Aged

LEMMA Said ==
  ASSUME NEW a \in LineType, NEW b \in LineType, NEW o \in BOOLEAN
  PROVE  LET Own(s) == [i \in DOMAIN s |-> [s[i] EXCEPT !.own = o]]
         IN /\ Own(<< a >>) = << [a EXCEPT !.own = o] >>
            /\ Own(<< a, b >>) = << [a EXCEPT !.own = o], [b EXCEPT !.own = o] >>
            /\ [a EXCEPT !.own = o] \in LineType
  BY DEF LineType

LEMMA Pop ==
  ASSUME NEW S, NEW s \in Seq(S), s # << >>
  PROVE  Head(s) \in S /\ Tail(s) \in Seq(S) /\ Len(Tail(s)) = Len(s) - 1
  OBVIOUS

LEMMA SayTypes ==
  ASSUME NEW a \in LineType, NEW b \in LineType, NEW o \in BOOLEAN, wire \in Seq(LineType),
         Say(<< a >>, o) \/ Say(<< a, b >>, o)
  PROVE  wire' \in Seq(LineType)
  <1>1. [a EXCEPT !.own = o] \in LineType /\ [b EXCEPT !.own = o] \in LineType BY Said
  <1>2. \/ wire' = wire \o << [a EXCEPT !.own = o] >>
        \/ wire' = wire \o << [a EXCEPT !.own = o], [b EXCEPT !.own = o] >>
    BY Said DEF Say
  <1>3. \A x, y \in LineType : wire \o << x >> \in Seq(LineType) /\ wire \o << x, y >> \in Seq(LineType)
    <2>. TAKE x, y \in LineType
    <2>. << x >> \in Seq(LineType) /\ << x, y >> \in Seq(LineType) OBVIOUS
    <2>. QED OBVIOUS
  <1>. QED BY <1>1, <1>2, <1>3, Zenon

LEMMA LineTypes ==
  /\ \A v \in {0, 1}, c \in Valued : Line(c, v) \in LineType
  /\ Line("OK", 0) \in LineType /\ Line("ERROR", 0) \in LineType /\ Line("other", 0) \in LineType
  BY DEF Line, LineType, LineKinds

(* What comes of the end of an exchange. *)
LEMMA OverTypes ==
  ASSUME TypeOK, NEW ok \in BOOLEAN, Over(ok)
  PROVE  /\ op' = op /\ k' \in 1 .. Len(Script[op]) /\ pc' \in {"idle", "tx"}
         /\ tries' \in 0 .. NetworkTries - 1 /\ good' \in BOOLEAN /\ val' \in {-1, 0, 1}
         /\ ret' \in BOOLEAN
  <1>1. /\ op \in Ops /\ Len(Script[op]) \in 1 .. 6 /\ (op = "date" => Len(Script[op]) = 6)
        /\ k \in 1 .. Len(Script[op]) /\ 0 \in 0 .. NetworkTries - 1 /\ tries \in 0 .. NetworkTries - 1
        /\ good \in BOOLEAN /\ ret \in BOOLEAN
    BY Scripts, BoundAssumption DEF TypeOK
  <1>2. ASSUME NEW b \in BOOLEAN, Return(b)
        PROVE  /\ op' = op /\ k' \in 1 .. Len(Script[op]) /\ pc' \in {"idle", "tx"}
               /\ tries' \in 0 .. NetworkTries - 1 /\ good' \in BOOLEAN /\ val' \in {-1, 0, 1}
               /\ ret' \in BOOLEAN
    <2>1. k' = 1 /\ tries' = 0 /\ good' = TRUE /\ val' = -1 /\ ret' = b /\ op' = op /\ pc' = "idle"
      BY <1>2, Zenon DEF Return
    <2>. QED BY <1>1, <2>1
  <1>3. CASE op # "date"
    <2>1. Done(ok) BY <1>3 DEF Over
    <2>2. CASE ok /\ k < Len(Script[op])
      BY <1>1, <2>1, <2>2 DEF Done, Exchange
    <2>3. CASE ~(ok /\ k < Len(Script[op]))
      <3>1. Return(ok /\ Answer) /\ (ok /\ Answer) \in BOOLEAN BY <2>1, <2>3 DEF Done
      <3>. QED BY <1>2, <3>1
    <2>. QED BY <2>2, <2>3
  <1>4. CASE op = "date"
    <2>1. DateDone(ok) BY <1>4 DEF Over
    <2>2. CASE k = 6 /\ Return(good /\ ok)
      <3>1. (good /\ ok) \in BOOLEAN BY <1>1
      <3>. QED BY <1>2, <2>2, <3>1
    <2>3. CASE k # 6
      <3>1. PICK n \in 1 .. 6 : Exchange(n)
        BY <1>1, <2>1, <2>3 DEF DateDone
      <3>2. good' \in BOOLEAN
        BY <1>1, <2>1, <2>3, Zenon DEF DateDone
      <3>3. tries' \in 0 .. NetworkTries - 1
        BY <1>1, <2>1, <2>3, BoundAssumption DEF DateDone, MoreTries, Again
      <3>. QED BY <1>1, <1>4, <3>1, <3>2, <3>3 DEF Exchange
    <2>4. k = 6 => Return(good /\ ok) BY <1>1, <2>1 DEF DateDone
    <2>. QED BY <2>2, <2>3, <2>4
  <1>. QED BY <1>3, <1>4

\* What a read leaves, of whatever it does with the line.
LEMMA ReadTypes ==
  ASSUME TypeOK, ReadLine \/ Timeout
  PROVE  /\ lines' \in Seq(LineType) /\ stale' \in BOOLEAN /\ clean' \in BOOLEAN
         /\ UNCHANGED <<cmds, wire, on, obeyed, notes>>
  <1>1. lines \in Seq(LineType) /\ stale \in BOOLEAN /\ clean \in BOOLEAN
    BY DEF TypeOK, LineType
  <1>2. lines # << >> => Tail(lines) \in Seq(LineType) BY <1>1
  <1>3. CASE ReadLine BY <1>1, <1>2, <1>3 DEF ReadLine, modem
  <1>4. CASE Timeout BY <1>1, <1>2, <1>4 DEF Timeout, modem
  <1>. QED BY <1>3, <1>4

Reading == ScanMatch \/ ScanMismatch \/ ScanTimeout \/ RxMatch \/ RxMismatch \/ RxTimeout
           \/ ClockMatch \/ ClockTimeout \/ IpMatch \/ IpTimeout \/ HostAddress \/ HostEnd \/ HostOther

LEMMA ReadingTypes ==
  ASSUME TypeOK, Reads, Reading
  PROVE  /\ op' = op /\ k' \in 1 .. Len(Script[op])
         /\ pc' \in {"idle", "tx", "rx", "line", "wild"} /\ (pc' = "line" => pc = "line" /\ k' = k)
         /\ tries' \in 0 .. NetworkTries - 1 /\ good' \in BOOLEAN /\ val' \in {-1, 0, 1}
         /\ ret' \in BOOLEAN
         /\ ReadLine \/ Timeout
  <1>. DEFINE Next1 ==
         /\ op' = op /\ k' \in 1 .. Len(Script[op])
         /\ pc' \in {"idle", "tx", "rx", "line", "wild"} /\ (pc' = "line" => pc = "line" /\ k' = k)
         /\ tries' \in 0 .. NetworkTries - 1 /\ good' \in BOOLEAN /\ val' \in {-1, 0, 1}
         /\ ret' \in BOOLEAN
  <1>1. /\ op \in Ops /\ k \in 1 .. Len(Script[op]) /\ 0 \in 0 .. NetworkTries - 1
        /\ tries \in 0 .. NetworkTries - 1 /\ good \in BOOLEAN /\ ret \in BOOLEAN /\ val \in {-1, 0, 1}
        /\ 1 \in 1 .. Len(Script[op])
    BY Scripts, BoundAssumption DEF TypeOK
  <1>2. ASSUME NEW b \in BOOLEAN, Return(b) PROVE Next1
    <2>1. k' = 1 /\ tries' = 0 /\ good' = TRUE /\ val' = -1 /\ ret' = b /\ op' = op /\ pc' = "idle"
      BY <1>2, Zenon DEF Return
    <2>. QED BY <1>1, <2>1
  <1>3. ASSUME NEW b \in BOOLEAN, Over(b) PROVE Next1
    BY <1>3, OverTypes
  <1>4. ASSUME NEW part \in {"rx", "line", "wild"}, Expect(part), part = "line" => pc = "line" PROVE Next1
    <2>1. pc' = part /\ op' = op /\ k' = k /\ tries' = tries /\ good' = good /\ val' = val /\ ret' = ret
      BY <1>4, Zenon DEF Expect
    <2>. QED BY <1>1, <1>4, <2>1
  <1>5. ASSUME NEW b \in BOOLEAN, RxOver(b) PROVE Next1
    <2>1. \/ Return(TRUE) \/ Return(FALSE) \/ Over(b) \/ \E some \in BOOLEAN : Return(some)
      BY <1>5, Zenon DEF RxOver, Caller
    <2>. QED BY <1>2, <1>3, <1>5, <2>1
  <1>6. CASE ScanMatch
    <2>1. ReadLine /\ lines # << >> /\ Judged.v \in {0, 1}
      <3>1. ReadLine /\ lines # << >> BY <1>6 DEF ScanMatch, ReadLine
      <3>2. lines \in Seq(LineType) BY DEF TypeOK, LineType
      <3>3. Judged \in LineType BY <3>1, <3>2, Pop DEF Judged
      <3>. QED BY <3>1, <3>3 DEF LineType
    <2>2. CASE Over(TRUE) BY <1>3, <2>1, <2>2
    <2>3. CASE pc' = "rx" /\ val' = Judged.v /\ UNCHANGED <<op, k, tries, good, ret>>
      BY <1>1, <2>1, <2>3
    <2>. QED BY <1>6, <2>2, <2>3, Zenon DEF ScanMatch
  <1>7. CASE ScanMismatch \/ ScanTimeout
    <2>1. (ReadLine \/ Timeout) /\ (Over(TRUE) \/ Over(FALSE) \/ Expect("rx"))
      BY <1>7, Zenon DEF ScanMismatch, ScanTimeout
    <2>. QED BY <1>3, <1>4, <2>1
  <1>8. CASE RxMatch \/ RxMismatch \/ RxTimeout
    <2>1. (ReadLine \/ Timeout) /\ (RxOver(TRUE) \/ RxOver(FALSE))
      BY <1>8, Zenon DEF RxMatch, RxMismatch, RxTimeout
    <2>. QED BY <1>5, <2>1
  <1>9. CASE ClockMatch \/ ClockTimeout \/ HostEnd
    <2>1. (ReadLine \/ Timeout) /\ \E b \in BOOLEAN : Return(b)
      BY <1>9 DEF ClockMatch, ClockTimeout, Caller, HostEnd
    <2>. QED BY <1>2, <2>1
  <1>10. CASE IpMatch \/ IpTimeout \/ HostAddress \/ HostOther
    <2>1. ReadLine \/ Timeout
      BY <1>10, Zenon DEF IpMatch, IpTimeout, HostAddress, HostOther
    <2>2. Return(FALSE) \/ Expect("rx") \/ Expect("wild") \/ (pc = "line" /\ Expect("line"))
      BY <1>10, Zenon DEF IpMatch, IpTimeout, HostAddress, HostOther
    <2>. QED BY <1>2, <1>4, <2>1, <2>2
  <1>. QED BY <1>6, <1>7, <1>8, <1>9, <1>10 DEF Reading

LEMMA FirstOf == ASSUME NEW n \in 1 .. 6 PROVE 1 \in 1 .. n
OBVIOUS

LEMMA TypeStep == TypeOK /\ Reads /\ [Next]_vars => TypeOK' /\ Reads'
  <1>. SUFFICES ASSUME TypeOK, Reads, [Next]_vars PROVE TypeOK' /\ Reads' OBVIOUS
  <1>0. /\ op \in Ops /\ k \in 1 .. Len(Script[op]) /\ Len(Script[op]) \in 1 .. 6
        /\ wire \in Seq(LineType) /\ lines \in Seq(LineType) /\ cmds \in Seq(CmdType)
        /\ << >> \in Seq(LineType)
    BY Scripts DEF TypeOK, LineType, CmdType
  <1>1. ASSUME NEW query \in Ops, Call(query) PROVE TypeOK' /\ Reads'
    <2>0. Len(Script[query]) \in 1 .. 6 BY Scripts, Zenon
    <2>1. Len(Script[query]) \in 1 .. 6 /\ 1 \in 1 .. Len(Script[query])
      BY <2>0, FirstOf, Zenon
    <2>2. clean' \in BOOLEAN /\ stale' \in BOOLEAN /\ obeyed' = {}
      BY <1>1 DEF Call, UnderWay
    <2>. QED BY <1>1, <2>1, <2>2 DEF Call, TypeOK, Reads
  <1>2. CASE Tx
    <2>1. Aged(wire) \in Seq(LineType) /\ Aged(cmds) \in Seq(CmdType) /\ Len(Aged(cmds)) = Len(cmds)
      BY <1>0, AgedLines, AgedCmds
    <2>2. Cmd \in Cmds /\ [kind |-> Cmd, own |-> TRUE] \in CmdType
      BY <1>0, Scripts DEF Cmd, CmdType
    <2>3. cmds' \in Seq(CmdType) /\ Len(cmds') <= MaxCmds
      <3>1. Len(cmds) \in Nat /\ Len(cmds) <= MaxCmds BY <1>0 DEF TypeOK, LineType, CmdType
      <3>2. CASE Len(cmds) < MaxCmds
        BY <1>0, <1>2, <2>1, <2>2, <3>1, <3>2, BoundAssumption DEF Tx
      <3>3. CASE ~(Len(cmds) < MaxCmds)
        BY <1>0, <1>2, <2>1, <3>1, <3>3, BoundAssumption DEF Tx
      <3>. QED BY <3>2, <3>3
    <2>4. pc' = FirstRead /\ FirstRead \in {"scan", "rx", "line"} BY <1>2 DEF Tx, FirstRead
    <2>5. wire' \in Seq(LineType) /\ lines' \in Seq(LineType)
      BY <1>0, <1>2, <2>1 DEF Tx, Cleared
    <2>6. /\ UNCHANGED <<op, k, tries, good, val, ret, stale, clean>>
          /\ UNCHANGED <<on, obeyed, notes>>
      BY <1>2 DEF Tx, modem
    <2>7. Reads' BY <2>4, <2>6 DEF Reads, FirstRead, Cmd
    <2>. QED BY <2>3, <2>4, <2>5, <2>6, <2>7 DEF TypeOK, LineType, CmdType
  <1>3. CASE Reading
    <2>1. ReadLine \/ Timeout BY <1>3, ReadingTypes
    <2>2. /\ lines' \in Seq(LineType) /\ stale' \in BOOLEAN /\ clean' \in BOOLEAN
          /\ UNCHANGED <<cmds, wire, on, obeyed, notes>>
      BY <2>1, ReadTypes
    <2>3. /\ op' = op /\ k' \in 1 .. Len(Script[op])
          /\ pc' \in {"idle", "tx", "rx", "line", "wild"} /\ (pc' = "line" => pc = "line" /\ k' = k)
          /\ tries' \in 0 .. NetworkTries - 1 /\ good' \in BOOLEAN /\ val' \in {-1, 0, 1}
          /\ ret' \in BOOLEAN
      BY <1>3, ReadingTypes
    <2>4. Reads' BY <2>2, <2>3 DEF Reads, FirstRead, Cmd
    <2>. QED BY <2>2, <2>3, <2>4 DEF TypeOK, LineType, CmdType
  <1>4. CASE Obey
    <2>1. /\ cmds # << >> /\ cmds' = Tail(cmds) /\ cmds' \in Seq(CmdType) /\ Len(cmds') <= MaxCmds
          /\ Head(cmds) \in CmdType
      <3>1. cmds # << >> /\ cmds' = Tail(cmds) /\ Len(cmds) <= MaxCmds BY <1>4 DEF Obey, TypeOK
      <3>. QED BY <1>0, <3>1, BoundAssumption, Pop
    <2>2. UNCHANGED <<op, pc, k, tries, good, val, ret, stale, lines, clean, notes>>
      BY <1>4 DEF Obey, driver
    <2>3. CASE ~on
      <3>1. UNCHANGED <<wire, on, obeyed>> BY <1>4, <2>3 DEF Obey
      <3>. QED BY <2>1, <2>2, <3>1 DEF TypeOK, LineType, CmdType, Reads, FirstRead, Cmd
    <2>4. CASE on
      <3>1. PICK v \in {0, 1} :
              Say(IF Head(cmds).kind \in Valued THEN <<Line(Head(cmds).kind, v), Line("OK", 0)>>
                  ELSE <<Line("OK", 0)>>, Head(cmds).own)
        BY <1>4, <2>4 DEF Obey, Varied
      <3>2. wire' \in Seq(LineType)
        <4>1. Head(cmds).own \in BOOLEAN BY <2>1 DEF CmdType
        <4>2. CASE Head(cmds).kind \in Valued
          <5>1. Line(Head(cmds).kind, v) \in LineType /\ Line("OK", 0) \in LineType
            BY <4>2, LineTypes
          <5>. QED BY <1>0, <3>1, <4>1, <4>2, <5>1, SayTypes
        <4>3. CASE Head(cmds).kind \notin Valued
          <5>1. Line("OK", 0) \in LineType BY LineTypes
          <5>. QED BY <1>0, <3>1, <4>1, <4>3, <5>1, SayTypes
        <4>. QED BY <4>2, <4>3
      <3>3. on' \in BOOLEAN /\ (obeyed' = obeyed \/ obeyed' = obeyed \cup {k})
        BY <1>4, <2>4 DEF Obey
      <3>4. obeyed' \subseteq 1 .. 6 /\ obeyed' \subseteq 1 .. Len(Script[op])
        <4>1. obeyed \subseteq 1 .. 6 /\ obeyed \subseteq 1 .. Len(Script[op]) BY DEF TypeOK, Reads
        <4>2. k \in 1 .. 6 /\ k \in 1 .. Len(Script[op])
          <5>1. \A m \in 1 .. 6 : \A n \in 1 .. m : n \in 1 .. 6 OBVIOUS
          <5>. QED BY <1>0, <5>1, Zenon
        <4>. QED BY <3>3, <4>1, <4>2, Zenon
      <3>5. TypeOK' BY <1>0, <2>1, <2>2, <3>2, <3>3, <3>4 DEF TypeOK, LineType, CmdType
      <3>. QED BY <2>2, <3>4, <3>5 DEF Reads, FirstRead, Cmd
    <2>. QED BY <2>3, <2>4
  <1>5. CASE Refuse \/ Lose
    <2>1. /\ cmds # << >> /\ cmds' = Tail(cmds) /\ cmds' \in Seq(CmdType) /\ Len(cmds') <= MaxCmds
          /\ Head(cmds) \in CmdType
      <3>1. cmds # << >> /\ cmds' = Tail(cmds) /\ Len(cmds) <= MaxCmds
        BY <1>5 DEF Refuse, Lose, TypeOK
      <3>. QED BY <1>0, <3>1, BoundAssumption, Pop
    <2>2. /\ UNCHANGED <<op, pc, k, tries, good, val, ret, stale, lines, on, obeyed, notes>>
          /\ clean' \in BOOLEAN
      BY <1>5 DEF Refuse, Lose, driver, modem, TypeOK
    <2>3. wire' \in Seq(LineType)
      <3>1. Line("ERROR", 0) \in LineType BY LineTypes
      <3>2. Head(cmds).own \in BOOLEAN BY <2>1 DEF CmdType
      <3>. QED BY <1>0, <1>5, <3>1, <3>2, SayTypes DEF Refuse, Lose
    <2>. QED BY <2>1, <2>2, <2>3 DEF TypeOK, LineType, CmdType, Reads, FirstRead, Cmd
  <1>6. CASE Notify
    <2>1. wire' \in Seq(LineType)
      <3>1. Line("other", 0) \in LineType BY LineTypes
      <3>. QED BY <1>0, <1>6, <3>1, SayTypes DEF Notify
    <2>2. /\ UNCHANGED <<op, pc, k, tries, good, val, ret, stale, cmds, lines, on, obeyed>>
          /\ clean' \in BOOLEAN
      BY <1>6 DEF Notify, driver
    <2>3. notes' \in 0 .. MaxNotes BY <1>6, BoundAssumption DEF Notify, TypeOK
    <2>. QED BY <2>1, <2>2, <2>3 DEF TypeOK, LineType, CmdType, Reads, FirstRead, Cmd
  <1>7. CASE SwitchOn
    BY <1>7 DEF SwitchOn, driver, TypeOK, Reads, FirstRead, Cmd
  <1>8. CASE Deliver
    <2>1. lines' \in Seq(LineType) /\ wire' \in Seq(LineType)
      <3>1. wire # << >> /\ wire' = Tail(wire) /\ lines' = Append(lines, Head(wire))
        BY <1>8 DEF Deliver
      <3>. QED BY <1>0, <3>1, Pop
    <2>2. UNCHANGED <<op, pc, k, tries, good, val, ret, stale, cmds, on, obeyed, notes, clean>>
      BY <1>8 DEF Deliver, driver, modem
    <2>. QED BY <2>1, <2>2 DEF TypeOK, LineType, CmdType, Reads, FirstRead, Cmd
  <1>9. CASE UNCHANGED vars
    BY <1>9 DEF vars, driver, modem, TypeOK, Reads, FirstRead, Cmd
  <1>. QED
    BY <1>1, <1>2, <1>3, <1>4, <1>5, <1>6, <1>7, <1>8, <1>9, Zenon DEF Next, Parser, Reading

-----------------------------------------------------------------------------
(* What is due. *)

LEMMA DueEmpty ==
  ASSUME NEW S, NEW r \in Seq(S), NEW w \in Seq(S)
  PROVE  r \o w = << >> <=> r = << >> /\ w = << >>
  <1>1. Len(r \o w) = Len(r) + Len(w) OBVIOUS
  <1>2. \A s \in Seq(S) : s = << >> <=> Len(s) = 0 OBVIOUS
  <1>3. r \o w \in Seq(S) /\ Len(r) \in Nat /\ Len(w) \in Nat OBVIOUS
  <1>. QED BY <1>1, <1>2, <1>3

LEMMA DueRead ==
  ASSUME NEW S, NEW r \in Seq(S), NEW w \in Seq(S), r # << >>
  PROVE  Head(r \o w) = Head(r) /\ Tail(r) \o w = Tail(r \o w)
  <1>1. Len(r) \in Nat /\ Len(r) > 0 /\ Len(w) \in Nat OBVIOUS
  <1>2. r \o w \in Seq(S) /\ Len(r \o w) = Len(r) + Len(w) OBVIOUS
  <1>3. Tail(r) \in Seq(S) /\ Len(Tail(r)) = Len(r) - 1 OBVIOUS
  <1>4. Tail(r) \o w \in Seq(S) /\ Len(Tail(r) \o w) = Len(r) - 1 + Len(w) BY <1>1, <1>3
  <1>5. Tail(r \o w) \in Seq(S) /\ Len(Tail(r \o w)) = Len(r) + Len(w) - 1 BY <1>1, <1>2
  <1>6. ASSUME NEW i \in 1 .. Len(r) - 1 + Len(w)
        PROVE  (Tail(r) \o w)[i] = Tail(r \o w)[i]
    <2>1. Tail(r \o w)[i] = (r \o w)[i + 1] BY <1>1, <1>2
    <2>2. CASE i <= Len(r) - 1
      BY <1>1, <1>3, <2>1, <2>2
    <2>3. CASE i > Len(r) - 1
      <3>1. (Tail(r) \o w)[i] = w[i - (Len(r) - 1)] BY <1>1, <1>3, <2>3
      <3>2. (r \o w)[i + 1] = w[i + 1 - Len(r)] BY <1>1, <2>3
      <3>. QED BY <1>1, <2>1, <3>1, <3>2
    <2>. QED BY <1>1, <2>2, <2>3
  <1>7. Tail(r) \o w = Tail(r \o w) BY <1>1, <1>4, <1>5, <1>6
  <1>8. Head(r \o w) = Head(r) BY <1>1, <1>2
  <1>. QED BY <1>7, <1>8

LEMMA DueDeliver ==
  ASSUME NEW S, NEW r \in Seq(S), NEW w \in Seq(S), w # << >>
  PROVE  Append(r, Head(w)) \o Tail(w) = r \o w
  <1>1. Len(r) \in Nat /\ Len(w) \in Nat /\ Len(w) > 0 OBVIOUS
  <1>2. Head(w) \in S /\ Tail(w) \in Seq(S) /\ Len(Tail(w)) = Len(w) - 1 OBVIOUS
  <1>3. Append(r, Head(w)) \in Seq(S) /\ Len(Append(r, Head(w))) = Len(r) + 1 BY <1>2
  <1>4. /\ Append(r, Head(w)) \o Tail(w) \in Seq(S) /\ r \o w \in Seq(S)
        /\ Len(Append(r, Head(w)) \o Tail(w)) = Len(r) + Len(w) /\ Len(r \o w) = Len(r) + Len(w)
    BY <1>1, <1>2, <1>3
  <1>5. ASSUME NEW i \in 1 .. Len(r) + Len(w)
        PROVE  (Append(r, Head(w)) \o Tail(w))[i] = (r \o w)[i]
    <2>1. CASE i <= Len(r) BY <1>1, <1>2, <1>3, <2>1
    <2>2. CASE i = Len(r) + 1 BY <1>1, <1>2, <1>3, <2>2
    <2>3. CASE i > Len(r) + 1
      <3>1. (Append(r, Head(w)) \o Tail(w))[i] = Tail(w)[i - (Len(r) + 1)] BY <1>1, <1>2, <1>3, <2>3
      <3>2. Tail(w)[i - (Len(r) + 1)] = w[i - Len(r)] BY <1>1, <2>3
      <3>. QED BY <1>1, <2>3, <3>1, <3>2
    <2>. QED BY <1>1, <2>1, <2>2, <2>3
  <1>. QED BY <1>1, <1>4, <1>5

(* A line that is read answers the command, and is the next one. *)
LEMMA Read ==
  ASSUME TypeOK, Turn, pc \in {"scan", "line", "rx"}, ReadLine
  PROVE  /\ cmds' = << >> /\ wire' = wire /\ lines' \in Seq(LineType) /\ ~stale'
         /\ \/ pc \in {"rx", "line"} /\ Judged = Ok /\ Due' = << >> /\ k \in obeyed
            \/ /\ pc \in {"scan", "line"} /\ (\E v \in {0, 1} : Judged = Line(Cmd, v))
               /\ Due' = << Ok >> /\ k \in obeyed
            \/ pc = FirstRead /\ Judged = Line("ERROR", 0) /\ Due' = << >>
  <1>1. lines \in Seq(LineType) /\ wire \in Seq(LineType) BY DEF TypeOK, LineType
  <1>2. /\ lines # << >> /\ lines' = Tail(lines) /\ stale' = (stale \/ ~Judged.own)
        /\ cmds' = cmds /\ wire' = wire
    BY DEF ReadLine
  <1>3. Due # << >> /\ Judged = Head(Due) /\ Due' = Tail(Due) /\ lines' \in Seq(LineType)
    BY <1>1, <1>2, DueEmpty, DueRead, Pop DEF Due, Judged
  <1>4. Answered \/ Refused BY <1>3 DEF Turn, Waiting, Silent
  <1>5. cmds = << >> /\ ~stale BY <1>4 DEF Answered, Refused, Turn
  <1>6. \A a, b : Head(<< a >>) = a /\ Tail(<< a >>) = << >> /\ Head(<< a, b >>) = a /\ Tail(<< a, b >>) = << b >>
    OBVIOUS
  <1>7. \/ pc \in {"rx", "line"} /\ Judged = Ok /\ Due' = << >> /\ k \in obeyed
        \/ /\ pc \in {"scan", "line"} /\ (\E v \in {0, 1} : Judged = Line(Cmd, v))
           /\ Due' = << Ok >> /\ k \in obeyed
        \/ pc = FirstRead /\ Judged = Line("ERROR", 0) /\ Due' = << >>
    <2>1. CASE pc \in {"rx", "line"} /\ Due = << Ok >> /\ k \in obeyed
      BY <1>3, <1>6, <2>1
    <2>2. CASE pc \in {"scan", "line"} /\ k \in obeyed /\ \E v \in {0, 1} : Due = << Line(Cmd, v), Ok >>
      BY <1>3, <1>6, <2>2
    <2>3. CASE pc = FirstRead /\ Due = << Line("ERROR", 0) >>
      BY <1>3, <1>6, <2>3
    <2>. QED BY <1>4, <2>1, <2>2, <2>3 DEF Answered, Refused
  <1>8. Judged.own BY <1>7 DEF Line, Ok
  <1>. QED BY <1>2, <1>3, <1>5, <1>7, <1>8

(* A read whose time is up without a fault has nothing to wait for. *)
LEMMA Late ==
  ASSUME TypeOK, clean => Turn, pc \in {"scan", "line", "rx"}, Timeout, clean'
  PROVE  /\ clean /\ cmds = << >> /\ Due = << >> /\ cmds' = << >> /\ lines' = << >> /\ wire' = << >>
         /\ ~stale' /\ on' = on
         /\ on => pc = "rx" /\ Cmd = "CCLK"
  <1>1. lines \in Seq(LineType) /\ wire \in Seq(LineType) BY DEF TypeOK, LineType
  <1>2. clean /\ lines = << >> /\ lines' = << >> /\ ~UnderWay /\ UNCHANGED <<cmds, wire, on, stale>>
    BY DEF Timeout, modem
  <1>3. cmds = << >> /\ wire = << >> BY <1>2 DEF UnderWay
  <1>4. Due = << >> BY <1>2, <1>3 DEF Due
  <1>5. Silent BY <1>2, <1>3, <1>4 DEF Turn, Waiting, Answered, Refused
  <1>. QED BY <1>2, <1>3, <1>4, <1>5 DEF Silent, Turn

-----------------------------------------------------------------------------
(* The end of an exchange, and of a call. *)

Rest == cmds = << >> /\ lines = << >> /\ wire = << >> /\ ~stale

LEMMA AtRest ==
  ASSUME Rest', pc' \in {"idle", "tx"}
  PROVE  Turn'
  <1>1. << >> \o << >> = << >> OBVIOUS
  <1>. QED BY <1>1 DEF Turn, Rest, Due

LEMMA ReadRest ==
  ASSUME TypeOK, lines' \in Seq(LineType), wire' = wire, cmds' = << >>, Due' = << >>, ~stale'
  PROVE  Rest'
  <1>1. wire \in Seq(LineType) BY DEF TypeOK, LineType
  <1>. QED BY <1>1, DueEmpty DEF Rest, Due

LEMMA CmdIs ==
  ASSUME TypeOK
  PROVE  /\ op \in Ops /\ k \in 1 .. Len(Script[op]) /\ Len(Script[op]) \in 1 .. 6
         /\ op = "date" => Len(Script[op]) = 6
         /\ Cmd \in Cmds
         /\ Cmd \in ScanOnly => op \in {"imei", "iccid", "battery"} /\ k = Len(Script[op])
         /\ Cmd = "CCLK" => op = "location"
         /\ Cmd = "CGCONTRDP" <=> op = "ip"
         /\ Cmd = "DNSRESVDON" <=> op = "host"
  BY Scripts DEF TypeOK, Cmd

LEMMA OverWay ==
  ASSUME TypeOK, Reads, Way, pc # "idle", NEW ok \in BOOLEAN, Over(ok), obeyed' = obeyed,
         ok /\ ~Leaver => k \in obeyed
  PROVE  Way'
  <1>1. /\ k \in 1 .. Len(Script[op]) /\ Len(Script[op]) \in 1 .. 6 /\ op' = op
        /\ (op = "date" => Len(Script[op]) = 6) /\ (Leaver' <=> Leaver)
        /\ obeyed \subseteq 1 .. Len(Script[op])
    BY CmdIs, OverTypes DEF Leaver, Reads
  <1>2. CASE op # "date"
    <2>1. Done(ok) BY <1>2 DEF Over
    <2>2. ok /\ ~Leaver => 1 .. k \subseteq obeyed
      <3>1. ~Leaver => 1 .. k - 1 \subseteq obeyed BY <1>2 DEF Way
      <3>. QED BY <1>1, <3>1
    <2>3. CASE ok /\ k < Len(Script[op])
      <3>1. pc' = "tx" /\ k' = k + 1 BY <2>1, <2>3 DEF Done, Exchange
      <3>2. k' - 1 = k BY <1>1, <3>1
      <3>. QED BY <1>1, <1>2, <2>2, <2>3, <3>1, <3>2 DEF Way
    <2>4. CASE ~(ok /\ k < Len(Script[op]))
      <3>1. pc' = "idle" /\ (ret' => ok) BY <2>1, <2>4 DEF Done, Return
      <3>2. ok => k = Len(Script[op]) BY <1>1, <2>4
      <3>. QED BY <1>1, <1>2, <2>2, <3>1, <3>2 DEF Way
    <2>. QED BY <2>3, <2>4
  <1>3. CASE op = "date"
    <2>1. DateDone(ok) /\ ~Leaver BY <1>3 DEF Over, Leaver
    <2>2. k \in 1 .. 6 /\ ((k >= 5 => good) => 1 .. k - 1 \subseteq obeyed) BY <1>1, <1>3 DEF Way
    <2>3. ok /\ (k >= 5 => good) => 1 .. k \subseteq obeyed BY <1>1, <2>1, <2>2
    <2>4. CASE k < 4 /\ ok /\ Exchange(k + 1)
      <3>1. pc' = "tx" /\ k' = k + 1 /\ k' - 1 = k BY <2>2, <2>4 DEF Exchange
      <3>. QED BY <1>1, <1>3, <2>2, <2>3, <2>4, <3>1 DEF Way
    <2>5. CASE (k = 4 \/ (k < 4 /\ ~ok)) /\ Exchange(5) /\ good' = ok
      <3>1. pc' = "tx" /\ k' = 5 BY <2>5 DEF Exchange
      <3>2. ok => k = 4 /\ 1 .. 4 \subseteq obeyed BY <2>2, <2>3, <2>5
      <3>. QED BY <1>1, <1>3, <2>5, <3>1, <3>2 DEF Way
    <2>6. CASE k = 5 /\ Exchange(6) /\ (good' => good /\ ok)
      <3>1. pc' = "tx" /\ k' = 6 BY <2>6 DEF Exchange
      <3>2. good' => 1 .. 5 \subseteq obeyed BY <2>2, <2>3, <2>6
      <3>. QED BY <1>1, <1>3, <3>1, <3>2 DEF Way
    <2>7. CASE k = 5 /\ Exchange(5) /\ good' = good
      <3>1. pc' = "tx" /\ k' = 5 BY <2>7 DEF Exchange
      <3>. QED BY <1>1, <1>3, <2>2, <2>7, <3>1 DEF Way
    <2>8. CASE k = 6 /\ Return(good /\ ok)
      <3>1. pc' = "idle" /\ (ret' => good /\ ok) BY <2>8 DEF Return
      <3>. QED BY <1>1, <1>3, <2>3, <2>8, <3>1 DEF Way
    <2>. QED BY <2>1, <2>4, <2>5, <2>6, <2>7, <2>8 DEF DateDone
  <1>. QED BY <1>2, <1>3

LEMMA ReturnWay ==
  ASSUME TypeOK, NEW b \in BOOLEAN, Return(b), obeyed' = obeyed,
         b /\ ~Leaver => obeyed = 1 .. Len(Script[op])
  PROVE  Way' /\ pc' = "idle" /\ op' = op
  BY DEF Return, Way, Leaver

(* The call goes on to read. *)
LEMMA ExpectWay ==
  ASSUME Way, pc # "idle", pc' # "idle", UNCHANGED <<op, k, good, obeyed>>
  PROVE  Way'
  BY DEF Way, Leaver

LEMMA LeaverTurn ==
  ASSUME pc' = "idle", op' = op, Leaver, ~stale'
  PROVE  Turn'
  BY DEF Turn, Leaver

-----------------------------------------------------------------------------
(* The steps. *)

LEMMA ReadingStep ==
  ASSUME IInv, Reading, clean'
  PROVE  Turn' /\ Way'
  <1>0. /\ TypeOK /\ Reads /\ pc \in {"scan", "line", "rx"} /\ op \in Ops
        /\ ReadLine \/ Timeout
        /\ obeyed' = obeyed
    <2>1. TypeOK /\ Reads BY DEF IInv
    <2>2. pc \in {"scan", "line", "rx"}
      BY DEF Reading, ScanMatch, ScanMismatch, ScanTimeout, RxMatch, RxMismatch, RxTimeout, ClockMatch,
             ClockTimeout, IpMatch, IpTimeout, HostAddress, HostEnd, HostOther
    <2>. QED BY <2>1, <2>2, ReadingTypes, ReadTypes DEF TypeOK
  <1>1. clean
    <2>1. CASE ReadLine BY <2>1 DEF ReadLine
    <2>2. CASE Timeout BY <2>2 DEF Timeout
    <2>. QED BY <1>0, <2>1, <2>2
  <1>2. Turn /\ Way BY <1>1 DEF IInv
  <1>3. /\ Cmd \in ScanOnly => Leaver /\ op # "date" /\ k = Len(Script[op])
        /\ Cmd = "CCLK" => Leaver
        /\ (Cmd = "CGCONTRDP" <=> op = "ip") /\ (op = "ip" => Leaver)
        /\ (Cmd = "DNSRESVDON" <=> op = "host") /\ (op = "host" => Len(Script[op]) = 1 /\ k = 1)
        /\ (pc = "scan" => Cmd \in Valued /\ Cmd # "DNSRESVDON") /\ (pc = "line" => Cmd = "DNSRESVDON")
        /\ (pc = "rx" /\ FirstRead = "rx" => Cmd \notin Valued)
    <2>1. op = "host" => Len(Script[op]) = 1 BY DEF Script
    <2>2. k \in 1 .. Len(Script[op]) BY <1>0, CmdIs
    <2>3. (pc = "scan" => Cmd \in Valued /\ Cmd # "DNSRESVDON") /\ (pc = "line" => Cmd = "DNSRESVDON")
      BY <1>0 DEF Reads, FirstRead
    <2>4. op = "host" => k = 1
      <3>1. \A n \in 1 .. 1 : n = 1 OBVIOUS
      <3>. QED BY <2>1, <2>2, <3>1, Zenon
    <2>5. /\ Cmd \in ScanOnly => op \in {"imei", "iccid", "battery"} /\ k = Len(Script[op])
          /\ Cmd = "CCLK" => op = "location"
          /\ (Cmd = "CGCONTRDP" <=> op = "ip") /\ (Cmd = "DNSRESVDON" <=> op = "host")
      BY <1>0, CmdIs
    <2>6. pc = "rx" /\ FirstRead = "rx" => Cmd \notin Valued BY DEF FirstRead
    <2>7. op \in {"imei", "iccid", "battery", "location", "ip"} => Leaver BY DEF Leaver
    <2>8. op \in {"imei", "iccid", "battery"} => op # "date" OBVIOUS
    <2>. QED BY <2>1, <2>3, <2>4, <2>5, <2>6, <2>7, <2>8
  (* What a line can be, by where it is read. *)
  <1>4. ASSUME ReadLine
        PROVE  /\ cmds' = << >> /\ wire' = wire /\ lines' \in Seq(LineType) /\ ~stale'
               /\ \/ pc \in {"rx", "line"} /\ Judged = Ok /\ Due' = << >> /\ k \in obeyed
                  \/ /\ pc \in {"scan", "line"} /\ (\E v \in {0, 1} : Judged = Line(Cmd, v))
                     /\ Due' = << Ok >> /\ k \in obeyed
                  \/ pc = FirstRead /\ Judged = Line("ERROR", 0) /\ Due' = << >>
    BY <1>0, <1>2, <1>4, Read
  <1>5. ASSUME ReadLine, Due' = << >> PROVE Rest' BY <1>0, <1>4, <1>5, ReadRest
  <1>6. ASSUME Timeout
        PROVE  /\ cmds = << >> /\ Due = << >> /\ cmds' = << >> /\ lines' = << >> /\ wire' = << >>
               /\ ~stale' /\ on' = on /\ (on => pc = "rx" /\ Cmd = "CCLK")
               /\ Rest' /\ Due' = << >>
    <2>1. << >> \o << >> = << >> OBVIOUS
    <2>. QED BY <1>0, <1>2, <1>6, <2>1, Late DEF Rest, Due
  <1>7. ASSUME NEW b \in BOOLEAN, Over(b), Rest', b /\ ~Leaver => k \in obeyed PROVE Turn' /\ Way'
    BY <1>0, <1>2, <1>7, OverWay, OverTypes, AtRest
  <1>8. ASSUME NEW b \in BOOLEAN, Return(b), Leaver, ~stale' PROVE Turn' /\ Way'
    BY <1>0, <1>8, ReturnWay, LeaverTurn
  <1>9. ASSUME NEW part \in {"rx", "line", "wild"}, Expect(part) PROVE Way' /\ pc' = part /\ op' = op /\ k' = k
    BY <1>0, <1>2, <1>9, ExpectWay DEF Expect
  <1>10. ASSUME NEW b \in BOOLEAN, RxOver(b), Rest', b => k \in obeyed PROVE Turn' /\ Way'
    <2>1. ~stale' BY <1>10 DEF Rest
    <2>2. CASE op = "ip"
      BY <1>3, <1>8, <1>10, <2>1, <2>2 DEF RxOver
    <2>3. CASE op # "ip" /\ Cmd = "CCLK"
      BY <1>3, <1>8, <1>10, <2>1, <2>3 DEF RxOver, Caller
    <2>4. CASE op # "ip" /\ Cmd # "CCLK"
      BY <1>7, <1>10, <2>4 DEF RxOver
    <2>. QED BY <2>2, <2>3, <2>4
  <1>11. CASE ScanMatch
    <2>1. pc = "scan" /\ ReadLine /\ Matches /\ ~Special BY <1>11 DEF ScanMatch
    <2>2. CASE Cmd \in ScanOnly
      <3>1. Over(TRUE) BY <1>11, <2>2 DEF ScanMatch
      <3>2. Return(TRUE /\ Answer) BY <1>3, <2>2, <3>1, CmdIs, <1>0 DEF Over, Done
      <3>3. (TRUE /\ Answer) = TRUE BY <1>3, <2>2, CmdIs, <1>0 DEF Answer
      <3>. QED BY <1>3, <1>4, <1>8, <2>1, <2>2, <3>2, <3>3
    <2>3. CASE Cmd \notin ScanOnly
      <3>1. pc' = "rx" /\ UNCHANGED <<op, k, good>> BY <1>11, <2>3 DEF ScanMatch
      <3>2. Way' BY <1>0, <1>2, <2>1, <3>1, ExpectWay
      <3>3. Judged.kind = Cmd BY <2>1, <2>3 DEF Matches, ScanOnly
      <3>4. Judged # Line("ERROR", 0)
        BY <1>3, <2>1, <3>3 DEF Line, Valued
      <3>5. Due' = << Ok >> /\ k \in obeyed /\ cmds' = << >> /\ ~stale'
        BY <1>4, <2>1, <3>4
      <3>6. Answered' BY <1>0, <3>1, <3>5 DEF Answered, Ok
      <3>. QED BY <3>1, <3>2, <3>5, <3>6 DEF Turn
    <2>. QED BY <2>2, <2>3
  <1>12. CASE ScanMismatch
    <2>1. pc = "scan" /\ ReadLine /\ ~Matches BY <1>12 DEF ScanMismatch
    <2>2. \A v : Judged # Line(Cmd, v) BY <2>1 DEF Matches, Line
    <2>3. Due' = << >> /\ cmds' = << >> /\ ~stale' BY <1>4, <2>1, <2>2
    <2>4. Rest' BY <1>5, <2>1, <2>3
    <2>5. CASE Cmd = "CCLK"
      <3>1. Expect("rx") BY <1>12, <2>5 DEF ScanMismatch
      <3>2. Way' /\ pc' = "rx" /\ op' = op /\ k' = k BY <1>9, <3>1
      <3>3. Silent' BY <2>3, <2>5, <3>2 DEF Silent, Cmd
      <3>. QED BY <2>3, <3>2, <3>3 DEF Turn
    <2>6. CASE Cmd # "CCLK"
      <3>1. Over(FALSE) BY <1>12, <2>6 DEF ScanMismatch
      <3>. QED BY <1>7, <2>4, <3>1
    <2>. QED BY <2>5, <2>6
  <1>13. CASE ScanTimeout
    <2>1. pc = "scan" /\ Timeout /\ ~Special BY <1>13 DEF ScanTimeout
    <2>2. /\ cmds' = << >> /\ ~stale' /\ Due' = << >> /\ Rest' /\ ~on'
      BY <1>6, <2>1
    <2>3. CASE Cmd \in ScanOnly
      <3>1. Over(TRUE) BY <1>13, <2>3 DEF ScanTimeout
      <3>. QED BY <1>3, <1>7, <2>2, <2>3, <3>1
    <2>4. CASE Cmd \notin ScanOnly
      <3>1. Expect("rx") BY <1>13, <2>4 DEF ScanTimeout
      <3>2. Way' /\ pc' = "rx" BY <1>9, <3>1
      <3>3. Silent' BY <2>2, <3>2 DEF Silent
      <3>. QED BY <2>2, <3>2, <3>3 DEF Turn
    <2>. QED BY <2>3, <2>4
  <1>14. CASE RxMatch
    <2>1. pc = "rx" /\ ReadLine /\ Judged.kind = "OK" /\ RxOver(TRUE) BY <1>14 DEF RxMatch
    <2>2. Judged # Line("ERROR", 0) BY <2>1 DEF Line
    <2>3. Due' = << >> /\ k \in obeyed BY <1>4, <2>1, <2>2
    <2>. QED BY <1>5, <1>10, <2>1, <2>3
  <1>15. CASE RxMismatch
    <2>1. pc = "rx" /\ ReadLine /\ RxOver(FALSE) BY <1>15 DEF RxMismatch
    <2>2. Due' = << >> BY <1>4, <2>1
    <2>. QED BY <1>5, <1>10, <2>1, <2>2
  <1>16. CASE RxTimeout
    <2>1. Timeout /\ RxOver(FALSE) BY <1>16 DEF RxTimeout
    <2>. QED BY <1>6, <1>10, <2>1
  <1>17. CASE ClockMatch \/ ClockTimeout
    <2>1. (ReadLine \/ Timeout) /\ Cmd = "CCLK" /\ \E b \in BOOLEAN : Return(b)
      BY <1>17 DEF ClockMatch, ClockTimeout, Caller
    <2>2. ~stale' BY <1>4, <1>6, <2>1
    <2>. QED BY <1>3, <1>8, <2>1, <2>2
  <1>18. CASE IpMatch
    <2>1. pc = "scan" /\ Cmd = "CGCONTRDP" /\ ReadLine /\ Matches BY <1>18 DEF IpMatch
    <2>2. Judged # Line("ERROR", 0) BY <2>1 DEF Line, Matches
    <2>3. Due' = << Ok >> /\ k \in obeyed /\ cmds' = << >> /\ ~stale' BY <1>4, <2>1, <2>2
    <2>4. CASE Return(FALSE) BY <1>3, <1>8, <2>1, <2>3, <2>4
    <2>5. CASE Expect("rx")
      <3>1. Way' /\ pc' = "rx" /\ k' = k BY <1>9, <2>5
      <3>2. Answered' BY <1>0, <2>3, <3>1 DEF Answered, Ok
      <3>. QED BY <2>3, <3>1, <3>2 DEF Turn
    <2>. QED BY <1>18, <2>4, <2>5 DEF IpMatch
  <1>19. CASE IpTimeout
    <2>1. pc = "scan" /\ Cmd = "CGCONTRDP" /\ Timeout BY <1>19 DEF IpTimeout
    <2>2. /\ cmds' = << >> /\ ~stale' /\ Due' = << >> /\ ~on'
      BY <1>6, <2>1
    <2>3. CASE Return(FALSE) BY <1>3, <1>8, <2>1, <2>2, <2>3
    <2>4. CASE Expect("rx") \/ Expect("wild")
      <3>1. Way' /\ pc' \in {"rx", "wild"} BY <1>9, <2>4
      <3>2. Silent' BY <2>2, <3>1 DEF Silent
      <3>. QED BY <2>2, <3>1, <3>2 DEF Turn
    <2>. QED BY <1>19, <2>3, <2>4 DEF IpTimeout
  <1>20. CASE HostAddress
    <2>1. pc = "line" /\ ReadLine /\ Judged.kind = "DNSRESVDON" /\ Expect("line")
      BY <1>20 DEF HostAddress
    <2>2. Judged # Line("ERROR", 0) /\ Judged # Ok BY <2>1 DEF Line, Ok
    <2>3. Due' = << Ok >> /\ k \in obeyed /\ cmds' = << >> /\ ~stale' BY <1>4, <2>1, <2>2
    <2>4. Way' /\ pc' = "line" /\ k' = k BY <1>9, <2>1
    <2>5. Answered' BY <1>0, <2>3, <2>4 DEF Answered, Ok
    <2>. QED BY <2>3, <2>4, <2>5 DEF Turn
  <1>21. CASE HostEnd
    <2>1. pc = "line" /\ ReadLine /\ Judged.kind \in Ends /\ Return(Judged.kind = "OK")
      BY <1>21 DEF HostEnd
    <2>2. Cmd = "DNSRESVDON" /\ op = "host" BY <1>3, <2>1
    <2>3. \A v : Judged # Line(Cmd, v) BY <2>1, <2>2 DEF Line, Ends
    <2>4. Due' = << >> /\ ((Judged = Ok /\ k \in obeyed) \/ Judged = Line("ERROR", 0)) BY <1>4, <2>1, <2>3
    <2>5. Rest' BY <1>5, <2>1, <2>4
    <2>6. Judged.kind = "OK" => k \in obeyed BY <2>4 DEF Line
    <2>7. k \in obeyed => obeyed = 1 .. Len(Script[op])
      <3>1. Len(Script[op]) = 1 /\ k = 1 /\ obeyed \subseteq 1 .. Len(Script[op]) BY <1>0, <1>3, <2>2 DEF Reads
      <3>2. 1 .. 1 = {1} OBVIOUS
      <3>. QED BY <3>1, <3>2
    <2>8. (Judged.kind = "OK") \in BOOLEAN OBVIOUS
    <2>9. Way' /\ pc' = "idle" BY <1>0, <2>1, <2>6, <2>7, <2>8, ReturnWay
    <2>. QED BY <2>5, <2>9, AtRest
  <1>22. CASE HostOther
    <2>1. pc = "line" /\ (Expect("wild") \/ Expect("line")) BY <1>22 DEF HostOther
    <2>2. Cmd = "DNSRESVDON" BY <1>3, <2>1
    <2>3. Timeout
      <3>1. SUFFICES ASSUME ReadLine, Judged.kind \notin Ends \cup {"DNSRESVDON"} PROVE FALSE
        BY <1>22, Zenon DEF HostOther
      <3>. QED BY <1>4, <2>2, <3>1 DEF Line, Ok, Ends
    <2>4. cmds' = << >> /\ ~stale' /\ Due' = << >> /\ ~on' BY <1>6, <2>1, <2>3
    <2>5. Way' /\ pc' \in {"wild", "line"} BY <1>9, <2>1
    <2>6. Silent' BY <2>4, <2>5 DEF Silent
    <2>. QED BY <2>4, <2>5, <2>6 DEF Turn
  <1>. QED
    BY <1>11, <1>12, <1>13, <1>14, <1>15, <1>16, <1>17, <1>18, <1>19, <1>20, <1>21, <1>22 DEF Reading

(* The modem and the line. *)
LEMMA ModemStep ==
  ASSUME IInv, Obey \/ Refuse \/ Lose \/ Notify \/ SwitchOn \/ Deliver, clean'
  PROVE  Turn' /\ Way'
  <1>0. /\ TypeOK /\ Reads /\ Turn /\ Way /\ clean
        /\ UNCHANGED <<op, pc, k, tries, good, val, ret, stale>>
    BY DEF IInv, Obey, Refuse, Lose, Notify, SwitchOn, Deliver, driver
  <1>1. /\ lines \in Seq(LineType) /\ wire \in Seq(LineType) /\ cmds \in Seq(CmdType)
        /\ obeyed \subseteq 1 .. Len(Script[op]) /\ k \in 1 .. Len(Script[op])
    BY <1>0 DEF TypeOK, LineType, CmdType, Reads
  <1>2. CASE (Obey \/ Refuse) /\ pc \in {"idle", "tx", "wild"}
    <2>1. cmds # << >> /\ (obeyed' = obeyed \/ obeyed' = obeyed \cup {k}) /\ (~on => on' = on)
      BY <1>2 DEF Obey, Refuse, modem
    <2>2. CASE pc = "idle"
      <3>1. Leaver BY <1>0, <2>1, <2>2 DEF Turn
      <3>. QED BY <1>0, <2>2, <3>1 DEF Turn, Way, Leaver
    <2>3. CASE pc = "wild"
      <3>1. ~on' BY <1>0, <2>1, <2>3 DEF Turn
      <3>. QED BY <1>0, <2>1, <2>3, <3>1 DEF Turn, Way, Leaver
    <2>. QED BY <1>0, <1>2, <2>1, <2>2, <2>3 DEF Turn
  <1>3. CASE (Obey \/ Refuse) /\ pc \in {"scan", "line", "rx"}
    <2>1. cmds # << >> /\ cmds' = Tail(cmds) /\ lines' = lines BY <1>3 DEF Obey, Refuse
    <2>2. Waiting BY <1>0, <1>3, <2>1 DEF Turn, Answered, Refused, Silent
    <2>3. /\ cmds = << [kind |-> Cmd, own |-> TRUE] >> /\ lines = << >> /\ wire = << >>
          /\ pc = FirstRead
      BY <1>1, <2>2, DueEmpty DEF Waiting, Due
    <2>4. cmds' = << >> /\ Head(cmds).kind = Cmd /\ Head(cmds).own = TRUE BY <2>1, <2>3
    <2>5. \A s \in Seq(LineType) : << >> \o s = s OBVIOUS
    <2>6. ASSUME NEW a \in LineType, a.own = TRUE PROVE [a EXCEPT !.own = TRUE] = a
      BY <2>6 DEF LineType
    <2>7. CASE Refuse
      <3>1. Say(<< Line("ERROR", 0) >>, TRUE) BY <2>4, <2>7 DEF Refuse
      <3>2. Line("ERROR", 0) \in LineType /\ Line("ERROR", 0).own = TRUE BY LineTypes DEF Line
      <3>3. wire' = << >> \o << Line("ERROR", 0) >>
        BY <2>3, <2>6, <3>1, <3>2, Said DEF Say
      <3>4. Due' = << Line("ERROR", 0) >> BY <2>1, <2>3, <2>5, <3>2, <3>3 DEF Due
      <3>5. Refused' BY <1>0, <2>3, <2>4, <3>4 DEF Refused, FirstRead, Cmd
      <3>6. obeyed' = obeyed BY <2>7 DEF Refuse, modem
      <3>. QED BY <1>0, <1>3, <3>5, <3>6 DEF Turn, Way, Leaver
    <2>8. CASE Obey /\ ~on
      <3>1. wire' = wire /\ on' = on /\ obeyed' = obeyed BY <2>8 DEF Obey
      <3>2. Silent' BY <2>1, <2>2, <2>4, <2>8, <3>1 DEF Silent, Waiting, Due
      <3>. QED BY <1>0, <1>3, <3>1, <3>2 DEF Turn, Way, Leaver
    <2>9. CASE Obey /\ on
      <3>1. PICK v \in {0, 1} :
              Say(IF Cmd \in Valued THEN << Line(Cmd, v), Line("OK", 0) >> ELSE << Line("OK", 0) >>, TRUE)
        BY <2>4, <2>9 DEF Obey, Varied
      <3>2. obeyed' = obeyed \cup {k} BY <2>4, <2>9 DEF Obey
      <3>3. Ok \in LineType /\ Ok.own = TRUE BY LineTypes DEF Line, Ok
      <3>4. CASE Cmd \in Valued
        <4>1. Line(Cmd, v) \in LineType /\ Line(Cmd, v).own = TRUE BY <3>4, LineTypes DEF Line
        <4>2. wire' = << >> \o << Line(Cmd, v), Ok >>
          <5>1. [Line(Cmd, v) EXCEPT !.own = TRUE] = Line(Cmd, v) /\ [Ok EXCEPT !.own = TRUE] = Ok
            BY <2>6, <3>3, <4>1
          <5>2. Say(<< Line(Cmd, v), Ok >>, TRUE) BY <3>1, <3>4 DEF Ok
          <5>3. wire' = << >> \o << [Line(Cmd, v) EXCEPT !.own = TRUE], [Ok EXCEPT !.own = TRUE] >>
            BY <2>3, <3>3, <4>1, <5>2, Said DEF Say
          <5>. QED BY <5>1, <5>3
        <4>3. Due' = << Line(Cmd, v), Ok >> BY <2>1, <2>3, <2>5, <3>3, <4>1, <4>2 DEF Due
        <4>4. pc \in {"scan", "line"} BY <2>3, <3>4 DEF FirstRead
        <4>5. Answered' BY <1>0, <2>4, <3>2, <4>3, <4>4 DEF Answered, Cmd, Ok
        <4>. QED BY <1>0, <1>3, <3>2, <4>5 DEF Turn, Way, Leaver
      <3>5. CASE Cmd \notin Valued
        <4>1. wire' = << >> \o << Ok >>
          BY <2>3, <2>6, <3>1, <3>3, <3>5, Said DEF Say, Ok
        <4>2. Due' = << Ok >> BY <2>1, <2>3, <2>5, <3>3, <4>1 DEF Due
        <4>3. pc = "rx" BY <2>3, <3>5 DEF FirstRead, Valued
        <4>4. Answered' BY <1>0, <2>4, <3>2, <4>2, <4>3 DEF Answered, Ok
        <4>. QED BY <1>0, <1>3, <3>2, <4>4 DEF Turn, Way, Leaver
      <3>. QED BY <3>4, <3>5
    <2>. QED BY <1>3, <2>7, <2>8, <2>9
  <1>4. CASE Lose \/ Notify \/ SwitchOn
    BY <1>4 DEF Lose, Notify, SwitchOn
  <1>5. CASE Deliver
    <2>1. /\ wire # << >> /\ lines' = Append(lines, Head(wire)) /\ wire' = Tail(wire)
          /\ UNCHANGED <<cmds, on, obeyed>>
      BY <1>5 DEF Deliver, modem
    <2>2. Due' = Due BY <1>1, <2>1, DueDeliver DEF Due
    <2>3. pc # "tx" BY <1>0, <2>1 DEF Turn
    <2>4. /\ Waiting' <=> Waiting
          /\ Answered' <=> Answered
          /\ Refused' <=> Refused
          /\ Silent' <=> Silent
      BY <1>0, <2>1, <2>2 DEF Waiting, Answered, Refused, Silent, FirstRead, Cmd, Ok
    <2>5. Turn' BY <1>0, <2>1, <2>2, <2>3, <2>4 DEF Turn, Leaver
    <2>. QED BY <1>0, <2>1, <2>5 DEF Way, Leaver
  <1>. QED BY <1>0, <1>2, <1>3, <1>4, <1>5 DEF TypeOK

LEMMA InvStep == IInv /\ [Next]_vars => IInv'
  <1>. SUFFICES ASSUME IInv, [Next]_vars, clean' PROVE Turn' /\ Way'
    BY TypeStep DEF IInv
  <1>0. TypeOK /\ Reads BY DEF IInv
  <1>1. ASSUME NEW query \in Ops, Call(query) PROVE Turn' /\ Way'
    <2>1. /\ pc' = "tx" /\ k' = 1 /\ ~stale' /\ cmds = << >> /\ wire = << >> /\ UNCHANGED <<cmds, wire>>
      BY <1>1 DEF Call, UnderWay
    <2>2. 1 .. k' - 1 = {} BY <2>1
    <2>3. Way' BY <2>1, <2>2 DEF Way
    <2>. QED BY <2>1, <2>3 DEF Turn
  <1>2. CASE Tx
    <2>1. /\ pc = "tx" /\ pc' = FirstRead /\ lines' = << >> /\ wire' = Aged(wire)
          /\ UNCHANGED <<op, k, good, ret, stale, on, obeyed, clean>>
      BY <1>2 DEF Tx, Cleared, modem
    <2>2. Turn /\ Way BY <2>1 DEF IInv
    <2>3. cmds = << >> /\ wire = << >> /\ ~stale BY <2>1, <2>2 DEF Turn
    <2>4. Aged(<< >>) = << >> BY DEF Aged
    <2>5. cmds' = << [kind |-> Cmd, own |-> TRUE] >>
      <3>1. Len(cmds) < MaxCmds BY <2>3, BoundAssumption
      <3>2. cmds' = Append(<< >>, [kind |-> Cmd, own |-> TRUE]) BY <1>2, <2>3, <2>4, <3>1 DEF Tx
      <3>3. \A e : Append(<< >>, e) = << e >> OBVIOUS
      <3>. QED BY <3>2, <3>3
    <2>6. << >> \o << >> = << >> OBVIOUS
    <2>7. Waiting' BY <2>1, <2>3, <2>4, <2>5, <2>6 DEF Waiting, Due, FirstRead, Cmd
    <2>8. pc' \in {"scan", "line", "rx"} BY <2>1 DEF FirstRead
    <2>9. Way' BY <2>1, <2>2, <2>8, ExpectWay
    <2>. QED BY <2>1, <2>3, <2>7, <2>8, <2>9 DEF Turn
  <1>3. CASE Reading BY <1>3, ReadingStep
  <1>4. CASE Obey \/ Refuse \/ Lose \/ Notify \/ SwitchOn \/ Deliver BY <1>4, ModemStep
  <1>5. CASE UNCHANGED vars
    <2>1. Turn /\ Way BY <1>5 DEF IInv, vars
    <2>2. UNCHANGED <<op, pc, k, good, ret, stale, on, obeyed, cmds, wire, lines>> BY <1>5 DEF vars, driver, modem
    <2>. QED BY <2>1, <2>2 DEF Turn, Way, Leaver, Due, Waiting, Answered, Refused, Silent, FirstRead, Cmd, Ok
  <1>. QED BY <1>1, <1>2, <1>3, <1>4, <1>5, Zenon DEF Next, Parser, Reading

LEMMA Invariant == Spec => []IInv
  <1>1. ASSUME Init PROVE IInv
    <2>1. /\ 0 \in 0 .. NetworkTries - 1 /\ 0 \in 0 .. MaxNotes /\ 0 <= MaxCmds
          /\ "alive" \in Ops /\ 1 \in 1 .. Len(Script["alive"])
      BY BoundAssumption DEF Ops, Script
    <2>2. cmds = << >> /\ cmds \in Seq(CmdType) /\ Len(cmds) = 0 BY <1>1 DEF Init
    <2>3. wire \in Seq(LineType) /\ lines \in Seq(LineType) BY <1>1 DEF Init
    <2>4. TypeOK BY <1>1, <2>1, <2>2, <2>3 DEF Init, TypeOK, LineType, CmdType
    <2>. QED BY <1>1, <2>4 DEF Init, IInv, Reads
  <1>. QED BY <1>1, InvStep, PTL DEF Spec

-----------------------------------------------------------------------------
(* Whatever is lost, late or refused, every variable keeps its type: no exchange, no
   try and no list of commands goes past its end. *)
THEOREM QueriesTyping == Spec => []TypeOK
  <1>1. IInv => TypeOK BY DEF IInv
  <1>. QED BY <1>1, Invariant, PTL

(* A call that begins on a quiet line and has no fault reads the answers of its own
   commands only, and leaves nothing behind but for the five calls that leave "OK". *)
THEOREM QueriesOwn == Spec => []OwnAnswers
  <1>1. IInv => OwnAnswers
    <2>. SUFFICES ASSUME IInv, clean
                  PROVE  ~stale /\ (pc = "idle" /\ ~Leaver => ~UnderWay /\ lines = << >>)
      BY DEF OwnAnswers
    <2>1. lines \in Seq(LineType) /\ wire \in Seq(LineType) BY DEF IInv, TypeOK, LineType
    <2>. QED BY <2>1, DueEmpty DEF IInv, Turn, Due, UnderWay
  <1>. QED BY <1>1, Invariant, PTL

(* Such a call returns true only if the modem has obeyed every one of its commands. *)
THEOREM QueriesTruthful == Spec => []Truthful
  <1>1. IInv => Truthful BY DEF IInv, Way, Truthful
  <1>. QED BY <1>1, Invariant, PTL

(* And nothing is written through a null pointer as long as the modem is there. *)
THEOREM QueriesNotWild == Spec => []NotWild
  <1>1. IInv => NotWild BY DEF IInv, Turn, NotWild
  <1>. QED BY <1>1, Invariant, PTL

-----------------------------------------------------------------------------
(* How long a call can last. *)

\* The exchanges that can follow this one: requestDateTime() has as many tries of its
\* fifth as it has not used up.
Remaining ==
  IF op # "date" THEN Len(Script[op]) - k
  ELSE IF k <= 4 THEN 5 - k + NetworkTries - tries
  ELSE IF k = 5 THEN NetworkTries - tries ELSE 0

\* What is left of an exchange.
Stage == IF pc = "tx" THEN 3 ELSE IF pc = "scan" THEN 2 ELSE 1

Effort == IF pc \in {"idle", "wild"} THEN 0 ELSE 3 * Remaining + Stage

MaxEffort == 3 * NetworkTries + 15

\* Each step of the parser brings a call nearer to its end, but for the line that the
\* loop of queryIP() reads and goes round; and nothing else prolongs a call.
EffortFalls ==
  /\ Parser => \/ Effort' < Effort
               \/ op = "host" /\ pc = "line" /\ pc' = "line"
  /\ Effort' > Effort => pc = "idle"

LEMMA EffortBounds ==
  ASSUME TypeOK
  PROVE  /\ Remaining \in Nat /\ Effort \in 0 .. MaxEffort
         /\ pc \notin {"idle", "wild"} => Effort > 0
  <1>1. /\ op \in Ops /\ k \in 1 .. Len(Script[op]) /\ Len(Script[op]) \in 1 .. 6
        /\ op = "date" => Len(Script[op]) = 6
        /\ op # "date" => Len(Script[op]) \in 1 .. 2
        /\ tries \in 0 .. NetworkTries - 1 /\ NetworkTries \in Nat \ {0}
    BY Scripts, BoundAssumption DEF TypeOK
  <1>2. Remaining \in Nat /\ Remaining <= 4 + NetworkTries
    <2>1. CASE op = "date"
      <3>1. k \in 1 .. 6 BY <1>1, <2>1
      <3>. QED BY <1>1, <2>1, <3>1 DEF Remaining
    <2>2. CASE op # "date"
      <3>1. Len(Script[op]) \in 1 .. 2 /\ k \in 1 .. Len(Script[op]) BY <1>1, <2>2, Zenon
      <3>2. \A n \in 1 .. 2 : \A m \in 1 .. n : n - m \in Nat /\ n - m <= 4 + NetworkTries
        BY <1>1
      <3>3. Remaining = Len(Script[op]) - k BY <2>2 DEF Remaining
      <3>. QED BY <3>1, <3>2, <3>3, Zenon
    <2>. QED BY <2>1, <2>2
  <1>3. Stage \in 1 .. 3 BY DEF Stage
  <1>. HIDE DEF Remaining, Stage
  <1>. QED BY <1>1, <1>2, <1>3 DEF Effort, MaxEffort

\* An exchange that follows another leaves fewer to come.
LEMMA ExchangeEffort ==
  ASSUME TypeOK, pc \notin {"idle", "wild"}, op' = op, pc' = "tx",
         Remaining' \in Nat, Remaining' < Remaining
  PROVE  Effort' < Effort
  <1>1. Remaining \in Nat /\ Stage \in 1 .. 3 BY EffortBounds DEF Stage
  <1>2. Stage' = 3 BY DEF Stage
  <1>3. Effort = 3 * Remaining + Stage BY DEF Effort
  <1>4. Effort' = 3 * Remaining' + Stage' BY DEF Effort
  <1>5. \A m, n \in Nat, s \in 1 .. 3 : m < n => 3 * m + 3 < 3 * n + s OBVIOUS
  <1>. QED BY <1>1, <1>2, <1>3, <1>4, <1>5

\* A call that returns has no effort left.
LEMMA ReturnEffort ==
  ASSUME TypeOK, pc \notin {"idle", "wild"}, pc' \in {"idle", "wild"}
  PROVE  Effort' < Effort
  <1>1. Effort' = 0 BY DEF Effort
  <1>2. Effort > 0 /\ Effort \in Nat BY EffortBounds
  <1>. QED BY <1>1, <1>2

LEMMA OverEffort ==
  ASSUME TypeOK, pc \notin {"idle", "wild"}, NEW ok \in BOOLEAN, Over(ok)
  PROVE  Effort' < Effort
  <1>1. /\ op \in Ops /\ k \in 1 .. Len(Script[op]) /\ Len(Script[op]) \in 1 .. 6
        /\ op = "date" => Len(Script[op]) = 6
        /\ tries \in 0 .. NetworkTries - 1 /\ NetworkTries \in Nat \ {0}
    BY Scripts, BoundAssumption DEF TypeOK
  <1>2. ASSUME NEW b, Return(b) PROVE Effort' < Effort
    <2>1. pc' = "idle" BY <1>2 DEF Return
    <2>. QED BY <2>1, ReturnEffort
  <1>3. CASE op # "date"
    <2>1. Done(ok) BY <1>3 DEF Over
    <2>2. CASE ok /\ k < Len(Script[op])
      <3>1. pc' = "tx" /\ k' = k + 1 /\ op' = op BY <2>1, <2>2 DEF Done, Exchange
      <3>2. Remaining = Len(Script[op]) - k BY <1>3 DEF Remaining
      <3>3. Remaining' = Len(Script[op]) - (k + 1) BY <1>3, <3>1 DEF Remaining
      <3>. QED BY <1>1, <2>2, <3>1, <3>2, <3>3, ExchangeEffort
    <2>3. CASE ~(ok /\ k < Len(Script[op]))
      <3>1. Return(ok /\ Answer) BY <2>1, <2>3 DEF Done
      <3>. QED BY <1>2, <3>1
    <2>. QED BY <2>2, <2>3
  <1>4. CASE op = "date"
    <2>0. DateDone(ok) /\ k \in 1 .. 6 BY <1>1, <1>4 DEF Over
    <2>1. CASE k = 6 /\ Return(good /\ ok) BY <1>2, <2>1
    <2>2. CASE \/ k < 4 /\ Exchange(k + 1) /\ tries' = tries
               \/ k <= 4 /\ Exchange(5) /\ tries' = tries
               \/ k = 5 /\ Exchange(5) /\ tries' = tries + 1 /\ tries + 1 < NetworkTries
               \/ k = 5 /\ Exchange(6) /\ tries' = tries
      <3>1. /\ op' = op /\ pc' = "tx"
            /\ \/ k < 4 /\ k' = k + 1 /\ tries' = tries
               \/ k <= 4 /\ k' = 5 /\ tries' = tries
               \/ k = 5 /\ k' = 5 /\ tries' = tries + 1 /\ tries + 1 < NetworkTries
               \/ k = 5 /\ k' = 6
        BY <2>2 DEF Exchange
      <3>2. Remaining' = IF k' <= 4 THEN 5 - k' + NetworkTries - tries'
                         ELSE IF k' = 5 THEN NetworkTries - tries' ELSE 0
        BY <1>4, <3>1 DEF Remaining
      <3>3. Remaining = IF k <= 4 THEN 5 - k + NetworkTries - tries
                        ELSE IF k = 5 THEN NetworkTries - tries ELSE 0
        BY <1>4 DEF Remaining
      <3>4. Remaining' \in Nat /\ Remaining' < Remaining BY <1>1, <2>0, <3>1, <3>2, <3>3
      <3>. QED BY <3>1, <3>4, ExchangeEffort
    <2>. QED BY <1>1, <2>0, <2>1, <2>2 DEF DateDone, MoreTries, Again
  <1>. QED BY <1>3, <1>4

LEMMA ReadingEffort ==
  ASSUME TypeOK, Reads, Reading
  PROVE  Effort' < Effort \/ (op = "host" /\ pc = "line" /\ pc' = "line")
  <1>1. pc \in {"scan", "rx", "line"}
    BY DEF Reading, ScanMatch, ScanMismatch, ScanTimeout, RxMatch, RxMismatch, RxTimeout,
           ClockMatch, ClockTimeout, IpMatch, IpTimeout, HostAddress, HostEnd, HostOther
  <1>2. op \in Ops /\ k \in 1 .. Len(Script[op]) BY DEF TypeOK
  <1>3. ASSUME NEW b, Return(b) PROVE Effort' < Effort
    <2>1. pc' = "idle" BY <1>3 DEF Return
    <2>. QED BY <1>1, <2>1, ReturnEffort
  <1>4. ASSUME NEW b \in BOOLEAN, Over(b) PROVE Effort' < Effort
    BY <1>1, <1>4, OverEffort
  <1>5. ASSUME pc = "scan", pc' = "rx", UNCHANGED <<op, k, tries>> PROVE Effort' < Effort
    <2>1. Remaining' = Remaining BY <1>5 DEF Remaining
    <2>2. Remaining \in Nat BY EffortBounds
    <2>3. Effort = 3 * Remaining + 2 BY <1>5 DEF Effort, Stage
    <2>4. Effort' = 3 * Remaining' + 1 BY <1>5 DEF Effort, Stage
    <2>. QED BY <2>1, <2>2, <2>3, <2>4
  <1>6. ASSUME pc' = "wild" PROVE Effort' < Effort BY <1>1, <1>6, ReturnEffort
  <1>7. CASE ScanMatch
    <2>1. CASE Over(TRUE) BY <1>4, <2>1
    <2>2. CASE pc' = "rx" /\ UNCHANGED <<op, k, tries>> BY <1>5, <1>7, <2>2 DEF ScanMatch
    <2>. QED BY <1>7, <2>1, <2>2, Zenon DEF ScanMatch
  <1>8. CASE ScanMismatch \/ ScanTimeout
    <2>1. pc = "scan" /\ (Over(TRUE) \/ Over(FALSE) \/ Expect("rx"))
      BY <1>8, Zenon DEF ScanMismatch, ScanTimeout
    <2>2. CASE Expect("rx") BY <1>5, <2>1, <2>2 DEF Expect
    <2>. QED BY <1>4, <2>1, <2>2
  <1>9. CASE RxMatch \/ RxMismatch \/ RxTimeout
    <2>1. RxOver(TRUE) \/ RxOver(FALSE)
      BY <1>9, Zenon DEF RxMatch, RxMismatch, RxTimeout
    <2>2. \/ Over(TRUE) \/ Over(FALSE) \/ Return(TRUE) \/ Return(FALSE)
          \/ \E some \in BOOLEAN : Return(some)
      BY <2>1, Zenon DEF RxOver, Caller
    <2>. QED BY <1>3, <1>4, <2>2
  <1>10. CASE ClockMatch \/ ClockTimeout \/ HostEnd
    <2>1. \E b \in BOOLEAN : Return(b)
      BY <1>10 DEF ClockMatch, ClockTimeout, Caller, HostEnd
    <2>. QED BY <1>3, <2>1
  <1>11. CASE IpMatch \/ IpTimeout
    <2>1. pc = "scan" /\ (Return(FALSE) \/ Expect("rx") \/ Expect("wild"))
      BY <1>11, Zenon DEF IpMatch, IpTimeout
    <2>2. CASE Expect("rx") BY <1>5, <2>1, <2>2 DEF Expect
    <2>3. CASE Expect("wild") BY <1>6, <2>3 DEF Expect
    <2>. QED BY <1>3, <2>1, <2>2, <2>3
  <1>12. CASE HostAddress \/ HostOther
    <2>1. pc = "line" /\ (Expect("line") \/ Expect("wild"))
      BY <1>12, Zenon DEF HostAddress, HostOther
    <2>2. op = "host"
      <3>1. FirstRead = "line" BY <2>1 DEF Reads
      <3>2. Cmd = "DNSRESVDON" BY <3>1 DEF FirstRead
      <3>. QED BY <1>2, <3>2, Scripts DEF Cmd
    <2>3. CASE Expect("wild") BY <1>6, <2>3 DEF Expect
    <2>4. CASE Expect("line") BY <2>1, <2>2, <2>4 DEF Expect
    <2>. QED BY <2>1, <2>3, <2>4
  <1>. QED BY <1>7, <1>8, <1>9, <1>10, <1>11, <1>12 DEF Reading

(* A call consists of a bounded number of steps, whatever the modem answers or does not
   answer: requestDateTime() asks for the network NetworkTries times at most, and only
   queryIP() can go on for as long as lines that are neither address nor end keep coming. *)
THEOREM QueriesEffort == Spec => [](Effort \in 0 .. MaxEffort) /\ [][EffortFalls]_vars
  <1>1. IInv => Effort \in 0 .. MaxEffort
    <2>. SUFFICES ASSUME IInv PROVE Effort \in 0 .. MaxEffort OBVIOUS
    <2>. QED BY EffortBounds DEF IInv
  <1>2. IInv' => (Effort \in 0 .. MaxEffort)' BY <1>1, PTL
  <1>3. IInv /\ IInv' /\ [Next]_vars => [EffortFalls]_vars
    <2>. SUFFICES ASSUME IInv, IInv', Next PROVE EffortFalls OBVIOUS
    <2>1. TypeOK /\ Reads /\ Remaining \in Nat /\ Effort \in Nat /\ Effort' \in Nat
      BY <1>2, EffortBounds, BoundAssumption DEF IInv, MaxEffort
    <2>2. Tx => Effort' < Effort
      <3>. SUFFICES ASSUME Tx PROVE Effort' < Effort OBVIOUS
      <3>1. pc = "tx" /\ pc' \in {"scan", "line", "rx"} /\ UNCHANGED <<op, k, tries>>
        BY DEF Tx, FirstRead
      <3>2. Remaining' = Remaining BY <3>1 DEF Remaining
      <3>3. Effort = 3 * Remaining + 3 BY <3>1 DEF Effort, Stage
      <3>4. Effort' \in {3 * Remaining' + 1, 3 * Remaining' + 2} BY <3>1 DEF Effort, Stage
      <3>. QED BY <2>1, <3>2, <3>3, <3>4
    <2>3. Reading => Effort' < Effort \/ (op = "host" /\ pc = "line" /\ pc' = "line")
      BY <2>1, ReadingEffort
    <2>4. Parser => Effort' < Effort \/ (op = "host" /\ pc = "line" /\ pc' = "line")
      BY <2>2, <2>3, Zenon DEF Parser, Reading
    <2>5. Effort' > Effort => pc = "idle"
      <3>1. CASE Tx BY <2>1, <2>2, <3>1
      <3>2. CASE Reading
        <4>1. CASE op = "host" /\ pc = "line" /\ pc' = "line"
          <5>1. op' = op /\ k' = k BY <2>1, <3>2, <4>1, ReadingTypes
          <5>2. Effort' = Effort BY <4>1, <5>1 DEF Effort, Remaining, Stage
          <5>. QED BY <2>1, <5>2
        <4>. QED BY <2>1, <2>3, <3>2, <4>1
      <3>3. CASE \E query \in Ops : Call(query) BY <3>3 DEF Call
      <3>4. CASE Obey \/ Refuse \/ Lose \/ Notify \/ SwitchOn \/ Deliver
        <4>1. UNCHANGED driver BY <3>4 DEF Obey, Refuse, Lose, Notify, SwitchOn, Deliver
        <4>2. Effort' = Effort BY <4>1 DEF driver, Effort, Remaining, Stage
        <4>. QED BY <2>1, <4>2
      <3>. QED BY <3>1, <3>2, <3>3, <3>4, Zenon DEF Next, Parser, Reading
    <2>. QED BY <2>4, <2>5 DEF EffortFalls
  <1>. QED BY <1>1, <1>3, Invariant, PTL DEF Spec
=============================================================================
