------------------------------ MODULE Queries ------------------------------
(***************************************************************************)
(* The calls of WNCATParser that ask the modem something and belong to no  *)
(* socket: whether it lives, its numbers, battery, location, time and      *)
(* address, the address of a host, and to switch itself off.               *)
(*                                                                         *)
(* A call is a series of exchanges, a chain of && in the code: tx() of a   *)
(* command, then a scan() of the answer, an rx() of "OK", or both.  Each   *)
(* tx(), and every line or timeout that a read acts upon, is a step.  The  *)
(* modem is external: it obeys a command or refuses it, and is switched    *)
(* off and on.                                                             *)
(***************************************************************************)
EXTENDS Integers, Sequences

CONSTANTS
  NetworkTries,  \* 20, in requestDateTime()
  MaxCmds,       \* commands the modem can have waiting, one at least; more are lost
  MaxLines,      \* bound: lines on the wire, and lines received and not yet read
  MaxNotes       \* bound: lines the modem sends unasked

ASSUME BoundAssumption ==
  /\ NetworkTries \in Nat \ {0} /\ MaxCmds \in Nat \ {0}
  /\ MaxLines \in Nat /\ MaxNotes \in Nat

VARIABLES
  op,      \* the call, or the last one
  pc,      \* "idle", the next part of the exchange, or "wild" after a write through NULL
  k,       \* which exchange of the call
  tries,   \* networkTries of requestDateTime()
  good,    \* its tdStatus
  val,     \* what scan() has stored: 1 or 0, or -1 for nothing
  ret,     \* did the last call succeed?
  cmds,    \* commands on their way to the modem
  wire,    \* lines on their way from the modem
  lines,   \* lines received and not yet read
  on,      \* is the modem switched on?
  obeyed,  \* ghost: the exchanges of this call whose command it has obeyed
  stale,   \* ghost: has this call read a line that answers an earlier command?
  clean,   \* ghost: has the call begun on a quiet line, and not had a fault?
  notes    \* the number of unasked lines so far

driver == <<op, pc, k, tries, good, val, ret, stale>>
modem == <<on, obeyed, notes>>
vars == <<driver, cmds, wire, lines, modem, clean>>

Script ==
  [alive    |-> <<"AT">>,
   gprs     |-> <<"AT", "CGATT">>,
   imei     |-> <<"GSN">>,
   iccid    |-> <<"CCID">>,
   battery  |-> <<"CBC">>,
   location |-> <<"QCELLLOC", "CCLK">>,
   date     |-> <<"QNITZ", "CTZU", "CFUN", "SETCLK", "CGREG", "QNTP">>,
   ip       |-> <<"CGCONTRDP">>,
   host     |-> <<"DNSRESVDON">>,
   down     |-> <<"SHUTDOWN">>]
Ops == DOMAIN Script
Cmd == Script[op][k]

\* What is read after a command; the modem answers with a value and "OK", or with
\* "OK" alone.
Valued == {"CGATT", "GSN", "CCID", "CBC", "QCELLLOC", "CCLK", "CGREG", "CGCONTRDP", "DNSRESVDON"}
ScanOnly == {"GSN", "CCID", "CBC"}
FirstRead == IF Cmd = "DNSRESVDON" THEN "line" ELSE IF Cmd \in Valued THEN "scan" ELSE "rx"

\* Commands whose answers are not always the same: the value is 1 or 0 (attached
\* or not, registered or not, an address of some length or none, a clock that shows
\* another month than May 2017, or this).
Varied == {"CGATT", "CGREG", "CGCONTRDP", "CCLK"}
Cmds == Valued \cup {"AT", "QNITZ", "CTZU", "CFUN", "SETCLK", "QNTP", "SHUTDOWN"}

\* own: it answers the last command.  "other" is any line that nobody waits for,
\* or half a line.
Line(kind, v) == [kind |-> kind, v |-> v, own |-> TRUE]
LineKinds == Valued \cup {"OK", "ERROR", "other"}

TypeOK ==
  /\ op \in Ops /\ k \in 1 .. Len(Script[op])
  /\ pc \in {"idle", "tx", "scan", "rx", "line", "wild"}
  /\ tries \in 0 .. NetworkTries - 1
  /\ good \in BOOLEAN /\ val \in {-1, 0, 1}
  /\ ret \in BOOLEAN /\ stale \in BOOLEAN /\ clean \in BOOLEAN
  /\ cmds \in Seq([kind : Cmds, own : BOOLEAN]) /\ Len(cmds) <= MaxCmds
  /\ wire \in Seq([kind : LineKinds, v : {0, 1}, own : BOOLEAN])
  /\ lines \in Seq([kind : LineKinds, v : {0, 1}, own : BOOLEAN])
  /\ on \in BOOLEAN /\ obeyed \subseteq 1 .. 6 /\ notes \in 0 .. MaxNotes

Init ==
  /\ op = "alive" /\ pc = "idle" /\ k = 1 /\ tries = 0 /\ good = TRUE /\ val = -1
  /\ ret = FALSE
  /\ cmds = << >> /\ wire = << >> /\ lines = << >>
  /\ on = TRUE /\ obeyed = {} /\ stale = FALSE /\ clean = FALSE /\ notes = 0

UnderWay == cmds # << >> \/ wire # << >>

-----------------------------------------------------------------------------
(* The calls. *)

Call(query) ==
  /\ pc = "idle"
  /\ op' = query /\ pc' = "tx" /\ k' = 1
  /\ stale' = FALSE /\ clean' = ~UnderWay /\ obeyed' = {}
  /\ UNCHANGED <<tries, good, val, ret, cmds, wire, lines, on, notes>>

\* The locals of the call are gone.
Return(ok) ==
  /\ pc' = "idle" /\ ret' = ok
  /\ k' = 1 /\ tries' = 0 /\ good' = TRUE /\ val' = -1
  /\ UNCHANGED op

Exchange(n) == pc' = "tx" /\ k' = n /\ val' = -1 /\ UNCHANGED <<op, ret>>

\* Of checkGPRS(): a value that scan() has not stored is true.
Answer == op = "gprs" => val # 0

\* The exchange is over, and ok what the chain has come to.
Done(ok) ==
  IF ok /\ k < Len(Script[op]) THEN Exchange(k + 1) /\ UNCHANGED <<tries, good>>
  ELSE Return(ok /\ Answer)

\* Mutants of MoreTries and Again.
MoreTriesOne == tries < NetworkTries
AgainForever == tries' = tries

MoreTries == tries + 1 < NetworkTries
Again == tries' = tries + 1

\* requestDateTime(): the first four are a chain, the fifth is tried until it says
\* that the modem is registered, and the sixth is sent in any case.
DateDone(ok) ==
  LET registered == ok /\ val = 1
  IN \/ k < 4 /\ ok /\ Exchange(k + 1) /\ UNCHANGED <<tries, good>>
     \/ (k = 4 \/ (k < 4 /\ ~ok)) /\ Exchange(5) /\ good' = ok /\ UNCHANGED tries
     \/ k = 5 /\ registered /\ Exchange(6) /\ UNCHANGED <<tries, good>>
     \/ k = 5 /\ ~registered /\ MoreTries /\ Exchange(5) /\ Again /\ UNCHANGED good
     \/ k = 5 /\ ~registered /\ ~MoreTries /\ Exchange(6) /\ good' = FALSE /\ UNCHANGED tries
     \/ k = 6 /\ Return(good /\ ok)

Over(ok) == IF op = "date" THEN DateDone(ok) ELSE Done(ok)

-----------------------------------------------------------------------------
(* tx(), scan(), rx() and readline(). *)

Aged(s) == [i \in DOMAIN s |-> [s[i] EXCEPT !.own = FALSE]]

\* Mutant of Cleared: tx() does not clean up the input buffer.
ClearedNot == Aged(lines)

\* What tx() leaves of the lines received.
Cleared == << >>

Tx ==
  /\ pc = "tx"
  /\ cmds' = IF Len(cmds) < MaxCmds THEN Append(Aged(cmds), [kind |-> Cmd, own |-> TRUE])
             ELSE Aged(cmds)
  /\ wire' = Aged(wire) /\ lines' = Cleared
  /\ pc' = FirstRead
  /\ UNCHANGED <<op, k, tries, good, val, ret, stale, modem, clean>>

Judged == Head(lines)
ReadLine ==
  /\ lines # << >> /\ lines' = Tail(lines)
  /\ stale' = (stale \/ ~Judged.own)
  /\ UNCHANGED <<cmds, wire, modem, clean>>

\* The time is up, or a line is read too late: a fault unless nothing is under way.
Timeout ==
  /\ lines' = IF lines = << >> THEN lines ELSE Tail(lines)
  /\ clean' = (clean /\ lines = << >> /\ ~UnderWay)
  /\ UNCHANGED <<cmds, wire, modem, stale>>

\* scan("%s") takes any line for the IMEI.
Matches == Judged.kind = Cmd \/ Cmd = "GSN"

Special == Cmd \in {"CGCONTRDP", "CCLK"}
Expect(part) == pc' = part /\ UNCHANGED <<op, k, tries, good, val, ret>>

ScanMatch ==
  /\ pc = "scan" /\ ReadLine /\ Matches /\ ~Special
  /\ IF Cmd \in ScanOnly THEN Over(TRUE)
     ELSE pc' = "rx" /\ val' = Judged.v /\ UNCHANGED <<op, k, tries, good, ret>>

\* getLocation() looks for the "OK" of AT+CCLK? when the answer is not one.
ScanMismatch ==
  /\ pc = "scan" /\ ReadLine /\ ~Matches
  /\ IF Cmd = "CCLK" THEN Expect("rx") ELSE Over(FALSE)

\* -1 is true in the chain, and nothing is stored.
ScanTimeout ==
  /\ pc = "scan" /\ Timeout /\ ~Special
  /\ IF Cmd \in ScanOnly THEN Over(TRUE) ELSE Expect("rx")

\* getLocation() and the clock: an answer, or none in time, ends it.  It takes
\* whatever the caller's datetime holds for the time, May 2017 for none.
ClockMatch == pc = "scan" /\ Cmd = "CCLK" /\ ReadLine /\ Matches /\ Return(Judged.v = 1)
Caller == \E some \in BOOLEAN : Return(some)
ClockTimeout == pc = "scan" /\ Cmd = "CCLK" /\ Timeout /\ Caller

\* After rx(): getIPAddress() does not look at its result, and getLocation() returns
\* false if it is true.
RxOver(ok) ==
  CASE op = "ip" -> Return(TRUE)
    [] Cmd = "CCLK" -> IF ok THEN Return(FALSE) ELSE Caller
    [] OTHER -> Over(ok)

\* Mutant of RxMatch: any line will do.
RxMatchAny == pc = "rx" /\ ReadLine /\ RxOver(TRUE)

RxMatch == pc = "rx" /\ ReadLine /\ Judged.kind = "OK" /\ RxOver(TRUE)
RxMismatch == pc = "rx" /\ ReadLine /\ Judged.kind # "OK" /\ RxOver(FALSE)
RxTimeout == pc = "rx" /\ Timeout /\ RxOver(FALSE)

\* getIPAddress() has its line: without an address (up to 11 characters) it returns
\* at once, otherwise parse_ipstats() takes it apart.
IpMatch ==
  /\ pc = "scan" /\ Cmd = "CGCONTRDP" /\ ReadLine /\ Matches
  /\ IF Judged.v = 0 THEN Return(FALSE) ELSE Expect("rx")

\* It takes what its buffer has held before for the answer.
IpTimeout ==
  /\ pc = "scan" /\ Cmd = "CGCONTRDP" /\ Timeout
  /\ Return(FALSE) \/ Expect("wild") \/ Expect("rx")

\* queryIP() reads on after an address.  gethostbyname() makes the caller's address
\* of the last one, and returns NSAPI_ERROR_OK whether there was one or not.
HostAddress == pc = "line" /\ ReadLine /\ Judged.kind = "DNSRESVDON" /\ Expect("line")

\* Mutant of Ends: the loop does not end with "ERROR".
EndsOk == {"OK"}

Ends == {"OK", "ERROR"}
HostEnd == pc = "line" /\ ReadLine /\ Judged.kind \in Ends /\ Return(Judged.kind = "OK")

\* Any other line, or none: there is no quote in theIP, unless its caller had left
\* one there, and *quote = 0 writes through NULL, with whatever effect.
HostOther ==
  /\ pc = "line"
  /\ Timeout \/ (ReadLine /\ Judged.kind \notin Ends \cup {"DNSRESVDON"})
  /\ Expect("wild") \/ Expect("line")

-----------------------------------------------------------------------------
(* The modem and the line. *)

Say(s, own) == wire' = wire \o [i \in DOMAIN s |-> [s[i] EXCEPT !.own = own]]
CanSay(n) == Len(wire) + n <= MaxLines

Obey ==
  /\ cmds # << >> /\ cmds' = Tail(cmds)
  /\ LET c == Head(cmds)
     IN IF ~on THEN UNCHANGED <<wire, on, obeyed>>
        ELSE /\ CanSay(2)
             /\ \E v \in IF c.kind \in Varied THEN {0, 1} ELSE {1} :
                  Say(IF c.kind \in Valued THEN <<Line(c.kind, v), Line("OK", 0)>>
                      ELSE <<Line("OK", 0)>>, c.own)
             /\ on' = (c.kind # "SHUTDOWN")
             /\ obeyed' = IF c.own THEN obeyed \cup {k} ELSE obeyed
  /\ UNCHANGED <<driver, lines, clean, notes>>

Refuse ==
  /\ cmds # << >> /\ on /\ CanSay(1) /\ cmds' = Tail(cmds)
  /\ Say(<<Line("ERROR", 0)>>, Head(cmds).own)
  /\ UNCHANGED <<driver, lines, modem, clean>>

\* The command or its answer gets lost.
Lose ==
  /\ cmds # << >> /\ on /\ cmds' = Tail(cmds)
  /\ clean' = FALSE
  /\ UNCHANGED <<driver, wire, lines, modem>>

\* Another line comes in between: a notification, or the modem tells of a socket.
Notify ==
  /\ notes < MaxNotes /\ on /\ CanSay(1) /\ notes' = notes + 1
  /\ Say(<<Line("other", 0)>>, FALSE)
  /\ clean' = FALSE
  /\ UNCHANGED <<driver, cmds, lines, on, obeyed>>

SwitchOn ==
  /\ ~on /\ on' = TRUE
  /\ clean' = FALSE
  /\ UNCHANGED <<driver, cmds, wire, lines, obeyed, notes>>

Deliver ==
  /\ wire # << >> /\ Len(lines) < MaxLines
  /\ lines' = Append(lines, Head(wire)) /\ wire' = Tail(wire)
  /\ UNCHANGED <<driver, cmds, modem, clean>>

Parser ==
  \/ Tx \/ ScanMatch \/ ScanMismatch \/ ScanTimeout \/ RxMatch \/ RxMismatch \/ RxTimeout
  \/ ClockMatch \/ ClockTimeout \/ IpMatch \/ IpTimeout \/ HostAddress \/ HostEnd \/ HostOther

Next ==
  \/ \E query \in Ops : Call(query)
  \/ Parser \/ Obey \/ Refuse \/ Lose \/ Notify \/ SwitchOn \/ Deliver

Spec == Init /\ [][Next]_vars

\* A call, once made, runs on; the modem obeys or refuses, and lines arrive.
FairSpec == Spec /\ WF_vars(Parser) /\ WF_vars(Obey \/ Refuse) /\ WF_vars(Deliver)

-----------------------------------------------------------------------------
(* Properties. *)

Leaver == op \in {"imei", "iccid", "battery", "location", "ip"}

\* A call that begins on a quiet line and has no fault reads the answers of its own
\* commands only, although getIMEI(), getICCID(), modem_battery(), getLocation() and,
\* without an address, getIPAddress() leave an "OK" behind for the next call to find;
\* and apart from these such a call leaves nothing behind.
OwnAnswers ==
  clean => /\ ~stale
           /\ pc = "idle" /\ ~Leaver => ~UnderWay /\ lines = << >>

\* It returns true only if the modem has obeyed every command: one that is switched
\* off or refuses is not said to be alive, attached, on time or shut down.  Of those
\* above, four return true of a modem that is silent, and getLocation() also of one that
\* refuses to tell the time.
Truthful == clean /\ pc = "idle" /\ ret /\ ~Leaver => obeyed = 1 .. Len(Script[op])

\* Nothing is written through a null pointer as long as the modem is there, no line
\* is late or lost, and it says nothing unasked.
NotWild == clean /\ on => pc # "wild"

\* Every call returns, queryIP() if the modem answers it.
QueryReturns ==
  pc \notin {"idle", "wild"} ~> \/ pc \in {"idle", "wild"}
                                \/ op = "host" /\ (~clean \/ ~on)
=============================================================================
