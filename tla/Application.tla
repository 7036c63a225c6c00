---------------------------- MODULE Application ----------------------------
(***************************************************************************)
(* main() as a whole: do_connect(), which is Connection, and then          *)
(* test_send_recv(), which opens a TCP socket to an echo server, sends     *)
(* "TEST", receives the server's greeting and then four bytes that it      *)
(* compares.                                                               *)
(*                                                                         *)
(* A call of the socket is a step; the tries of its command count as one   *)
(* (Sockets, Send, Queries and Recv have the calls in full).  Between the  *)
(* steps the peer sends.  What recv() returns is the data of one           *)
(* @SOCKREAD, that is all that the modem has at that moment.  mbed's       *)
(* TCPSocket is external: open() and connect() fail as the interface does, *)
(* recv() returns a negative number when its time is up, and the           *)
(* destructor closes a socket that is open.                                *)
(***************************************************************************)
EXTENDS Connection, Sequences

VARIABLES
  step,      \* the call that comes next; "connect": do_connect() runs;
             \* "wild" after a write out of bounds, "exit" when main() has returned
  resolved,  \* has gethostbyname() got an address?
  marked,    \* is the slot of the socket marked in _sockets?
  msock,     \* the modem's socket
  greeted,   \* the parts of its greeting that the server has sent
  asked,     \* has "TEST" reached the server: "no", "yes", or "echoed" when it has replied
  stock,     \* what the modem has received for the socket, a message or part an item
  first,     \* what the first recv() has got
  verdict,   \* what test_send_recv() returns
  exit,      \* what main() returns
  opened,    \* ghost: has sock.open() succeeded?
  late       \* ghost: has a recv() returned before the server had sent anything?

CONSTANT Parts  \* the server's greeting comes in so many pieces at most

ASSUME PartsAssumption == Parts \in Nat \ {0}

test == <<step, resolved, marked, first, verdict, exit, opened, late>>
peer == <<greeted, asked, stock>>
appvars == <<vars, test, msock, peer>>

Steps == {"connect", "open", "resolve", "join", "send", "recv", "recv4", "close", "return"}

AppTypeOK ==
  /\ TypeOK
  /\ step \in Steps \cup {"wild", "exit"}
  /\ resolved \in BOOLEAN /\ marked \in BOOLEAN /\ opened \in BOOLEAN /\ late \in BOOLEAN
  /\ asked \in {"no", "yes", "echoed"}
  /\ msock \in {"none", "created", "connected"}
  /\ greeted \in 0 .. Parts
  /\ stock \in Seq({"greeting", "echo"}) /\ first \in Seq({"greeting", "echo"})
  /\ verdict \in {"none", "ok", "failed"} /\ exit \in {"none", "0", "-1"}

AppInit ==
  /\ Init
  /\ step = "connect" /\ resolved = FALSE /\ marked = FALSE /\ msock = "none"
  /\ greeted = 0 /\ asked = "no" /\ stock = << >> /\ first = << >>
  /\ verdict = "none" /\ exit = "none"
  /\ opened = FALSE /\ late = FALSE

Connecting ==
  /\ step = "connect" /\ pc # "done"
  /\ Next
  /\ UNCHANGED <<test, msock, peer>>

-----------------------------------------------------------------------------
(* main() and test_send_recv(). *)

\* do_connect() has returned NSAPI_ERROR_OK, the only thing that it can return
\* here; its locals are gone.
Connected ==
  /\ step = "connect" /\ pc = "done"
  /\ step' = "open"
  /\ response' = "unset" /\ tries' = 0 /\ networkTries' = 0 /\ connected' = FALSE
  /\ ret' = "none" /\ retry_counter' = 0
  /\ UNCHANGED <<pc, initialized, blind, modem, faults, upsets, resolved, marked, first,
                 verdict, exit, opened, late, msock, peer>>

Quiet == UNCHANGED <<driver, modem, upsets>>

\* A command on the socket; ok if it is answered, heard if the modem obeys it.
Exchange(ok, heard) ==
  /\ Quiet
  /\ \E line \in Seen : Ask("OK", line, heard) /\ ok = (line = "OK")

Fail(next) == step' = next /\ verdict' = "failed"

\* sock.open(): a slot is taken, and stays taken whatever the modem says, but there
\* is no socket to close then.
Open ==
  /\ step = "open"
  /\ marked' = TRUE
  /\ \E ok, heard \in BOOLEAN :
       /\ Exchange(ok, heard)
       /\ msock' = IF heard THEN "created" ELSE msock
       /\ opened' = ok
       /\ IF ok THEN step' = "resolve" /\ UNCHANGED verdict ELSE Fail("return")
  /\ UNCHANGED <<resolved, first, exit, late, peer>>

\* gethostbyname(), in sock.connect(), returns NSAPI_ERROR_OK in any case; queryIP()
\* writes through NULL when it gets no line in time.
Resolve ==
  /\ step = "resolve"
  /\ \E ok, heard \in BOOLEAN :
       /\ Exchange(ok, heard)
       /\ resolved' = ok
       /\ IF ok THEN step' = "join" ELSE step' \in {"join", "wild"}
  /\ UNCHANGED <<marked, first, verdict, exit, opened, late, msock, peer>>

\* socket_connect().
Join ==
  /\ step = "join" /\ resolved
  /\ \E ok, heard \in BOOLEAN :
       /\ Exchange(ok, heard)
       /\ msock' = IF heard /\ msock = "created" THEN "connected" ELSE msock
       /\ IF ok THEN step' = "send" /\ UNCHANGED verdict ELSE Fail("close")
  /\ UNCHANGED <<resolved, marked, first, exit, opened, late, peer>>

JoinNowhere ==
  /\ step = "join" /\ ~resolved
  /\ Fail("close")
  /\ Quiet /\ UNCHANGED <<faults, resolved, marked, first, exit, opened, late, msock, peer>>

\* socket_send() returns 4 in any case.
SendTest ==
  /\ step = "send" /\ step' = "recv"
  /\ \E ok, heard \in BOOLEAN :
       /\ Exchange(ok, heard)
       /\ asked' = IF heard /\ msock = "connected" THEN "yes" ELSE asked
  /\ UNCHANGED <<resolved, marked, first, verdict, exit, opened, late, msock, greeted, stock>>

\* A recv() whose time is up: nothing has come, or it has got lost.
Missed ==
  /\ \/ stock = << >> /\ UNCHANGED <<faults, stock>>
     \/ Trouble /\ stock' = << >>
  /\ late' = (late \/ stock = << >>)

\* Mutant of Received: what has been received stays.
ReceivedKeep == stock # << >> /\ UNCHANGED <<faults, late, stock>>

Received == stock # << >> /\ stock' = << >> /\ UNCHANGED <<faults, late>>

\* The first recv(), of up to 512 bytes.
Recv ==
  /\ step = "recv" /\ step' = "recv4"
  /\ Received /\ first' = stock
  /\ Quiet /\ UNCHANGED <<resolved, marked, verdict, exit, opened, msock, greeted, asked>>

\* memset(recv_buf, 0, n) of a negative n.
RecvWild ==
  /\ step = "recv" /\ step' = "wild"
  /\ Missed
  /\ Quiet /\ UNCHANGED <<first, resolved, marked, verdict, exit, opened, msock, greeted, asked>>

\* Mutant of Right: the bytes are not compared.
RightAny == TRUE

\* Are the first four bytes "TEST"?
Right == Head(stock) = "echo"

\* The second recv(), of up to 4 bytes.
Recv4 ==
  /\ step = "recv4" /\ step' = "close"
  /\ \/ Received /\ verdict' = (IF Right THEN "ok" ELSE "failed")
     \/ Missed /\ verdict' = "failed"
  /\ Quiet /\ UNCHANGED <<first, resolved, marked, exit, opened, msock, greeted, asked>>

\* Mutant of Close: the slot is freed if the modem closes its socket.
CloseIfClosed ==
  /\ step = "close" /\ step' = "return"
  /\ \E ok, heard \in BOOLEAN :
       /\ Exchange(ok, heard)
       /\ msock' = IF heard THEN "none" ELSE msock
       /\ marked' = ~ok
  /\ UNCHANGED <<resolved, first, verdict, exit, opened, late, peer>>

\* sock.close(), or the destructor.
Close ==
  /\ step = "close" /\ step' = "return"
  /\ \E ok, heard \in BOOLEAN :
       /\ Exchange(ok, heard)
       /\ msock' = IF heard THEN "none" ELSE msock
  /\ marked' = FALSE
  /\ UNCHANGED <<resolved, first, verdict, exit, opened, late, peer>>

Return ==
  /\ step = "return" /\ step' = "exit"
  /\ exit' = IF verdict = "ok" THEN "0" ELSE "-1"
  /\ UNCHANGED <<vars, resolved, marked, first, verdict, opened, late, msock, peer>>

-----------------------------------------------------------------------------
(* The echo server. *)

Reachable == msock = "connected" /\ step \notin {"exit", "wild"}

Greet ==
  /\ Reachable /\ greeted < Parts /\ asked # "echoed"
  /\ greeted' = greeted + 1 /\ stock' = Append(stock, "greeting")
  /\ UNCHANGED <<vars, test, msock, asked>>

\* It echoes when it has greeted.
Echo ==
  /\ Reachable /\ asked = "yes" /\ greeted > 0
  /\ asked' = "echoed" /\ stock' = Append(stock, "echo")
  /\ UNCHANGED <<vars, test, msock, greeted>>

Test ==
  \/ Connected \/ Open \/ Resolve \/ Join \/ JoinNowhere \/ SendTest \/ Recv \/ RecvWild
  \/ Recv4 \/ Close \/ Return

AppNext == Connecting \/ Test \/ Greet \/ Echo

AppSpec == AppInit /\ [][AppNext]_appvars

\* The program runs; the modem boots, finds the network and gets an address.
AppFairSpec ==
  /\ AppSpec
  /\ WF_appvars(step = "connect" /\ Driver /\ UNCHANGED <<test, msock, peer>>)
  /\ WF_appvars(Boot /\ UNCHANGED <<test, msock, peer>>)
  /\ WF_appvars(Register /\ UNCHANGED <<test, msock, peer>>)
  /\ WF_appvars(GetAddress /\ UNCHANGED <<test, msock, peer>>)
  /\ WF_appvars(Test)

-----------------------------------------------------------------------------
(* Properties. *)

\* main() returns 0 only if "TEST" has gone to the server and come back.
Success == exit = "0" => asked = "echoed"

\* A socket that was opened does not outlive the test: its slot is free, and the
\* modem's is closed unless a fault kept AT@SOCKCLOSE from it.
Released ==
  step = "exit" /\ opened =>
    ~marked /\ (faults = 0 /\ upsets = 0 /\ ~blind => msock = "none")

\* Without faults there are two ways for the test to fail or to run wild: the server
\* is slower than recv() waits, or the first recv() does not get the greeting, the
\* whole of it and nothing else.
Apart ==
  step \in {"exit", "wild"} /\ exit # "0" /\ faults = 0 /\ upsets = 0 /\ ~blind
    => late \/ first # << "greeting" >> \/ greeted > 1

\* main() ends: every connect() of the interface returns, do_connect() gets its
\* connection in the end, although every connect() fails and whatever has been lost
\* before, and so does every call of the test.
Ends == <>(step \in {"exit", "wild"})
=============================================================================
