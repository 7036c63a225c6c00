------------------------------ MODULE Receive ------------------------------
(***************************************************************************)
(* The receive interrupt as a whole: rxIrq() puts a character into the     *)
(* ring and then calls what the parser has attached, event() of the        *)
(* interface, with the thread anywhere in a reading call or between the    *)
(* two writes of socket_attach().  One thread reads, opens and closes.     *)
(***************************************************************************)
EXTENDS RxSerial, SocketEvents

vars == <<rxvars, evvars>>

Init == RxInit /\ EvInit

\* rxIrq(): "load them into a buffer, trigger callback if necessary".
RxIrq(c) == Receive(c) /\ Event

Thread ==
  \/ Work /\ UNCHANGED evvars
  \/ writing = Nobody /\ Calls /\ UNCHANGED evvars
  \/ pc = "idle" /\ EvThread /\ UNCHANGED rxvars

Next ==
  \/ \E c \in Chars : RxIrq(c)
  \/ Thread
  \/ (Expire \/ Tick) /\ UNCHANGED evvars

Spec == Init /\ [][Next]_vars

\* A call that has begun goes on, time passes and the kernel ticks; nothing makes
\* the modem send or the program call.
FairSpec ==
  /\ Spec
  /\ WF_vars(Work /\ UNCHANGED evvars)
  /\ WF_vars(Expire /\ UNCHANGED evvars) /\ WF_vars(Tick /\ UNCHANGED evvars)

TypeOK == RxTypeOK /\ EvTypeOK
=============================================================================
