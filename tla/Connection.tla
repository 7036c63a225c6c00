----------------------------- MODULE Connection -----------------------------
(***************************************************************************)
(* How the application gets its connection: do_connect() of main.cpp asks  *)
(* the interface whether it is connected and, as long as it is not, has it *)
(* connect; WNC14A2AInterface::connect() starts the modem up and has the   *)
(* parser register it with the network and dial.                           *)
(*                                                                         *)
(* One thread runs.  An exchange of a command and its answer is one step;  *)
(* what a line is, is all that matters here (Sockets has the exchanges in  *)
(* full).  Exchanges whose result nothing uses and which do not change how *)
(* the modem answers (AT+CMEE, AT+GMR, AT+CMGF, AT+CSQ, AT+CPIN) are left  *)
(* out, and so are the waits.                                              *)
(*                                                                         *)
(* The modem is external.  It boots, registers and loses the network when  *)
(* it likes.  After booting it echoes commands, until ATE0; an echo comes  *)
(* where the driver expects the answer.                                    *)
(***************************************************************************)
EXTENDS Integers

CONSTANTS
  ResetTries,    \* 10, in reset()
  ConnectTries,  \* 3, in WNCATParser::connect()
  NetworkTries,  \* 5, in WNCATParser::connect()
  CounterSize,   \* 256, the values of the uint8_t retry_counter
  MaxFaults,     \* bound: commands or answers that get lost
  MaxUpsets      \* bound: reboots of the modem and losses of the network

ASSUME TriesAssumption ==
  /\ ResetTries \in Nat \ {0} /\ ConnectTries \in Nat \ {0} /\ NetworkTries \in Nat \ {0}
  /\ CounterSize \in Nat \ {0}
  /\ MaxFaults \in Nat /\ MaxUpsets \in Nat

VARIABLES
  pc,             \* the exchange that comes next, or "done"
  initialized,    \* _initialized
  response,       \* reset(): response, as far as it is compared
  tries,          \* tries of reset() or of connect()
  networkTries,   \* networkTries of connect()
  connected,      \* connected, in the last connect() of the parser
  ret,            \* retcode of the last WNC14A2AInterface::connect()
  retry_counter,  \* of do_connect()
  blind,          \* ghost: has reset() gone on with a response it had not read?
  up, echo,       \* the modem has booted; it echoes
  registered,     \* it is registered with the network
  dialled,        \* AT@SOCKDIAL has been obeyed
  address,        \* it has an IP address
  faults, upsets  \* how many there have been

driver == <<pc, initialized, response, tries, networkTries, connected, ret,
            retry_counter, blind>>
modem == <<up, echo, registered, dialled, address>>
vars == <<driver, modem, faults, upsets>>

TypeOK ==
  /\ pc \in {"poll", "alive", "at", "ate0", "creg", "dial", "done"}
  /\ initialized \in BOOLEAN
  /\ response \in {"unset", "AT", "OK"}
  /\ tries \in 0 .. ResetTries + ConnectTries
  /\ networkTries \in 0 .. NetworkTries
  /\ connected \in BOOLEAN
  /\ ret \in {"none", "OK", "NO_CONNECTION", "DEVICE_ERROR"}
  /\ retry_counter \in 0 .. CounterSize - 1
  /\ blind \in BOOLEAN
  /\ up \in BOOLEAN /\ echo \in BOOLEAN /\ registered \in BOOLEAN
  /\ dialled \in BOOLEAN /\ address \in BOOLEAN
  /\ faults \in 0 .. MaxFaults /\ upsets \in 0 .. MaxUpsets

Init ==
  /\ pc = "poll" /\ initialized = FALSE
  /\ response = "unset" /\ tries = 0 /\ networkTries = 0
  /\ connected = FALSE /\ ret = "none" /\ retry_counter = 0
  /\ blind = FALSE
  /\ up \in BOOLEAN /\ echo = TRUE
  /\ registered = FALSE /\ dialled = FALSE /\ address = FALSE
  /\ faults = 0 /\ upsets = 0

-----------------------------------------------------------------------------
(* An exchange: `line` is what scan() or rx() gets to see, "none" when its     *)
(* time passes without one, "other" when it is not what the call looks for.    *)

Trouble == faults < MaxFaults /\ faults' = faults + 1

\* The modem obeys the command if heard is true.
Ask(answer, line, heard) ==
  \/ ~up /\ line = "none" /\ ~heard /\ UNCHANGED faults
  \/ up /\ line = (IF echo THEN "echo" ELSE answer) /\ heard /\ UNCHANGED faults
  \/ up /\ line = "none" /\ Trouble

Seen == {"none", "echo", "other", "OK", "+CREG", "+CGCONTRDP"}

-----------------------------------------------------------------------------
(* do_connect() and WNC14A2AInterface::connect(). *)

\* WNC14A2AInterface::connect() begins, and in it startup() and reset().
BeginConnect == pc' = "alive" /\ tries' = 0 /\ response' = "unset" /\ UNCHANGED connected

\* is_connected() before the modem has been started.
PollUninitialized ==
  /\ pc = "poll" /\ ~initialized
  /\ BeginConnect
  /\ UNCHANGED <<blind, initialized, networkTries, ret, retry_counter, modem, faults, upsets>>

\* Mutant of HasAddress: any line is taken for an address.
HasAddressAny(line) == IF line = "none" THEN BOOLEAN ELSE {TRUE}

\* getIPAddress() compares the result of scan() with 0: after a timeout, -1, it
\* goes on with what its buffer held before.
HasAddress(line) ==
  CASE line = "+CGCONTRDP" -> {TRUE}
    [] line = "none" -> BOOLEAN
    [] OTHER -> {FALSE}

Poll ==
  /\ pc = "poll" /\ initialized
  /\ \E line \in Seen, heard \in BOOLEAN :
       /\ Ask(IF address THEN "+CGCONTRDP" ELSE "other", line, heard)
       /\ \E yes \in HasAddress(line) :
            IF yes THEN pc' = "done" /\ UNCHANGED <<tries, response, connected>>
            ELSE BeginConnect
  /\ UNCHANGED <<blind, initialized, networkTries, ret, retry_counter, modem, upsets>>

\* connect() returns an error; do_connect() counts it and goes on.  The branch
\* that compares the count with RETRY_COUNT comes after the one that is taken.
Fails(code) ==
  /\ pc' = "poll" /\ ret' = code
  /\ retry_counter' = (retry_counter + 1) % CounterSize

-----------------------------------------------------------------------------
(* startup() and reset(). *)

Started ==
  /\ initialized' = TRUE
  /\ pc' = "creg" /\ tries' = 0 /\ networkTries' = 0 /\ connected' = FALSE
  /\ UNCHANGED <<ret, retry_counter>>
NotStarted ==
  /\ initialized' = FALSE
  /\ Fails("DEVICE_ERROR")
  /\ UNCHANGED <<tries, networkTries, connected>>

\* isModemAlive(): reset() returns at once.
Alive ==
  /\ pc = "alive"
  /\ \E line \in Seen, heard \in BOOLEAN :
       /\ Ask("OK", line, heard)
       /\ IF line = "OK" THEN Started
          ELSE pc' = "at" /\ UNCHANGED <<initialized, tries, networkTries, connected, ret, retry_counter>>
  /\ UNCHANGED <<blind, response, modem, upsets>>

\* What scan("%2s", response) leaves in response.  After a timeout that is what
\* it was before, and before the first line, whatever the stack holds.
Response(line) ==
  CASE line = "echo" -> {"AT"}
    [] line = "OK" -> {"OK"}
    [] line = "none" -> {"unset", "AT", "OK"}

\* Mutant of At: a modem that answers is not told to be silent.
AtEnough ==
  /\ pc = "at"
  /\ \E line \in Seen, heard \in BOOLEAN :
       /\ Ask("OK", line, heard)
       /\ response' \in Response(line)
       /\ blind' = (blind \/ (line = "none" /\ response' # "unset"))
       /\ IF response' # "unset" THEN Started
          ELSE IF tries + 1 < ResetTries
          THEN pc' = "alive" /\ tries' = tries + 1
               /\ UNCHANGED <<initialized, networkTries, connected, ret, retry_counter>>
          ELSE NotStarted
  /\ UNCHANGED <<modem, upsets>>

\* "Emit AT looking for AT or OK (echo potentially enabled)".
At ==
  /\ pc = "at"
  /\ \E line \in Seen, heard \in BOOLEAN :
       /\ Ask("OK", line, heard)
       /\ response' \in Response(line)
       /\ blind' = (blind \/ (line = "none" /\ response' # "unset"))
       /\ IF response' # "unset"
          THEN pc' = "ate0" /\ UNCHANGED <<initialized, tries, networkTries, connected, ret, retry_counter>>
          ELSE IF tries + 1 < ResetTries
          THEN pc' = "alive" /\ tries' = tries + 1
               /\ UNCHANGED <<initialized, networkTries, connected, ret, retry_counter>>
          ELSE NotStarted
  /\ UNCHANGED <<modem, upsets>>

\* ATE0.  Of a response that scan() has not written, "OK" compares equal.
Ate0 ==
  /\ pc = "ate0"
  /\ \E line \in Seen, heard \in BOOLEAN :
       /\ Ask("OK", line, heard)
       /\ echo' = (echo /\ ~heard)
       /\ IF line \in {"echo", "OK"} \/ response = "OK" THEN Started ELSE NotStarted
  /\ UNCHANGED <<blind, response, up, registered, dialled, address, upsets>>

-----------------------------------------------------------------------------
(* WNCATParser::connect(). *)

\* Mutant of NextTry: the network is asked for as long as it is not there.
NextTryForever == pc' = "creg" /\ UNCHANGED <<tries, networkTries, ret, retry_counter>>

\* Not registered: the inner loop, the outer loop, and the end.
NextTry ==
  IF networkTries + 1 < NetworkTries
  THEN pc' = "creg" /\ networkTries' = networkTries + 1 /\ UNCHANGED <<tries, ret, retry_counter>>
  ELSE IF tries + 1 < ConnectTries
  THEN pc' = "creg" /\ networkTries' = 0 /\ tries' = tries + 1 /\ UNCHANGED <<ret, retry_counter>>
  ELSE Fails("NO_CONNECTION") /\ UNCHANGED <<tries, networkTries>>

Creg ==
  /\ pc = "creg"
  /\ \E line \in Seen, heard \in BOOLEAN :
       /\ Ask(IF registered THEN "+CREG" ELSE "other", line, heard)
       /\ connected' = (line = "+CREG")
       /\ IF connected' THEN pc' = "dial" /\ UNCHANGED <<tries, networkTries, ret, retry_counter>>
          ELSE NextTry
  /\ UNCHANGED <<blind, initialized, response, modem, upsets>>

\* AT%PDNSET, AT@INTERNET and AT@SOCKDIAL; what comes back does not matter.
\* connect() returns connected && attached, and attached is never set.
Dial ==
  /\ pc = "dial"
  /\ \E line \in Seen, heard \in BOOLEAN :
       /\ Ask("OK", line, heard)
       /\ dialled' = (dialled \/ (heard /\ registered))
  /\ Fails("NO_CONNECTION")
  /\ UNCHANGED <<blind, initialized, response, tries, networkTries, connected, up, echo, registered, address, upsets>>

-----------------------------------------------------------------------------
(* The modem.  Nothing is said of it once do_connect() has returned. *)

Upset == upsets < MaxUpsets /\ upsets' = upsets + 1

Boot ==
  /\ pc # "done" /\ ~up
  /\ up' = TRUE
  /\ UNCHANGED <<driver, echo, registered, dialled, address, faults, upsets>>

Register ==
  /\ pc # "done" /\ up /\ ~registered
  /\ registered' = TRUE
  /\ UNCHANGED <<driver, up, echo, dialled, address, faults, upsets>>

GetAddress ==
  /\ pc # "done" /\ up /\ registered /\ dialled /\ ~address
  /\ address' = TRUE
  /\ UNCHANGED <<driver, up, echo, registered, dialled, faults, upsets>>

LoseNetwork ==
  /\ pc # "done" /\ registered /\ Upset
  /\ registered' = FALSE /\ dialled' = FALSE /\ address' = FALSE
  /\ UNCHANGED <<driver, up, echo, faults>>

Reboot ==
  /\ pc # "done" /\ up /\ Upset
  /\ up' = FALSE /\ echo' = TRUE
  /\ registered' = FALSE /\ dialled' = FALSE /\ address' = FALSE
  /\ UNCHANGED <<driver, faults>>

Driver == PollUninitialized \/ Poll \/ Alive \/ At \/ Ate0 \/ Creg \/ Dial

Next == Driver \/ Boot \/ Register \/ GetAddress \/ LoseNetwork \/ Reboot

Spec == Init /\ [][Next]_vars

-----------------------------------------------------------------------------
(* Properties. *)

\* Whatever gets lost, a modem that does not reboot echoes no more once it has
\* been started, so that no later exchange reads an echo for its answer; unless
\* reset() took for an answer what it had not read.
EchoOff == ~blind /\ upsets = 0 /\ initialized => ~echo

\* isConnected() is "true only if the chip has an IP address": when no answer
\* is lost, do_connect() returns with an address, although reset() and
\* getIPAddress() go on with what a scan() that timed out has not written.
Established == pc = "done" /\ ~blind /\ faults = 0 /\ upsets = 0 => address
=============================================================================
