-------------------------- MODULE ApplicationProofs --------------------------
(***************************************************************************)
(* Theorems about main() as a whole and, first, about the connection that  *)
(* it begins with (Connection), for any number of tries, faults, upsets    *)
(* and parts of the server's greeting.                                     *)
(*                                                                         *)
(* That a started modem does not echo depends on what reset() has read: an *)
(* "OK" to a plain AT says that the echo is off already, an "AT" that the  *)
(* modem will hear ATE0.  What the connection promises holds on while the  *)
(* test runs; main() reports a success only after one, blames no other     *)
(* cause than the two that there are, and leaves no socket behind.         *)
(***************************************************************************)
EXTENDS Application, TLAPS

\* What reset() knows of the echo when it comes to ATE0.
EchoKnown == pc = "ate0" => response # "unset" /\ (response = "OK" => ~echo)
EchoInv == ~blind /\ upsets = 0 => (initialized => ~echo) /\ EchoKnown

LEMMA InitType == Init => TypeOK
<1>1. 0 \in 0 .. ResetTries + ConnectTries /\ 0 \in 0 .. NetworkTries /\ 0 \in 0 .. CounterSize - 1
  BY TriesAssumption
<1>2. 0 \in 0 .. MaxFaults /\ 0 \in 0 .. MaxUpsets
  BY TriesAssumption
<1> QED
  BY <1>1, <1>2, Zenon DEF Init, TypeOK

LEMMA CounterType ==
  ASSUME TypeOK
  PROVE  (retry_counter + 1) % CounterSize \in 0 .. CounterSize - 1
BY TriesAssumption DEF TypeOK

LEMMA NextType == TypeOK /\ [Next]_vars => TypeOK'
<1> SUFFICES ASSUME TypeOK, [Next]_vars PROVE TypeOK'
  OBVIOUS
<1>c. (retry_counter + 1) % CounterSize \in 0 .. CounterSize - 1
  BY CounterType
<1>f. ASSUME NEW answer, NEW line, NEW heard, Ask(answer, line, heard)
      PROVE  faults' \in 0 .. MaxFaults
  BY <1>f, TriesAssumption DEF Ask, Trouble, TypeOK
<1>1. CASE PollUninitialized
  BY <1>1, TriesAssumption DEF PollUninitialized, BeginConnect, TypeOK, modem
<1>2. CASE Poll
  <2>1. PICK line \in Seen, heard \in BOOLEAN :
          /\ Ask(IF address THEN "+CGCONTRDP" ELSE "other", line, heard)
          /\ \E yes \in HasAddress(line) :
               IF yes THEN pc' = "done" /\ UNCHANGED <<tries, response, connected>>
               ELSE BeginConnect
    BY <1>2 DEF Poll
  <2>2. faults' \in 0 .. MaxFaults
    BY <2>1, <1>f
  <2> QED
    BY <1>2, <2>1, <2>2, TriesAssumption DEF Poll, BeginConnect, TypeOK, modem
<1>3. CASE Alive
  <2>1. PICK line \in Seen, heard \in BOOLEAN :
          /\ Ask("OK", line, heard)
          /\ IF line = "OK" THEN Started
             ELSE pc' = "at" /\ UNCHANGED <<initialized, tries, networkTries, connected, ret, retry_counter>>
    BY <1>3 DEF Alive
  <2>2. faults' \in 0 .. MaxFaults
    BY <2>1, <1>f
  <2> QED
    <3>1. CASE Started
      <4>1. 0 \in 0 .. ResetTries + ConnectTries /\ 0 \in 0 .. NetworkTries
        BY TriesAssumption
      <4> QED
        BY <1>3, <2>2, <3>1, <4>1, Zenon DEF Alive, Started, TypeOK, modem
    <3>2. CASE ~Started
      BY <1>3, <2>1, <2>2, <3>2 DEF Alive, TypeOK, modem
    <3> QED
      BY <3>1, <3>2
<1>4. CASE At
  <2>1. PICK line \in Seen, heard \in BOOLEAN :
          /\ Ask("OK", line, heard)
          /\ response' \in Response(line)
          /\ blind' = (blind \/ (line = "none" /\ response' # "unset"))
          /\ IF response' # "unset"
             THEN pc' = "ate0" /\ UNCHANGED <<initialized, tries, networkTries, connected, ret, retry_counter>>
             ELSE IF tries + 1 < ResetTries
             THEN pc' = "alive" /\ tries' = tries + 1
                  /\ UNCHANGED <<initialized, networkTries, connected, ret, retry_counter>>
             ELSE NotStarted
    BY <1>4 DEF At
  <2>2. faults' \in 0 .. MaxFaults
    BY <2>1, <1>f
  <2>3. line \in {"none", "echo", "OK"}
    BY <2>1 DEF Ask
  <2>4. response' \in {"unset", "AT", "OK"}
    BY <2>1, <2>3 DEF Response
  <2>5. blind' \in BOOLEAN
    BY <2>1
  <2>6. UNCHANGED modem /\ upsets' = upsets
    BY <1>4 DEF At
  <2>7. CASE response' # "unset"
    BY <2>1, <2>2, <2>4, <2>5, <2>6, <2>7 DEF TypeOK, modem
  <2>8. CASE response' = "unset" /\ tries + 1 < ResetTries
    <3>1. tries' \in 0 .. ResetTries + ConnectTries
      BY <2>1, <2>8, TriesAssumption DEF TypeOK
    <3> QED
      BY <2>1, <2>2, <2>4, <2>5, <2>6, <2>8, <3>1 DEF TypeOK, modem
  <2>9. CASE response' = "unset" /\ ~(tries + 1 < ResetTries)
    BY <2>1, <2>2, <2>4, <2>5, <2>6, <2>9, <1>c DEF NotStarted, Fails, TypeOK, modem
  <2> QED
    BY <2>7, <2>8, <2>9
<1>5. CASE Ate0
  <2>1. PICK line \in Seen, heard \in BOOLEAN :
          /\ Ask("OK", line, heard)
          /\ echo' = (echo /\ ~heard)
          /\ IF line \in {"echo", "OK"} \/ response = "OK" THEN Started ELSE NotStarted
    BY <1>5 DEF Ate0
  <2>2. faults' \in 0 .. MaxFaults
    BY <2>1, <1>f
  <2>3. echo' \in BOOLEAN
    BY <2>1
  <2>4. CASE Started
    <3>1. 0 \in 0 .. ResetTries + ConnectTries /\ 0 \in 0 .. NetworkTries
      BY TriesAssumption
    <3> QED
      BY <1>5, <2>2, <2>3, <2>4, <3>1, Zenon DEF Ate0, Started, TypeOK
  <2>5. CASE NotStarted
    BY <1>5, <2>2, <2>3, <2>5, <1>c DEF Ate0, NotStarted, Fails, TypeOK
  <2> QED
    BY <2>1, <2>4, <2>5
<1>6. CASE Creg
  <2>1. PICK line \in Seen, heard \in BOOLEAN :
          /\ Ask(IF registered THEN "+CREG" ELSE "other", line, heard)
          /\ connected' = (line = "+CREG")
          /\ IF connected' THEN pc' = "dial" /\ UNCHANGED <<tries, networkTries, ret, retry_counter>>
             ELSE NextTry
    BY <1>6 DEF Creg
  <2>2. faults' \in 0 .. MaxFaults
    BY <2>1, <1>f
  <2>3. connected' \in BOOLEAN
    BY <2>1
  <2>4. CASE connected'
    BY <1>6, <2>1, <2>2, <2>3, <2>4 DEF Creg, TypeOK, modem
  <2>5. CASE NextTry
    <3>1. /\ pc' \in {"creg", "poll"}
          /\ tries' \in 0 .. ResetTries + ConnectTries
          /\ networkTries' \in 0 .. NetworkTries
          /\ ret' \in {"none", "OK", "NO_CONNECTION", "DEVICE_ERROR"}
          /\ retry_counter' \in 0 .. CounterSize - 1
      BY <2>5, <1>c, TriesAssumption DEF NextTry, Fails, TypeOK
    <3> QED
      BY <1>6, <2>2, <2>3, <3>1 DEF Creg, TypeOK, modem
  <2> QED
    BY <2>1, <2>4, <2>5
<1>7. CASE Dial
  <2>1. PICK line \in Seen, heard \in BOOLEAN :
          Ask("OK", line, heard) /\ dialled' = (dialled \/ (heard /\ registered))
    BY <1>7 DEF Dial
  <2>2. faults' \in 0 .. MaxFaults
    BY <2>1, <1>f
  <2>3. dialled' \in BOOLEAN
    BY <2>1
  <2> QED
    BY <1>7, <2>2, <2>3, <1>c DEF Dial, Fails, TypeOK
<1>8. CASE Boot \/ Register \/ GetAddress
  <2>1. CASE Boot
    <3>1. up' \in BOOLEAN
      BY <2>1 DEF Boot
    <3>2. UNCHANGED <<driver, echo, registered, dialled, address, faults, upsets>>
      BY <2>1 DEF Boot
    <3> QED
      BY <3>1, <3>2 DEF TypeOK, driver
  <2>2. CASE Register
    <3>1. registered' \in BOOLEAN
      BY <2>2 DEF Register
    <3>2. UNCHANGED <<driver, up, echo, dialled, address, faults, upsets>>
      BY <2>2 DEF Register
    <3> QED
      BY <3>1, <3>2 DEF TypeOK, driver
  <2>3. CASE GetAddress
    <3>1. address' \in BOOLEAN
      BY <2>3 DEF GetAddress
    <3>2. UNCHANGED <<driver, up, echo, registered, dialled, faults, upsets>>
      BY <2>3 DEF GetAddress
    <3> QED
      BY <3>1, <3>2 DEF TypeOK, driver
  <2> QED
    BY <1>8, <2>1, <2>2, <2>3
<1>9. CASE LoseNetwork \/ Reboot
  <2>1. upsets' \in 0 .. MaxUpsets
    BY <1>9, TriesAssumption DEF LoseNetwork, Reboot, Upset, TypeOK
  <2> QED
    BY <1>9, <2>1, Zenon DEF LoseNetwork, Reboot, TypeOK, driver
<1>10. CASE UNCHANGED vars
  BY <1>10 DEF vars, driver, modem, TypeOK
<1> QED
  BY <1>1, <1>2, <1>3, <1>4, <1>5, <1>6, <1>7, <1>8, <1>9, <1>10 DEF Next, Driver

\* Every variable keeps its type: no loop runs past its bound and the counter of
\* do_connect() wraps.
THEOREM ConnectionTyping == Spec => []TypeOK
BY InitType, NextType, PTL DEF Spec

LEMMA InitEcho == Init => EchoInv
BY DEF Init, EchoInv, EchoKnown

LEMMA NextEcho == TypeOK /\ EchoInv /\ [Next]_vars => EchoInv'
<1> SUFFICES ASSUME TypeOK, EchoInv, [Next]_vars, ~blind', upsets' = 0
             PROVE  (initialized' => ~echo') /\ EchoKnown'
  BY DEF EchoInv
<1>1. CASE PollUninitialized
  BY <1>1 DEF PollUninitialized, BeginConnect, EchoInv, EchoKnown, modem
<1>2. CASE Poll
  BY <1>2 DEF Poll, BeginConnect, EchoInv, EchoKnown, modem
<1>3. CASE Alive
  <2>1. PICK line \in Seen, heard \in BOOLEAN :
          /\ Ask("OK", line, heard)
          /\ IF line = "OK" THEN Started
             ELSE pc' = "at" /\ UNCHANGED <<initialized, tries, networkTries, connected, ret, retry_counter>>
    BY <1>3 DEF Alive
  <2>2. line = "OK" => ~echo
    BY <2>1 DEF Ask
  <2> QED
    BY <1>3, <2>1, <2>2 DEF Alive, Started, EchoInv, EchoKnown, modem
<1>4. CASE At
  <2>1. PICK line \in Seen, heard \in BOOLEAN :
          /\ Ask("OK", line, heard)
          /\ response' \in Response(line)
          /\ blind' = (blind \/ (line = "none" /\ response' # "unset"))
          /\ IF response' # "unset"
             THEN pc' = "ate0" /\ UNCHANGED <<initialized, tries, networkTries, connected, ret, retry_counter>>
             ELSE IF tries + 1 < ResetTries
             THEN pc' = "alive" /\ tries' = tries + 1
                  /\ UNCHANGED <<initialized, networkTries, connected, ret, retry_counter>>
             ELSE NotStarted
    BY <1>4 DEF At
  <2>2. line \in {"none", "echo", "OK"} /\ (line = "OK" => ~echo)
    BY <2>1 DEF Ask
  <2>3. ~blind /\ UNCHANGED modem /\ upsets = 0
    BY <1>4, <2>1 DEF At
  <2>4. response' = "OK" => ~echo
    BY <2>1, <2>2 DEF Response
  <2> QED
    BY <2>1, <2>3, <2>4 DEF NotStarted, Fails, EchoInv, EchoKnown, modem
<1>5. CASE Ate0
  <2>1. PICK line \in Seen, heard \in BOOLEAN :
          /\ Ask("OK", line, heard)
          /\ echo' = (echo /\ ~heard)
          /\ IF line \in {"echo", "OK"} \/ response = "OK" THEN Started ELSE NotStarted
    BY <1>5 DEF Ate0
  <2>2. line \in {"echo", "OK"} => heard
    BY <2>1 DEF Ask
  <2>3. response = "OK" => ~echo
    BY <1>5 DEF Ate0, EchoInv, EchoKnown
  <2> QED
    BY <1>5, <2>1, <2>2, <2>3 DEF Ate0, Started, NotStarted, Fails, EchoKnown
<1>6. CASE Creg
  BY <1>6 DEF Creg, NextTry, Fails, EchoInv, EchoKnown, modem
<1>7. CASE Dial
  BY <1>7 DEF Dial, Fails, EchoInv, EchoKnown
<1>8. CASE Boot \/ Register \/ GetAddress
  BY <1>8 DEF Boot, Register, GetAddress, EchoInv, EchoKnown, driver
<1>9. CASE LoseNetwork \/ Reboot
  BY <1>9, TriesAssumption DEF LoseNetwork, Reboot, Upset, TypeOK
<1>10. CASE UNCHANGED vars
  BY <1>10 DEF vars, driver, modem, EchoInv, EchoKnown
<1> QED
  BY <1>1, <1>2, <1>3, <1>4, <1>5, <1>6, <1>7, <1>8, <1>9, <1>10 DEF Next, Driver

\* A modem that does not reboot has its echo off once reset() has succeeded.
THEOREM ConnectionEcho == Spec => []EchoOff
<1>1. EchoInv => EchoOff
  BY DEF EchoInv, EchoOff
<1> QED
  BY <1>1, InitType, NextType, InitEcho, NextEcho, PTL DEF Spec

\* Without lost answers and reboots a started modem is up, and so is one that
\* has answered the AT of reset(); what getIPAddress() reads is then an answer.
UpKnown ==
  ~blind /\ faults = 0 /\ upsets = 0 => (initialized \/ pc = "ate0" => up)
EstInv == UpKnown /\ Established

LEMMA InitEst == Init => EstInv
BY DEF Init, EstInv, UpKnown, Established

\* An exchange without a fault has seen an answer, unless the modem is not up.
LEMMA AskUp ==
  ASSUME TypeOK, NEW answer, NEW line, NEW heard, Ask(answer, line, heard), faults' = 0
  PROVE  /\ faults = 0
         /\ up => line = IF echo THEN "echo" ELSE answer
         /\ ~up => line = "none"
BY TriesAssumption DEF Ask, Trouble, TypeOK

LEMMA NextEst == TypeOK /\ EstInv /\ [Next]_vars => EstInv'
<1> SUFFICES ASSUME TypeOK, EstInv, [Next]_vars, ~blind', faults' = 0, upsets' = 0
             PROVE  (initialized' \/ pc' = "ate0" => up') /\ (pc' = "done" => address')
  BY DEF EstInv, UpKnown, Established
<1>1. CASE PollUninitialized
  BY <1>1 DEF PollUninitialized, BeginConnect, modem
<1>2. CASE Poll
  <2>1. PICK line \in Seen, heard \in BOOLEAN :
          /\ Ask(IF address THEN "+CGCONTRDP" ELSE "other", line, heard)
          /\ \E yes \in HasAddress(line) :
               IF yes THEN pc' = "done" /\ UNCHANGED <<tries, response, connected>>
               ELSE BeginConnect
    BY <1>2 DEF Poll
  <2>2. /\ faults = 0
        /\ up => line = IF echo THEN "echo" ELSE IF address THEN "+CGCONTRDP" ELSE "other"
    BY <2>1, AskUp
  <2>3. ~blind /\ upsets = 0 /\ initialized /\ initialized' /\ UNCHANGED modem
    BY <1>2 DEF Poll
  <2>4. up
    BY <2>2, <2>3 DEF EstInv, UpKnown
  <2>5. CASE line = "+CGCONTRDP"
    <3>1. address
      BY <2>2, <2>4, <2>5
    <3> QED
      BY <2>3, <2>4, <3>1 DEF modem
  <2>6. CASE line # "+CGCONTRDP"
    <3>1. line # "none"
      BY <2>2, <2>4
    <3>2. HasAddress(line) = {FALSE}
      BY <2>6, <3>1 DEF HasAddress
    <3>3. pc' = "alive"
      BY <2>1, <3>2 DEF BeginConnect
    <3> QED
      BY <2>3, <2>4, <3>3 DEF modem
  <2> QED
    BY <2>5, <2>6
<1>3. CASE Alive
  <2>1. PICK line \in Seen, heard \in BOOLEAN :
          /\ Ask("OK", line, heard)
          /\ IF line = "OK" THEN Started
             ELSE pc' = "at" /\ UNCHANGED <<initialized, tries, networkTries, connected, ret, retry_counter>>
    BY <1>3 DEF Alive
  <2>2. faults = 0 /\ (~up => line = "none")
    BY <2>1, AskUp
  <2>3. ~blind /\ upsets = 0 /\ UNCHANGED modem
    BY <1>3 DEF Alive
  <2>4. CASE line = "OK"
    BY <2>1, <2>2, <2>3, <2>4 DEF Started, modem
  <2>5. CASE line # "OK"
    BY <2>1, <2>2, <2>3, <2>5 DEF EstInv, UpKnown, modem
  <2> QED
    BY <2>4, <2>5
<1>4. CASE At
  <2>1. PICK line \in Seen, heard \in BOOLEAN :
          /\ Ask("OK", line, heard)
          /\ response' \in Response(line)
          /\ blind' = (blind \/ (line = "none" /\ response' # "unset"))
          /\ IF response' # "unset"
             THEN pc' = "ate0" /\ UNCHANGED <<initialized, tries, networkTries, connected, ret, retry_counter>>
             ELSE IF tries + 1 < ResetTries
             THEN pc' = "alive" /\ tries' = tries + 1
                  /\ UNCHANGED <<initialized, networkTries, connected, ret, retry_counter>>
             ELSE NotStarted
    BY <1>4 DEF At
  <2>2. faults = 0 /\ (~up => line = "none")
    BY <2>1, AskUp
  <2>3. ~blind /\ upsets = 0 /\ UNCHANGED modem
    BY <1>4, <2>1 DEF At
  <2>4. response' # "unset" => up
    BY <2>1, <2>2
  <2>5. pc' \in {"ate0", "alive", "poll"} /\ (pc' = "ate0" => response' # "unset") /\ (initialized' => initialized)
    BY <2>1 DEF NotStarted, Fails
  <2> QED
    BY <2>2, <2>3, <2>4, <2>5 DEF EstInv, UpKnown, modem
<1>5. CASE Ate0
  <2>1. PICK line \in Seen, heard \in BOOLEAN :
          /\ Ask("OK", line, heard)
          /\ echo' = (echo /\ ~heard)
          /\ IF line \in {"echo", "OK"} \/ response = "OK" THEN Started ELSE NotStarted
    BY <1>5 DEF Ate0
  <2>2. faults = 0
    BY <2>1, AskUp
  <2>3. ~blind /\ upsets = 0 /\ pc = "ate0" /\ up' = up
    BY <1>5 DEF Ate0
  <2>4. pc' # "done"
    BY <2>1 DEF Started, NotStarted, Fails
  <2> QED
    BY <2>2, <2>3, <2>4 DEF EstInv, UpKnown
<1>6. CASE Creg
  <2>1. PICK line \in Seen, heard \in BOOLEAN :
          /\ Ask(IF registered THEN "+CREG" ELSE "other", line, heard)
          /\ connected' = (line = "+CREG")
          /\ IF connected' THEN pc' = "dial" /\ UNCHANGED <<tries, networkTries, ret, retry_counter>>
             ELSE NextTry
    BY <1>6 DEF Creg
  <2>2. faults = 0
    BY <2>1, AskUp
  <2>3. pc' \in {"dial", "creg", "poll"}
    BY <2>1 DEF NextTry, Fails
  <2> QED
    BY <1>6, <2>2, <2>3 DEF Creg, EstInv, UpKnown, modem
<1>7. CASE Dial
  <2>1. PICK line \in Seen, heard \in BOOLEAN : Ask("OK", line, heard)
    BY <1>7 DEF Dial
  <2>2. faults = 0
    BY <2>1, AskUp
  <2> QED
    BY <1>7, <2>2 DEF Dial, Fails, EstInv, UpKnown
<1>8. CASE Boot \/ Register \/ GetAddress
  BY <1>8 DEF Boot, Register, GetAddress, EstInv, UpKnown, driver
<1>9. CASE LoseNetwork \/ Reboot
  BY <1>9, TriesAssumption DEF LoseNetwork, Reboot, Upset, TypeOK
<1>10. CASE UNCHANGED vars
  BY <1>10 DEF vars, driver, modem, EstInv, UpKnown, Established
<1> QED
  BY <1>1, <1>2, <1>3, <1>4, <1>5, <1>6, <1>7, <1>8, <1>9, <1>10 DEF Next, Driver

\* When no answer is lost and the modem does not reboot, do_connect() returns
\* only with an address.
THEOREM ConnectionEstablished == Spec => []Established
<1>1. EstInv => Established
  BY DEF EstInv
<1> QED
  BY <1>1, InitType, NextType, InitEst, NextEst, PTL DEF Spec

-----------------------------------------------------------------------------
(* The test. *)

Clean == faults = 0 /\ upsets = 0 /\ ~blind

ConnInv == TypeOK /\ EchoInv /\ EstInv /\ (pc = "done" => initialized)

(* The steps of the test leave the connection alone. *)
LEMMA Held ==
  ASSUME ConnInv, pc = "done", UNCHANGED <<driver, modem, upsets>>,
         faults' \in 0 .. MaxFaults, faults' = 0 => faults = 0
  PROVE  ConnInv'
  <1>1. UNCHANGED <<pc, initialized, response, tries, networkTries, connected, ret,
                    retry_counter, blind, up, echo, registered, dialled, address, upsets>>
    BY DEF driver, modem
  <1>2. TypeOK' BY <1>1 DEF ConnInv, TypeOK
  <1>3. EchoInv' BY <1>1, Zenon DEF ConnInv, EchoInv, EchoKnown
  <1>4. EstInv' BY <1>1 DEF ConnInv, EstInv, UpKnown, Established
  <1>. QED BY <1>1, <1>2, <1>3, <1>4 DEF ConnInv

LEMMA AskFaults ==
  ASSUME TypeOK, NEW answer, NEW line, NEW heard, Ask(answer, line, heard)
  PROVE  faults' \in 0 .. MaxFaults /\ (faults' = 0 => faults = 0)
  BY TriesAssumption DEF Ask, Trouble, TypeOK

(* An exchange of the test; without faults it is heard and answered. *)
LEMMA Exchanged ==
  ASSUME ConnInv, pc = "done", NEW ok \in BOOLEAN, NEW heard \in BOOLEAN, Exchange(ok, heard)
  PROVE  ConnInv' /\ (Clean' => Clean /\ ok /\ heard)
  <1>1. PICK line \in Seen : Ask("OK", line, heard) /\ ok = (line = "OK")
    BY Zenon DEF Exchange
  <1>2. UNCHANGED <<driver, modem, upsets>> BY DEF Exchange, Quiet
  <1>3. faults' \in 0 .. MaxFaults /\ (faults' = 0 => faults = 0)
    BY <1>1, AskFaults DEF ConnInv
  <1>4. ConnInv' BY <1>2, <1>3, Held
  <1>5. ASSUME Clean' PROVE Clean /\ ok /\ heard
    <2>1. Clean BY <1>2, <1>3, <1>5 DEF Clean, driver
    <2>2. up /\ ~echo
      BY <2>1 DEF ConnInv, EchoInv, EstInv, UpKnown, Clean
    <2>3. ~(faults' = faults + 1)
      BY <1>5, <2>1 DEF Clean
    <2>4. line = "OK" /\ heard
      BY <1>1, <2>2, <2>3, Zenon DEF Ask, Trouble
    <2>. QED BY <1>1, <2>1, <2>4, Zenon
  <1>. QED BY <1>4, <1>5

-----------------------------------------------------------------------------
(* What the test relies on, from call to call. *)

Echoes ==
  /\ stock \in Seq({"greeting", "echo"})
  /\ asked # "echoed" => \A i \in 1 .. Len(stock) : stock[i] = "greeting"
  /\ step \in {"connect", "open", "resolve", "join", "send"} => asked = "no"
  /\ step # "exit" => exit = "none"
  /\ verdict = "ok" => asked = "echoed" /\ step \in {"close", "return", "exit"}
  /\ exit = "0" => verdict = "ok"

Ended ==
  step \in {"return", "exit"} /\ opened => ~marked /\ (Clean => msock = "none")

TestInv == (step # "connect" => pc = "done") /\ Echoes /\ Ended

Inv == ConnInv /\ TestInv

(* A recv() may take all that is there. *)
LEMMA Emptied ==
  ASSUME stock' = << >>
  PROVE  stock' \in Seq({"greeting", "echo"}) /\ \A i \in 1 .. Len(stock') : stock'[i] = "greeting"
  <1>1. Len(stock') = 0 OBVIOUS
  <1>2. 1 .. Len(stock') = {} BY <1>1
  <1>. QED BY <1>2

LEMMA TestStep ==
  ASSUME Inv, Test
  PROVE  Inv'
  <1>0. ConnInv /\ Echoes /\ Ended /\ TypeOK /\ (step # "connect" => pc = "done")
    BY DEF Inv, TestInv, ConnInv
  <1>1. CASE Connected
    <2>1. /\ 0 \in 0 .. ResetTries + ConnectTries /\ 0 \in 0 .. NetworkTries
          /\ 0 \in 0 .. CounterSize - 1
      BY TriesAssumption
    <2>2. connected' \in BOOLEAN BY <1>1, Zenon DEF Connected
    <2>3. TypeOK' BY <1>0, <1>1, <2>1, <2>2 DEF Connected, TypeOK, modem
    <2>4. UNCHANGED <<pc, initialized, blind, up, echo, registered, dialled, address, faults, upsets>>
      BY <1>1 DEF Connected, modem
    <2>5. EchoInv' BY <1>0, <1>1, <2>4 DEF Connected, ConnInv, EchoInv, EchoKnown
    <2>6. EstInv' BY <1>0, <2>4 DEF ConnInv, EstInv, UpKnown, Established
    <2>7. ConnInv' BY <1>0, <2>3, <2>4, <2>5, <2>6 DEF ConnInv
    <2>8. Echoes' BY <1>0, <1>1 DEF Connected, Echoes, peer
    <2>9. Ended' /\ pc' = "done" BY <1>1 DEF Connected, Ended
    <2>. QED BY <2>7, <2>8, <2>9 DEF Inv, TestInv
  <1>2. CASE Open
    <2>0. pc = "done" BY <1>0, <1>2 DEF Open
    <2>1. PICK ok \in BOOLEAN, heard \in BOOLEAN :
            /\ Exchange(ok, heard)
            /\ msock' = IF heard THEN "created" ELSE msock
            /\ opened' = ok
            /\ IF ok THEN step' = "resolve" /\ UNCHANGED verdict ELSE Fail("return")
      BY <1>2, Zenon DEF Open
    <2>2. ConnInv' BY <1>0, <2>0, <2>1, Exchanged
    <2>3. pc' = pc BY <2>1 DEF Exchange, Quiet, driver
    <2>4. Echoes'
      <3>1. CASE ok BY <1>0, <1>2, <2>1, <3>1 DEF Open, Echoes, peer
      <3>2. CASE ~ok BY <1>0, <1>2, <2>1, <3>2 DEF Open, Echoes, peer, Fail
      <3>. QED BY <3>1, <3>2
    <2>5. Ended'
      <3>1. CASE ok BY <2>1, <3>1 DEF Ended
      <3>2. CASE ~ok
        <4>1. ~opened' BY <2>1, <3>2, Zenon
        <4>. QED BY <4>1 DEF Ended
      <3>. QED BY <3>1, <3>2
    <2>. QED BY <2>0, <2>2, <2>3, <2>4, <2>5 DEF Inv, TestInv
  <1>3. CASE Resolve
    <2>0. pc = "done" BY <1>0, <1>3 DEF Resolve
    <2>1. PICK ok \in BOOLEAN, heard \in BOOLEAN :
            /\ Exchange(ok, heard)
            /\ IF ok THEN step' = "join" ELSE step' \in {"join", "wild"}
      BY <1>3, Zenon DEF Resolve
    <2>2. ConnInv' /\ pc' = pc
      BY <1>0, <2>0, <2>1, Exchanged DEF Exchange, Quiet, driver
    <2>3. step' \in {"join", "wild"} BY <2>1
    <2>4. Echoes' BY <1>0, <1>3, <2>3 DEF Resolve, Echoes, peer
    <2>. QED BY <2>0, <2>2, <2>3, <2>4 DEF Inv, TestInv, Ended
  <1>4. CASE Join
    <2>0. pc = "done" BY <1>0, <1>4 DEF Join
    <2>1. PICK ok \in BOOLEAN, heard \in BOOLEAN :
            /\ Exchange(ok, heard)
            /\ IF ok THEN step' = "send" /\ UNCHANGED verdict ELSE Fail("close")
      BY <1>4, Zenon DEF Join
    <2>2. ConnInv' /\ pc' = pc
      BY <1>0, <2>0, <2>1, Exchanged DEF Exchange, Quiet, driver
    <2>3. \/ step' = "send" /\ UNCHANGED verdict
          \/ step' = "close" /\ verdict' = "failed"
      BY <2>1 DEF Fail
    <2>4. Echoes' BY <1>0, <1>4, <2>3 DEF Join, Echoes, peer
    <2>5. Ended' BY <2>3 DEF Ended
    <2>. QED BY <2>0, <2>2, <2>4, <2>5 DEF Inv, TestInv
  <1>5. ASSUME Quiet, faults' = faults \/ Trouble, pc = "done" PROVE ConnInv' /\ pc' = "done"
    <2>1. faults' \in 0 .. MaxFaults /\ (faults' = 0 => faults = 0)
      BY <1>0, <1>5, TriesAssumption DEF Trouble, TypeOK
    <2>. QED BY <1>0, <1>5, <2>1, Held DEF Quiet, driver
  <1>6. CASE JoinNowhere
    <2>0. pc = "done" BY <1>0, <1>6 DEF JoinNowhere
    <2>1. ConnInv' /\ pc' = "done" BY <1>5, <1>6, <2>0 DEF JoinNowhere
    <2>2. Echoes' BY <1>0, <1>6 DEF JoinNowhere, Fail, Echoes, peer
    <2>3. Ended' BY <1>6 DEF JoinNowhere, Fail, Ended
    <2>. QED BY <2>1, <2>2, <2>3 DEF Inv, TestInv
  <1>7. CASE SendTest
    <2>0. pc = "done" BY <1>0, <1>7 DEF SendTest
    <2>1. PICK ok \in BOOLEAN, heard \in BOOLEAN :
            /\ Exchange(ok, heard)
            /\ asked' = IF heard /\ msock = "connected" THEN "yes" ELSE asked
      BY <1>7, Zenon DEF SendTest
    <2>2. ConnInv' /\ pc' = pc
      BY <1>0, <2>0, <2>1, Exchanged DEF Exchange, Quiet, driver
    <2>3. asked = "no" /\ asked' \in {"no", "yes"} BY <1>0, <1>7, <2>1 DEF SendTest, Echoes
    <2>4. Echoes' BY <1>0, <1>7, <2>3 DEF SendTest, Echoes
    <2>5. Ended' BY <1>7 DEF SendTest, Ended
    <2>. QED BY <2>0, <2>2, <2>4, <2>5 DEF Inv, TestInv
  <1>8. CASE Recv \/ RecvWild
    <2>0. pc = "done" BY <1>0, <1>8 DEF Recv, RecvWild
    <2>1. Quiet /\ (faults' = faults \/ Trouble)
      BY <1>8 DEF Recv, RecvWild, Received, Missed
    <2>2. ConnInv' /\ pc' = "done" BY <1>5, <2>0, <2>1
    <2>3. (stock' = << >> \/ stock' = stock) /\ step' \in {"recv4", "wild"} /\ step = "recv"
      BY <1>8 DEF Recv, RecvWild, Received, Missed
    <2>4. Echoes'
      <3>1. UNCHANGED <<asked, exit, verdict>> BY <1>8 DEF Recv, RecvWild
      <3>2. /\ stock' \in Seq({"greeting", "echo"})
            /\ asked # "echoed" => \A i \in 1 .. Len(stock') : stock'[i] = "greeting"
        BY <1>0, <2>3, Emptied DEF Echoes
      <3>. QED BY <1>0, <2>3, <3>1, <3>2 DEF Echoes
    <2>5. Ended' BY <2>3 DEF Ended
    <2>. QED BY <2>2, <2>4, <2>5 DEF Inv, TestInv
  <1>9. CASE Recv4
    <2>0. pc = "done" BY <1>0, <1>9 DEF Recv4
    <2>1. Quiet /\ (faults' = faults \/ Trouble) BY <1>9 DEF Recv4, Received, Missed
    <2>2. ConnInv' /\ pc' = "done" BY <1>5, <2>0, <2>1
    <2>3. (stock' = << >> \/ stock' = stock) /\ step' = "close" BY <1>9 DEF Recv4, Received, Missed
    <2>4. verdict' = "ok" => asked = "echoed"
      <3>1. ASSUME verdict' = "ok" PROVE stock # << >> /\ Head(stock) = "echo"
        BY <1>9, <3>1 DEF Recv4, Received, Right
      <3>2. stock # << >> => 1 \in 1 .. Len(stock) /\ Head(stock) = stock[1]
        BY <1>0 DEF Echoes
      <3>. QED BY <1>0, <3>1, <3>2 DEF Echoes
    <2>5. Echoes'
      <3>1. UNCHANGED <<asked, exit>> /\ step = "recv4" /\ verdict' \in {"ok", "failed"}
        BY <1>9 DEF Recv4
      <3>2. /\ stock' \in Seq({"greeting", "echo"})
            /\ asked # "echoed" => \A i \in 1 .. Len(stock') : stock'[i] = "greeting"
        BY <1>0, <2>3, Emptied DEF Echoes
      <3>. QED BY <1>0, <2>3, <2>4, <3>1, <3>2 DEF Echoes
    <2>6. Ended' BY <2>3 DEF Ended
    <2>. QED BY <2>2, <2>5, <2>6 DEF Inv, TestInv
  <1>10. CASE Close
    <2>0. pc = "done" BY <1>0, <1>10 DEF Close
    <2>1. PICK ok \in BOOLEAN, heard \in BOOLEAN :
            /\ Exchange(ok, heard)
            /\ msock' = IF heard THEN "none" ELSE msock
      BY <1>10, Zenon DEF Close
    <2>2. ConnInv' /\ pc' = pc /\ (Clean' => heard)
      BY <1>0, <2>0, <2>1, Exchanged DEF Exchange, Quiet, driver
    <2>3. Echoes' BY <1>0, <1>10 DEF Close, Echoes, peer
    <2>4. ~marked' BY <1>10, Zenon DEF Close
    <2>5. Clean' => msock' = "none" BY <2>1, <2>2
    <2>6. Ended' BY <2>4, <2>5 DEF Ended
    <2>. QED BY <2>0, <2>2, <2>3, <2>6 DEF Inv, TestInv
  <1>11. CASE Return
    <2>0. step = "return" /\ UNCHANGED <<vars, marked, opened, msock, verdict, peer>>
      BY <1>11 DEF Return
    <2>1. pc = "done" /\ Quiet /\ faults' = faults /\ Clean' = Clean
      BY <1>0, <2>0 DEF vars, Quiet, Clean, driver
    <2>2. ConnInv' /\ pc' = "done" BY <1>5, <2>1
    <2>3. Echoes' BY <1>0, <1>11 DEF Return, Echoes, peer
    <2>4. Ended' BY <1>0, <2>0, <2>1 DEF Ended
    <2>. QED BY <2>2, <2>3, <2>4 DEF Inv, TestInv
  <1>. QED
    BY <1>1, <1>2, <1>3, <1>4, <1>6, <1>7, <1>8, <1>9, <1>10, <1>11 DEF Test

LEMMA InvStep == Inv /\ [AppNext]_appvars => Inv'
  <1>. SUFFICES ASSUME Inv, [AppNext]_appvars PROVE Inv' OBVIOUS
  <1>0. ConnInv /\ Echoes /\ Ended /\ (step # "connect" => pc = "done")
    BY DEF Inv, TestInv
  <1>1. CASE Connecting
    <2>1. TypeOK' /\ EchoInv' /\ EstInv'
      BY <1>0, <1>1, NextType, NextEcho, NextEst DEF Connecting, ConnInv
    <2>2. pc' = "done" => initialized'
      BY <1>0, <1>1
         DEF Connecting, Next, Driver, PollUninitialized, Poll, BeginConnect, Alive, At, Ate0, Creg,
             Dial, Started, NotStarted, Fails, NextTry, Boot, Register, GetAddress, LoseNetwork,
             Reboot, driver
    <2>3. step' = "connect" /\ UNCHANGED <<stock, asked, verdict, exit>> /\ step = "connect"
      BY <1>1 DEF Connecting, test, peer
    <2>4. Echoes' /\ Ended' BY <1>0, <2>3 DEF Echoes, Ended
    <2>. QED BY <2>1, <2>2, <2>3, <2>4 DEF Inv, TestInv, ConnInv
  <1>2. CASE Test BY <1>2, TestStep
  <1>3. ASSUME UNCHANGED <<vars, test, msock>> PROVE ConnInv' /\ Ended' /\ UNCHANGED <<step, verdict, exit, pc>>
    <2>1. UNCHANGED <<driver, modem, faults, upsets, pc>> /\ Clean' = Clean
      BY <1>3 DEF vars, driver, Clean
    <2>2. ConnInv' BY <1>0, <2>1 DEF ConnInv, TypeOK, EchoInv, EchoKnown, EstInv, UpKnown, Established,
                                       driver, modem
    <2>3. UNCHANGED <<step, verdict, exit, opened, marked, msock>> BY <1>3 DEF test
    <2>. QED BY <1>0, <2>1, <2>2, <2>3 DEF Ended
  <1>4. CASE Greet
    <2>1. /\ asked' = asked /\ asked # "echoed" /\ stock' = Append(stock, "greeting")
          /\ UNCHANGED <<vars, test, msock>>
      BY <1>4 DEF Greet
    <2>2. stock \in Seq({"greeting", "echo"}) /\ \A i \in 1 .. Len(stock) : stock[i] = "greeting"
      BY <1>0, <2>1 DEF Echoes
    <2>3. stock' \in Seq({"greeting", "echo"}) /\ \A i \in 1 .. Len(stock') : stock'[i] = "greeting"
      BY <2>1, <2>2
    <2>4. Echoes' BY <1>0, <1>3, <2>1, <2>3 DEF Echoes
    <2>. QED BY <1>0, <1>3, <2>1, <2>4 DEF Inv, TestInv
  <1>5. CASE Echo
    <2>1. /\ asked' = "echoed" /\ asked = "yes" /\ stock' = Append(stock, "echo")
          /\ UNCHANGED <<vars, test, msock>>
      BY <1>5 DEF Echo
    <2>2. stock' \in Seq({"greeting", "echo"}) BY <1>0, <2>1 DEF Echoes
    <2>3. Echoes' BY <1>0, <1>3, <2>1, <2>2 DEF Echoes
    <2>. QED BY <1>0, <1>3, <2>1, <2>3 DEF Inv, TestInv
  <1>6. CASE UNCHANGED appvars
    <2>1. UNCHANGED <<vars, test, msock, stock, asked>> BY <1>6 DEF appvars, peer
    <2>2. Echoes' BY <1>0, <1>3, <2>1 DEF Echoes
    <2>. QED BY <1>0, <1>3, <2>1, <2>2 DEF Inv, TestInv
  <1>. QED BY <1>1, <1>2, <1>4, <1>5, <1>6 DEF AppNext

LEMMA Invariant == AppSpec => []Inv
  <1>1. ASSUME AppInit PROVE Inv
    <2>1. TypeOK /\ EchoInv /\ EstInv BY <1>1, InitType, InitEcho, InitEst DEF AppInit
    <2>2. pc # "done" BY <1>1 DEF AppInit, Init
    <2>3. Echoes /\ Ended BY <1>1 DEF AppInit, Echoes, Ended
    <2>. QED BY <1>1, <2>1, <2>2, <2>3 DEF Inv, TestInv, ConnInv, AppInit
  <1>. QED BY <1>1, InvStep, PTL DEF AppSpec

(* main() returns 0 only if "TEST" has gone to the server and come back. *)
THEOREM AppSuccess == AppSpec => []Success
  <1>1. Inv => Success BY DEF Inv, TestInv, Echoes, Success
  <1>. QED BY <1>1, Invariant, PTL

(* A socket that was opened does not outlive the test. *)
THEOREM AppReleased == AppSpec => []Released
  <1>1. Inv => Released BY Zenon DEF Inv, TestInv, Ended, Clean, Released
  <1>. QED BY <1>1, Invariant, PTL

(* The modem stays silent, and has its address, while the test runs, too. *)
THEOREM AppConnected == AppSpec => [](EchoOff /\ Established)
  <1>1. Inv => EchoOff /\ Established
    BY DEF Inv, ConnInv, EchoInv, EchoOff, EstInv
  <1>. QED BY <1>1, Invariant, PTL

(* Types of the test: its stock is typed by Echoes, the connection by ConnInv. *)
TestTypes ==
  /\ step \in Steps \cup {"wild", "exit"}
  /\ resolved \in BOOLEAN /\ marked \in BOOLEAN /\ opened \in BOOLEAN /\ late \in BOOLEAN
  /\ asked \in {"no", "yes", "echoed"}
  /\ msock \in {"none", "created", "connected"}
  /\ greeted \in 0 .. Parts
  /\ first \in Seq({"greeting", "echo"})
  /\ verdict \in {"none", "ok", "failed"} /\ exit \in {"none", "0", "-1"}

LEMMA TypesStep == Inv /\ TestTypes /\ [AppNext]_appvars => TestTypes'
  <1>. SUFFICES ASSUME Inv, TestTypes, [AppNext]_appvars PROVE TestTypes' OBVIOUS
  <1>. USE DEF TestTypes, Steps
  <1>0. stock \in Seq({"greeting", "echo"}) BY DEF Inv, TestInv, Echoes
  <1>1. CASE Connecting BY <1>1 DEF Connecting, test, peer
  <1>2. CASE Connected BY <1>2 DEF Connected, peer
  <1>3. CASE Open BY <1>3 DEF Open, Fail, peer
  <1>4. CASE Resolve BY <1>4 DEF Resolve, peer
  <1>5. CASE Join BY <1>5 DEF Join, Fail, peer
  <1>6. CASE JoinNowhere BY <1>6 DEF JoinNowhere, Fail, peer
  <1>7. CASE SendTest BY <1>7 DEF SendTest
  <1>8. CASE Recv BY <1>0, <1>8 DEF Recv, Received
  <1>9. CASE RecvWild BY <1>9 DEF RecvWild, Missed
  <1>10. CASE Recv4 BY <1>10 DEF Recv4, Received, Missed
  <1>11. CASE Close BY <1>11 DEF Close, peer
  <1>12. CASE Return BY <1>12 DEF Return, peer
  <1>13. CASE Greet BY <1>13, PartsAssumption DEF Greet, test
  <1>14. CASE Echo BY <1>14 DEF Echo, test
  <1>15. CASE UNCHANGED appvars BY <1>15 DEF appvars, test, peer
  <1>. QED
    BY <1>1, <1>2, <1>3, <1>4, <1>5, <1>6, <1>7, <1>8, <1>9, <1>10, <1>11, <1>12, <1>13, <1>14,
       <1>15
    DEF AppNext, Test

LEMMA InitTestTypes == AppInit => TestTypes
  <1>. SUFFICES ASSUME AppInit PROVE TestTypes OBVIOUS
  <1>1. first \in Seq({"greeting", "echo"}) /\ greeted = 0 BY DEF AppInit
  <1>2. greeted \in 0 .. Parts BY <1>1, PartsAssumption
  <1>. QED BY <1>1, <1>2, Zenon DEF AppInit, TestTypes, Steps

(* Every variable keeps its type, from power-on to the end of main(). *)
THEOREM AppTyping == AppSpec => []AppTypeOK
  <1>1. Inv /\ TestTypes => AppTypeOK
    BY DEF Inv, TestInv, ConnInv, Echoes, TestTypes, AppTypeOK
  <1>. QED BY <1>1, Invariant, InitTestTypes, TypesStep, PTL DEF AppSpec

-----------------------------------------------------------------------------
(* The two ways for the test to go wrong without a fault. *)

Excuse == late \/ first # << "greeting" >> \/ greeted > 1

(* What each call finds when nothing has gone wrong before it. *)
Calls ==
  /\ step \in {"resolve", "join"} => msock = "created"
  /\ step = "join" => resolved
  /\ step \in {"send", "recv", "recv4"} => msock = "connected"

(* The server greets first, so what is there, or was, began with its greeting; and
   there is no verdict before the end. *)
Begun ==
  /\ greeted = 0 => stock = << >> /\ first = << >>
  /\ step \notin {"close", "return", "exit"} => verdict = "none"

(* At the second recv() the greeting is over, and only "TEST" can be there. *)
Over == step = "recv4" /\ ~Excuse => \A i \in 1 .. Len(stock) : stock[i] = "echo"

Blamed ==
  /\ verdict = "failed" \/ step = "wild" => Excuse
  /\ step \in {"close", "return", "exit"} => verdict # "none"
  /\ step = "exit" => (exit = "0" <=> verdict = "ok")

Smooth == Begun /\ (Clean => Calls /\ Over /\ Blamed)

LEMMA SmoothStep == Inv /\ TestTypes /\ Smooth /\ [AppNext]_appvars => Smooth'
  <1>. SUFFICES ASSUME Inv, TestTypes, Smooth, [AppNext]_appvars PROVE Smooth' OBVIOUS
  <1>0. /\ ConnInv /\ TypeOK /\ (step # "connect" => pc = "done") /\ Begun
        /\ stock \in Seq({"greeting", "echo"}) /\ greeted \in Nat
    BY PartsAssumption DEF Inv, ConnInv, TestInv, Echoes, Smooth, TestTypes
  <1>1. ASSUME UNCHANGED <<driver, upsets>>, faults' = faults \/ Trouble
        PROVE  Clean' => Clean
    BY <1>0, <1>1 DEF Clean, driver, Trouble, TypeOK
  <1>2. ASSUME Clean PROVE Calls /\ Over /\ Blamed BY <1>2 DEF Smooth
  (* Most steps leave what the server has sent, and what has been read of it. *)
  <1>3. ASSUME UNCHANGED <<stock, first, greeted>>,
               step' \notin {"close", "return", "exit"} => verdict' = "none"
        PROVE  Begun'
    BY <1>0, <1>3 DEF Begun
  <1>4. CASE Connecting
    <2>1. step = "connect" /\ UNCHANGED <<step, stock, first, greeted, verdict>>
      BY <1>4 DEF Connecting, test, peer
    <2>2. verdict = "none" BY <1>0, <2>1 DEF Begun
    <2>. QED BY <1>3, <2>1, <2>2 DEF Smooth, Calls, Over, Blamed
  <1>5. CASE Connected
    <2>1. step = "connect" /\ step' = "open" /\ UNCHANGED <<stock, first, greeted, verdict>>
      BY <1>5 DEF Connected, peer
    <2>2. verdict = "none" BY <1>0, <2>1 DEF Begun
    <2>. QED BY <1>3, <2>1, <2>2 DEF Smooth, Calls, Over, Blamed
  <1>6. CASE Open
    <2>1. PICK ok \in BOOLEAN, heard \in BOOLEAN :
            /\ Exchange(ok, heard)
            /\ msock' = IF heard THEN "created" ELSE msock
            /\ IF ok THEN step' = "resolve" /\ UNCHANGED verdict ELSE Fail("return")
      BY <1>6, Zenon DEF Open
    <2>2. step = "open" /\ UNCHANGED <<stock, first, greeted>> BY <1>6 DEF Open, peer
    <2>3. pc = "done" /\ verdict = "none" BY <1>0, <2>2 DEF Begun
    <2>4. Clean' => ok /\ heard BY <1>0, <2>1, <2>3, Exchanged
    <2>5. Begun' BY <1>3, <2>1, <2>2, <2>3 DEF Fail
    <2>6. CASE Clean'
      <3>1. msock' = "created" /\ step' = "resolve" /\ verdict' = "none"
        BY <2>1, <2>3, <2>4, <2>6
      <3>. QED BY <2>5, <3>1 DEF Smooth, Calls, Over, Blamed
    <2>. QED BY <2>5, <2>6 DEF Smooth
  <1>7. CASE Resolve
    <2>1. PICK ok \in BOOLEAN, heard \in BOOLEAN :
            /\ Exchange(ok, heard)
            /\ resolved' = ok
            /\ IF ok THEN step' = "join" ELSE step' \in {"join", "wild"}
      BY <1>7, Zenon DEF Resolve
    <2>2. step = "resolve" /\ UNCHANGED <<stock, first, greeted, verdict, msock>>
      BY <1>7 DEF Resolve, peer
    <2>3. pc = "done" /\ verdict = "none" BY <1>0, <2>2 DEF Begun
    <2>4. Clean' => Clean /\ ok BY <1>0, <2>1, <2>3, Exchanged
    <2>5. Begun' BY <1>3, <2>1, <2>2, <2>3
    <2>6. CASE Clean'
      <3>1. ok /\ Calls BY <1>2, <2>4, <2>6
      <3>2. step' = "join" /\ resolved' BY <2>1, <3>1, Zenon
      <3>3. msock' = "created" BY <2>2, <3>1 DEF Calls
      <3>. QED BY <2>2, <2>3, <2>5, <3>2, <3>3 DEF Smooth, Calls, Over, Blamed
    <2>. QED BY <2>5, <2>6 DEF Smooth
  <1>8. CASE Join
    <2>1. PICK ok \in BOOLEAN, heard \in BOOLEAN :
            /\ Exchange(ok, heard)
            /\ msock' = IF heard /\ msock = "created" THEN "connected" ELSE msock
            /\ IF ok THEN step' = "send" /\ UNCHANGED verdict ELSE Fail("close")
      BY <1>8, Zenon DEF Join
    <2>2. step = "join" /\ UNCHANGED <<stock, first, greeted>> BY <1>8 DEF Join, peer
    <2>3. pc = "done" /\ verdict = "none" BY <1>0, <2>2 DEF Begun
    <2>4. Clean' => Clean /\ ok /\ heard BY <1>0, <2>1, <2>3, Exchanged
    <2>5. Begun' BY <1>3, <2>1, <2>2, <2>3 DEF Fail
    <2>6. CASE Clean'
      <3>1. ok /\ heard /\ Calls BY <1>2, <2>4, <2>6
      <3>2. msock' = "connected" /\ step' = "send" /\ verdict' = "none"
        BY <2>1, <2>2, <2>3, <3>1 DEF Calls
      <3>. QED BY <2>5, <3>2 DEF Smooth, Calls, Over, Blamed
    <2>. QED BY <2>5, <2>6 DEF Smooth
  <1>9. CASE JoinNowhere
    <2>1. /\ step = "join" /\ ~resolved /\ step' = "close"
          /\ UNCHANGED <<driver, upsets, faults, stock, first, greeted>>
      BY <1>9 DEF JoinNowhere, Fail, Quiet, peer
    <2>2. Begun' BY <1>3, <2>1
    <2>3. ~Clean' BY <1>1, <1>2, <2>1 DEF Calls
    <2>. QED BY <2>2, <2>3 DEF Smooth
  <1>10. CASE SendTest
    <2>1. PICK ok \in BOOLEAN, heard \in BOOLEAN : Exchange(ok, heard)
      BY <1>10, Zenon DEF SendTest
    <2>2. step = "send" /\ step' = "recv" /\ UNCHANGED <<stock, first, greeted, verdict, msock>>
      BY <1>10 DEF SendTest
    <2>3. pc = "done" /\ verdict = "none" BY <1>0, <2>2 DEF Begun
    <2>4. Clean' => Clean BY <1>0, <2>1, <2>3, Exchanged
    <2>5. Begun' BY <1>3, <2>2, <2>3
    <2>. QED BY <1>2, <2>2, <2>3, <2>4, <2>5 DEF Smooth, Calls, Over, Blamed
  <1>11. CASE Recv
    <2>1. /\ step = "recv" /\ step' = "recv4" /\ stock # << >> /\ stock' = << >> /\ first' = stock
          /\ UNCHANGED <<driver, upsets, faults, verdict, msock, greeted, late>>
      BY <1>11 DEF Recv, Received, Quiet
    <2>2. verdict = "none" /\ greeted # 0 BY <1>0, <2>1 DEF Begun
    <2>3. Begun' BY <2>1, <2>2 DEF Begun
    <2>4. Clean' => Clean BY <1>1, <2>1
    <2>5. Over' BY <2>1, Emptied DEF Over
    <2>. QED BY <1>2, <2>1, <2>2, <2>3, <2>4, <2>5 DEF Smooth, Calls, Blamed
  <1>12. CASE RecvWild
    <2>1. /\ step = "recv" /\ step' = "wild"
          /\ UNCHANGED <<driver, upsets, verdict, greeted, first>>
      BY <1>12 DEF RecvWild, Quiet
    <2>2. \/ stock = << >> /\ UNCHANGED <<faults, stock>> /\ late'
          \/ Trouble /\ stock' = << >>
      BY <1>12 DEF RecvWild, Missed
    <2>3. verdict = "none" BY <1>0, <2>1 DEF Begun
    <2>4. Begun' BY <1>0, <2>1, <2>2, <2>3 DEF Begun
    <2>5. Clean' => Excuse'
      BY <1>0, <1>1, <2>1, <2>2 DEF Excuse, Clean, Trouble, TypeOK
    <2>. QED BY <2>1, <2>3, <2>4, <2>5 DEF Smooth, Calls, Over, Blamed
  <1>13. CASE Recv4
    <2>1. /\ step = "recv4" /\ step' = "close"
          /\ UNCHANGED <<driver, upsets, greeted, first>>
      BY <1>13 DEF Recv4, Quiet
    <2>2. \/ /\ stock # << >> /\ stock' = << >> /\ UNCHANGED <<faults, late>>
             /\ verdict' = (IF Head(stock) = "echo" THEN "ok" ELSE "failed")
          \/ stock = << >> /\ UNCHANGED <<faults, stock>> /\ late' /\ verdict' = "failed"
          \/ Trouble /\ stock' = << >> /\ verdict' = "failed"
      BY <1>13 DEF Recv4, Missed, Received, Right
    <2>3. Begun' BY <1>0, <2>1, <2>2 DEF Begun
    <2>4. ASSUME Clean' PROVE Blamed'
      <3>1. Clean /\ Over /\ ~Trouble
        BY <1>0, <1>1, <1>2, <2>1, <2>2, <2>4 DEF Clean, Trouble, TypeOK
      <3>2. CASE stock = << >> /\ late' /\ verdict' = "failed"
        BY <2>1, <3>2 DEF Blamed, Excuse
      <3>3. CASE /\ stock # << >> /\ late' = late
                 /\ verdict' = (IF Head(stock) = "echo" THEN "ok" ELSE "failed")
        <4>1. 1 \in 1 .. Len(stock) /\ Head(stock) = stock[1] BY <1>0, <3>3
        <4>2. ~Excuse => verdict' = "ok" BY <2>1, <3>1, <3>3, <4>1 DEF Over
        <4>3. verdict' # "none" BY <3>3
        <4>4. Excuse' <=> Excuse BY <2>1, <3>3 DEF Excuse
        <4>. QED BY <2>1, <4>2, <4>3, <4>4 DEF Blamed
      <3>. QED BY <2>2, <3>1, <3>2, <3>3
    <2>. QED BY <2>1, <2>3, <2>4 DEF Smooth, Calls, Over
  <1>14. CASE Close
    <2>1. PICK ok \in BOOLEAN, heard \in BOOLEAN : Exchange(ok, heard)
      BY <1>14, Zenon DEF Close
    <2>2. /\ step = "close" /\ step' = "return"
          /\ UNCHANGED <<stock, first, greeted, verdict, late>>
      BY <1>14 DEF Close, peer
    <2>3. Clean' => Clean BY <1>0, <2>1, <2>2, Exchanged
    <2>4. Begun' BY <1>3, <2>2
    <2>. QED BY <1>2, <2>2, <2>3, <2>4 DEF Smooth, Calls, Over, Blamed, Excuse
  <1>15. CASE Return
    <2>1. /\ step = "return" /\ step' = "exit" /\ exit' = IF verdict = "ok" THEN "0" ELSE "-1"
          /\ UNCHANGED <<vars, stock, first, greeted, verdict, late>>
      BY <1>15 DEF Return, peer
    <2>2. Clean' => Clean BY <1>1, <2>1 DEF vars
    <2>3. Begun' BY <1>3, <2>1
    <2>4. exit' = "0" <=> verdict' = "ok" BY <2>1
    <2>. QED BY <1>2, <2>1, <2>2, <2>3, <2>4 DEF Smooth, Calls, Over, Blamed, Excuse
  <1>16. CASE Greet
    <2>1. /\ greeted' = greeted + 1 /\ stock' = Append(stock, "greeting")
          /\ UNCHANGED <<vars, step, resolved, first, verdict, exit, late, msock>>
      BY <1>16 DEF Greet, test
    <2>2. Clean' => Clean BY <1>1, <2>1 DEF vars
    <2>3. Begun' BY <1>0, <2>1 DEF Begun
    <2>4. Excuse => Excuse' BY <1>0, <2>1 DEF Excuse
    <2>5. Over'
      <3>1. greeted # 0 => greeted' > 1 BY <1>0, <2>1
      <3>2. greeted = 0 => first # << "greeting" >> BY <1>0 DEF Begun
      <3>. QED BY <2>1, <3>1, <3>2 DEF Over, Excuse
    <2>. QED BY <1>2, <2>1, <2>2, <2>3, <2>4, <2>5 DEF Smooth, Calls, Blamed
  <1>17. CASE Echo
    <2>1. /\ greeted > 0 /\ stock' = Append(stock, "echo")
          /\ UNCHANGED <<vars, step, resolved, first, verdict, exit, late, msock, greeted>>
      BY <1>17 DEF Echo, test
    <2>2. Clean' => Clean BY <1>1, <2>1 DEF vars
    <2>3. Begun' BY <1>0, <2>1 DEF Begun
    <2>4. Excuse' <=> Excuse BY <2>1 DEF Excuse
    <2>5. Over => Over' BY <1>0, <2>1, <2>4 DEF Over
    <2>. QED BY <1>2, <2>1, <2>2, <2>3, <2>4, <2>5 DEF Smooth, Calls, Blamed
  <1>18. CASE UNCHANGED appvars
    BY <1>18, <1>0, <1>2
       DEF appvars, vars, driver, test, peer, Smooth, Begun, Calls, Over, Blamed, Excuse, Clean
  <1>. QED
    BY <1>4, <1>5, <1>6, <1>7, <1>8, <1>9, <1>10, <1>11, <1>12, <1>13, <1>14, <1>15, <1>16, <1>17,
       <1>18
    DEF AppNext, Test

(* Without faults there are two ways for the test to fail or to run wild: the server is
   slower than recv() waits, or the first recv() does not get the greeting, the whole of
   it and nothing else.  Every call before them succeeds. *)
THEOREM AppApart == AppSpec => []Apart
  <1>1. AppInit => TestTypes /\ Smooth
    BY InitTestTypes DEF AppInit, Smooth, Begun, Calls, Over, Blamed
  <1>2. Smooth /\ TestTypes => Apart
    <2>. SUFFICES ASSUME Smooth, TestTypes, Clean, step \in {"exit", "wild"}, exit # "0"
                  PROVE  Excuse
      BY DEF Apart, Clean, Excuse
    <2>. QED BY DEF Smooth, Blamed, TestTypes
  <1>. QED BY <1>1, <1>2, Invariant, TypesStep, SmoothStep, PTL DEF AppSpec

-----------------------------------------------------------------------------
(* How long connect() can last. *)

(* No loop of it goes past its last try. *)
Counted ==
  /\ pc \in {"alive", "at"} => tries < ResetTries
  /\ pc = "creg" => tries < ConnectTries /\ networkTries < NetworkTries

(* What can still come of asking for the network, and dialling. *)
Dialling == ConnectTries * NetworkTries + 1

(* The exchanges that connect() has before it, at most. *)
Effort ==
  IF pc = "alive" THEN 2 * (ResetTries - tries) + 1 + Dialling
  ELSE IF pc = "at" THEN 2 * (ResetTries - tries) + Dialling
  ELSE IF pc = "ate0" THEN 1 + Dialling
  ELSE IF pc = "creg" THEN (ConnectTries - 1 - tries) * NetworkTries + NetworkTries - networkTries + 1
  ELSE IF pc = "dial" THEN 1 ELSE 0

MaxEffort == 2 * ResetTries + 1 + Dialling

(* Each exchange brings connect() nearer to its end, and do_connect() alone begins a new one. *)
EffortFalls ==
  /\ Driver /\ pc # "poll" => Effort' < Effort
  /\ Effort' > Effort => pc = "poll"

LEMMA Products ==
  /\ \A m, n \in Nat : m * n \in Nat
  /\ \A c, n, t \in Nat : t < c => (c - 1 - t) * n \in Nat /\ (c - 1 - t) * n + n <= c * n
  /\ \A c, n, t \in Nat : (c - 1 - t) * n = (c - 1 - (t + 1)) * n + n
  /\ \A c, n \in Nat : (c - 1 - 0) * n + n = c * n
  <1>1. \A m, n \in Nat : m * n \in Nat OBVIOUS
  <1>2. \A c, n, t \in Nat : (c - 1 - t) * n = (c - 1 - (t + 1)) * n + n OBVIOUS
  <1>3. \A c, n, t \in Nat : (c - 1 - t) * n + n = c * n - t * n OBVIOUS
  <1>4. ASSUME NEW c \in Nat, NEW n \in Nat, NEW t \in Nat, t < c
        PROVE  (c - 1 - t) * n \in Nat /\ (c - 1 - t) * n + n <= c * n
    <2>1. c - 1 - t \in Nat BY <1>4
    <2>2. (c - 1 - t) * n \in Nat BY <1>1, <2>1
    <2>3. t * n \in Nat BY <1>1
    <2>4. (c - 1 - t) * n + n = c * n - t * n BY <1>3
    <2>5. c * n \in Nat BY <1>1
    <2>. QED BY <2>2, <2>3, <2>4, <2>5
  <1>5. \A c, n \in Nat : (c - 1 - 0) * n + n = c * n OBVIOUS
  <1>. QED BY <1>1, <1>2, <1>4, <1>5

LEMMA EffortType ==
  ASSUME TypeOK, Counted
  PROVE  /\ Effort \in 0 .. MaxEffort /\ Dialling \in Nat
         /\ pc \in {"alive", "at", "ate0", "creg", "dial"} => Effort > 0
  <1>1. /\ tries \in Nat /\ networkTries \in Nat /\ ResetTries \in Nat \ {0}
        /\ ConnectTries \in Nat \ {0} /\ NetworkTries \in Nat \ {0}
    BY TriesAssumption DEF TypeOK
  <1>2. Dialling \in Nat /\ Dialling >= 1 BY <1>1, Products DEF Dialling
  <1>3. CASE pc \in {"alive", "at"}
    <2>1. tries < ResetTries BY <1>3 DEF Counted
    <2>. QED BY <1>1, <1>2, <1>3, <2>1 DEF Effort, MaxEffort
  <1>4. CASE pc = "creg"
    <2>1. tries < ConnectTries /\ networkTries < NetworkTries BY <1>4 DEF Counted
    <2>. DEFINE left == (ConnectTries - 1 - tries) * NetworkTries
    <2>2. left \in Nat /\ left + NetworkTries <= ConnectTries * NetworkTries
      BY <1>1, <2>1, Products
    <2>3. ConnectTries * NetworkTries \in Nat BY <1>1, Products
    <2>4. Effort = left + NetworkTries - networkTries + 1 BY <1>4 DEF Effort
    <2>5. MaxEffort = 2 * ResetTries + 1 + (ConnectTries * NetworkTries + 1) BY DEF MaxEffort, Dialling
    <2>. HIDE DEF left
    <2>. QED BY <1>1, <1>2, <2>1, <2>2, <2>3, <2>4, <2>5
  <1>5. CASE pc \in {"ate0", "dial", "poll", "done"}
    BY <1>1, <1>2, <1>5 DEF Effort, MaxEffort
  <1>. QED BY <1>2, <1>3, <1>4, <1>5 DEF TypeOK

(* A step of connect() or about it. *)
LEMMA EffortStep ==
  ASSUME TypeOK, TypeOK', Counted, Next
  PROVE  Counted' /\ (Driver /\ pc # "poll" => Effort' < Effort) /\ (Effort' > Effort => pc = "poll")
  <1>1. /\ tries \in Nat /\ networkTries \in Nat /\ ResetTries \in Nat \ {0}
        /\ ConnectTries \in Nat \ {0} /\ NetworkTries \in Nat \ {0}
        /\ Dialling \in Nat /\ Effort \in Nat
    BY TriesAssumption, EffortType DEF TypeOK, MaxEffort
  <1>2. ASSUME pc' = "poll", pc \in {"alive", "at", "ate0", "creg", "dial"}
        PROVE  Counted' /\ Effort' \in Nat /\ Effort' < Effort
    <2>1. Effort' = 0 /\ Counted' BY <1>2 DEF Effort, Counted
    <2>. QED BY <1>1, <1>2, <2>1, EffortType
  <1>3. ASSUME Started, pc \in {"alive", "ate0"}
        PROVE  Counted' /\ Effort' \in Nat /\ Effort' < Effort
    <2>1. pc' = "creg" /\ tries' = 0 /\ networkTries' = 0 BY <1>3 DEF Started
    <2>2. Effort' = (ConnectTries - 1 - 0) * NetworkTries + NetworkTries - 0 + 1
      BY <2>1 DEF Effort
    <2>3. Effort' = Dialling
      <3>1. (ConnectTries - 1 - 0) * NetworkTries + NetworkTries = ConnectTries * NetworkTries
        BY <1>1, Products
      <3>2. (ConnectTries - 1 - 0) * NetworkTries \in Int BY <1>1
      <3>. QED BY <1>1, <2>2, <3>1, <3>2 DEF Dialling
    <2>4. Effort >= 1 + Dialling
      <3>1. CASE pc = "ate0" BY <1>1, <3>1 DEF Effort
      <3>2. CASE pc = "alive" BY <1>1, <3>2 DEF Effort, Counted
      <3>. QED BY <1>3, <3>1, <3>2
    <2>5. Counted' BY <1>1, <2>1 DEF Counted
    <2>. QED BY <1>1, <2>3, <2>4, <2>5
  <1>4. CASE PollUninitialized \/ Poll
    <2>1. pc = "poll" BY <1>4 DEF PollUninitialized, Poll
    <2>2. pc' = "done" \/ (pc' = "alive" /\ tries' = 0)
      BY <1>4 DEF PollUninitialized, Poll, BeginConnect
    <2>. QED BY <1>1, <2>1, <2>2 DEF Counted
  <1>5. CASE Alive
    <2>1. pc = "alive" /\ (Started \/ (pc' = "at" /\ UNCHANGED <<tries, networkTries>>))
      BY <1>5 DEF Alive
    <2>2. CASE pc' = "at" /\ UNCHANGED <<tries, networkTries>>
      BY <1>1, <2>1, <2>2 DEF Effort, Counted
    <2>. QED BY <1>1, <1>3, <2>1, <2>2
  <1>6. CASE At
    <2>1. /\ pc = "at"
          /\ \/ pc' = "ate0"
             \/ pc' = "alive" /\ tries' = tries + 1 /\ tries + 1 < ResetTries
             \/ NotStarted
      BY <1>6 DEF At
    <2>2. CASE pc' = "ate0" BY <1>1, <2>1, <2>2 DEF Effort, Counted
    <2>3. CASE pc' = "alive" /\ tries' = tries + 1 /\ tries + 1 < ResetTries
      BY <1>1, <2>1, <2>3 DEF Effort, Counted
    <2>4. CASE NotStarted
      <3>1. pc' = "poll" BY <2>4 DEF NotStarted, Fails
      <3>. QED BY <1>1, <1>2, <2>1, <3>1
    <2>. QED BY <1>1, <2>1, <2>2, <2>3, <2>4
  <1>7. CASE Ate0
    <2>1. pc = "ate0" /\ (Started \/ NotStarted) BY <1>7 DEF Ate0
    <2>2. NotStarted => pc' = "poll" BY DEF NotStarted, Fails
    <2>. QED BY <1>1, <1>2, <1>3, <2>1, <2>2
  <1>8. CASE Creg
    <2>1. pc = "creg" /\ ((pc' = "dial" /\ UNCHANGED <<tries, networkTries>>) \/ NextTry)
      BY <1>8 DEF Creg
    <2>2. tries < ConnectTries /\ networkTries < NetworkTries BY <2>1 DEF Counted
    <2>. DEFINE left == (ConnectTries - 1 - tries) * NetworkTries
    <2>3. left \in Nat BY <1>1, <2>2, Products
    <2>4. Effort = left + NetworkTries - networkTries + 1 BY <2>1 DEF Effort
    <2>5. CASE pc' = "dial"
      <3>1. Effort' = 1 BY <2>5 DEF Effort
      <3>2. Counted' BY <2>5 DEF Counted
      <3>. HIDE DEF left
      <3>. QED BY <1>1, <2>2, <2>3, <2>4, <3>1, <3>2
    <2>6. CASE pc' = "creg" /\ networkTries' = networkTries + 1 /\ networkTries + 1 < NetworkTries
               /\ tries' = tries
      <3>1. Effort' = left + NetworkTries - networkTries' + 1 BY <2>6 DEF Effort
      <3>2. Counted' BY <2>2, <2>6 DEF Counted
      <3>. HIDE DEF left
      <3>. QED BY <1>1, <2>2, <2>3, <2>4, <2>6, <3>1, <3>2
    <2>7. CASE pc' = "creg" /\ networkTries' = 0 /\ tries' = tries + 1 /\ tries + 1 < ConnectTries
      <3>. DEFINE next == (ConnectTries - 1 - (tries + 1)) * NetworkTries
      <3>1. Effort' = next + NetworkTries - 0 + 1 BY <2>7 DEF Effort
      <3>2. left = next + NetworkTries BY <1>1, Products
      <3>3. Counted' BY <1>1, <2>2, <2>7 DEF Counted
      <3>4. next \in Int BY <1>1
      <3>. HIDE DEF left, next
      <3>. QED BY <1>1, <2>2, <2>3, <2>4, <3>1, <3>2, <3>3, <3>4
    <2>8. CASE pc' = "poll" BY <1>1, <1>2, <2>1, <2>8
    <2>. QED BY <2>1, <2>5, <2>6, <2>7, <2>8 DEF NextTry, Fails
  <1>9. CASE Dial
    <2>1. pc = "dial" /\ pc' = "poll" BY <1>9 DEF Dial, Fails
    <2>. QED BY <1>1, <1>2, <2>1
  <1>10. CASE Boot \/ Register \/ GetAddress \/ LoseNetwork \/ Reboot
    <2>1. UNCHANGED driver BY <1>10 DEF Boot, Register, GetAddress, LoseNetwork, Reboot
    <2>2. Counted' /\ Effort' = Effort BY <2>1 DEF driver, Counted, Effort
    <2>3. ~Driver
      <3>1. up' # up \/ registered' # registered \/ address' # address
        BY <1>10 DEF Boot, Register, GetAddress, LoseNetwork, Reboot
      <3>2. Driver => UNCHANGED <<up, registered, address>>
        BY DEF Driver, PollUninitialized, Poll, Alive, At, Ate0, Creg, Dial, modem
      <3>. QED BY <3>1, <3>2
    <2>. QED BY <1>1, <2>2, <2>3
  <1>. QED
    BY <1>1, <1>4, <1>5, <1>6, <1>7, <1>8, <1>9, <1>10 DEF Next, Driver

(* Whatever the modem answers or does not answer, a connect() of the interface comes back   *)
(* after 2 * ResetTries + 2 + ConnectTries * NetworkTries exchanges at most, all through    *)
(* main(); only do_connect(), which never gives up, can go on for longer.                   *)
THEOREM AppConnectEnds == AppSpec => [](Effort \in 0 .. MaxEffort) /\ [][EffortFalls]_appvars
  <1>1. AppInit => Counted BY TriesAssumption DEF AppInit, Init, Counted
  <1>2. Inv /\ Inv' /\ Counted /\ [AppNext]_appvars => Counted' /\ [EffortFalls]_appvars
    <2>. SUFFICES ASSUME Inv, Inv', Counted, [AppNext]_appvars
                  PROVE  Counted' /\ (AppNext => EffortFalls)
      OBVIOUS
    <2>1. TypeOK /\ TypeOK' /\ Effort \in Nat
      BY EffortType, TriesAssumption DEF Inv, ConnInv, MaxEffort
    <2>2. CASE Connecting
      BY <2>1, <2>2, EffortStep DEF Connecting, EffortFalls
    <2>3. CASE Test
      <3>1. step # "connect" \/ pc = "done"
        BY <2>3 DEF Test, Connected, Open, Resolve, Join, JoinNowhere, SendTest, Recv, RecvWild, Recv4,
                    Close, Return
      <3>2. pc = "done" BY <3>1 DEF Inv, TestInv
      <3>3. pc' = "done"
        BY <2>3, <3>2
        DEF Test, Connected, Open, Resolve, Join, JoinNowhere, SendTest, Recv, RecvWild, Recv4,
            Close, Return, Exchange, Quiet, driver, vars
      <3>4. ~Driver
        BY <3>2 DEF Driver, PollUninitialized, Poll, Alive, At, Ate0, Creg, Dial
      <3>5. Counted' /\ Effort' = 0 /\ Effort = 0 BY <3>2, <3>3 DEF Counted, Effort
      <3>. QED BY <3>4, <3>5 DEF EffortFalls
    <2>4. CASE Greet \/ Echo \/ UNCHANGED appvars
      <3>1. UNCHANGED vars BY <2>4 DEF Greet, Echo, appvars
      <3>2. Counted' /\ Effort' = Effort BY <3>1 DEF vars, driver, Counted, Effort
      <3>3. ~(Driver /\ pc # "poll") BY <2>1, <3>2, EffortStep DEF Next
      <3>. QED BY <2>1, <3>2, <3>3 DEF EffortFalls
    <2>. QED BY <2>2, <2>3, <2>4 DEF AppNext
  <1>3. Inv /\ Counted => Effort \in 0 .. MaxEffort BY EffortType DEF Inv, ConnInv
  <1>. QED BY <1>1, <1>2, <1>3, Invariant, PTL DEF AppSpec
=============================================================================
